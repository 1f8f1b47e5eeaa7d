--------------------------- MODULE ServicesProofs ---------------------------
(***************************************************************************)
(* Proofs about the services of MCServices, for any requests, processes,   *)
(* users, records and bounds.  A behaviour is one of a single service; each*)
(* section proves an invariant of one over the variables lent to it, and   *)
(* ends with what MCServices says of that service.                         *)
(***************************************************************************)
EXTENDS MCServices, FiniteSets, FiniteSetTheorems, SequenceTheorems, TLAPS

LEMMA BoundsAreNumbers ==
  /\ MaxSaves \in Nat /\ MaxWarnings \in Nat /\ MaxFaults \in Nat
  /\ MaxSockets \in Nat /\ MaxSends \in Nat /\ MaxFrames \in Nat
  /\ MaxTime \in Nat /\ MaxRuns \in Nat
  /\ MaxTokens \in Nat /\ MaxRequests \in Nat /\ MaxChanges \in Nat
BY ConstantsAssumption

-----------------------------------------------------------------------------
(* Uptime: now is v1, rows v2, process v3 and runs v4 *)

(* What an instance counts with is what this module counts with. *)
LEMMA UptimeCounts ==
  /\ \A S : Uptime!IsFiniteSet(S) <=> IsFiniteSet(S)
  /\ \A S : Uptime!Cardinality(S) = Cardinality(S)
<1>1. \A S : Uptime!IsFiniteSet(S) <=> IsFiniteSet(S)
  BY DEF Uptime!IsFiniteSet, IsFiniteSet
<1>2. \A S : Uptime!Cardinality(S) = Cardinality(S)
  BY DEF Uptime!Cardinality, Cardinality
<1> QED BY <1>1, <1>2

UptimeInv ==
  /\ Uptime!TypeOK
  /\ Uptime!RowsAreNumbered
  /\ \A p \in Processes : Uptime!OwnsItsRow(p)
  /\ \A p \in Processes : Uptime!UpdatesAreOfItsLife(p)
  /\ Uptime!PeriodIsOfItsProcess

LEMMA UptimeInvInit == Uptime!Init => UptimeInv
<1> SUFFICES ASSUME Uptime!Init
             PROVE  UptimeInv
  OBVIOUS
<1> USE BoundsAreNumbers DEF Uptime!Init, Uptime!Times, Uptime!Ids, Uptime!Infinity
<1>1. v3 \in [Processes -> Uptime!Process] /\ \A p \in Processes : v3[p] = Uptime!Stopped
  BY DEF Uptime!Stopped, Uptime!Process
<1>2. Uptime!TypeOK
  BY <1>1 DEF Uptime!TypeOK
<1>3. Uptime!RowsAreNumbered
  <2>1. v2 = {} /\ IsFiniteSet(v2) /\ Cardinality(v2) = 0
    BY FS_EmptySet
  <2>2. \A id \in Uptime!Ids : v4[id] = Uptime!Infinity
    OBVIOUS
  <2>3. Cardinality(v2) <= MaxRuns
    BY <2>1
  <2>4. \A r, s \in v2 : r.id <= Cardinality(v2) /\ (r.id = s.id => r = s)
    BY <2>1
  <2> QED BY <2>1, <2>2, <2>3, <2>4, UptimeCounts DEF Uptime!RowsAreNumbered
<1>4. ASSUME NEW p \in Processes
      PROVE  Uptime!OwnsItsRow(p) /\ Uptime!UpdatesAreOfItsLife(p)
  BY <1>1 DEF Uptime!OwnsItsRow, Uptime!UpdatesAreOfItsLife, Uptime!Stopped
<1>5. Uptime!PeriodIsOfItsProcess
  BY DEF Uptime!PeriodIsOfItsProcess
<1> QED BY <1>2, <1>3, <1>4, <1>5 DEF UptimeInv

(* The steps that write neither the table nor the history and give no      *)
(* process another row.                                                    *)
LEMMA UptimeRowsKept ==
  ASSUME UptimeInv, UNCHANGED <<v2, v4>>, v1' \in Nat, v1 <= v1', v1' <= MaxTime,
         v3' \in [Processes -> Uptime!Process],
         \A p \in Processes :
           /\ v3'[p].lastInsertedId = v3[p].lastInsertedId
           /\ v3'[p].state \in {"running", "stopping"} <=> v3[p].state \in {"running", "stopping"}
           /\ v3'[p].start <= v1'
           /\ v3'[p].updates \subseteq v3[p].updates \cup {v1}
           /\ v3[p].state \notin {"running", "stopping"} => v3'[p].updates \subseteq v3[p].updates
  PROVE  UptimeInv'
<1>0. v1 \in Nat /\ v1 <= MaxTime /\ MaxTime \in Nat /\ v2 \subseteq Uptime!Row
  BY BoundsAreNumbers DEF UptimeInv, Uptime!TypeOK, Uptime!Times
<1>1. Uptime!TypeOK'
  BY <1>0 DEF UptimeInv, Uptime!TypeOK, Uptime!Times
<1>2. Uptime!RowsAreNumbered'
  BY DEF UptimeInv, Uptime!RowsAreNumbered
<1>3. ASSUME NEW p \in Processes
      PROVE  Uptime!OwnsItsRow(p)'
  <2>1. Uptime!OwnsItsRow(p)
    BY DEF UptimeInv
  <2> QED BY <2>1 DEF Uptime!OwnsItsRow
<1>4. ASSUME NEW p \in Processes
      PROVE  Uptime!UpdatesAreOfItsLife(p)'
  <2>1. Uptime!UpdatesAreOfItsLife(p) /\ v3[p].updates \subseteq Nat
    BY DEF UptimeInv, Uptime!TypeOK, Uptime!Process, Uptime!Times
  <2>2. \A t \in v3'[p].updates : t \in v3[p].updates \/ t = v1
    OBVIOUS
  <2>3. \A t \in v3'[p].updates : t <= v1'
    BY <1>0, <2>1, <2>2 DEF Uptime!UpdatesAreOfItsLife
  <2>4. ASSUME NEW r \in v2, r.id = v3[p].lastInsertedId
        PROVE  r.from < v1' /\ \A t \in v3'[p].updates : r.from < t
    <3>1. r.from \in Nat
      BY <1>0 DEF Uptime!Row, Uptime!Times
    <3>2. r.from < v1 /\ \A t \in v3[p].updates : r.from < t
      BY <2>1, <2>4 DEF Uptime!UpdatesAreOfItsLife
    <3> QED BY <1>0, <2>2, <3>1, <3>2
  <2> QED BY <2>3, <2>4 DEF Uptime!UpdatesAreOfItsLife
<1>5. Uptime!PeriodIsOfItsProcess'
  <2> SUFFICES ASSUME NEW r \in v2, r.to # Uptime!Infinity
               PROVE  r.from < r.to /\ r.to <= v4[r.id] /\ r.to <= v1'
    BY DEF Uptime!PeriodIsOfItsProcess, Uptime!Infinity
  <2>1. r.from < r.to /\ r.to <= v4[r.id] /\ r.to <= v1
    BY DEF UptimeInv, Uptime!PeriodIsOfItsProcess
  <2>2. r.to \in Nat
    BY <1>0 DEF Uptime!Row, Uptime!Infinity
  <2> QED BY <1>0, <2>1, <2>2
<1> QED BY <1>1, <1>2, <1>3, <1>4, <1>5 DEF UptimeInv

(* A process that is saved gets the next number. *)
LEMMA UptimeSaved ==
  ASSUME UptimeInv, NEW p \in Processes, Uptime!Saved(p)
  PROVE  UptimeInv'
<1> DEFINE id == Cardinality(v2) + 1
           row == [id |-> id, from |-> v3[p].start, to |-> Uptime!Infinity]
<1>0. /\ v1 \in Nat /\ v1 <= MaxTime /\ MaxTime \in Nat /\ MaxRuns \in Nat
      /\ v2 \subseteq Uptime!Row /\ v3 \in [Processes -> Uptime!Process]
      /\ v4 \in [Uptime!Ids -> 0 .. Uptime!Infinity]
      /\ IsFiniteSet(v2) /\ Cardinality(v2) \in Nat /\ Cardinality(v2) <= MaxRuns
      /\ \A r \in v2 : r.id \in Nat /\ r.id <= Cardinality(v2)
  BY BoundsAreNumbers, UptimeCounts, FS_CardinalityType
  DEF UptimeInv, Uptime!TypeOK, Uptime!Times, Uptime!RowsAreNumbered, Uptime!Row, Uptime!Ids
<1>1. /\ v3[p].state = "starting" /\ v3[p].start < v1 /\ Cardinality(v2) < MaxRuns
      /\ v2' = v2 \cup {row}
      /\ v3' = [v3 EXCEPT ![p] = [@ EXCEPT !.state = "running", !.lastInsertedId = id]]
      /\ UNCHANGED <<v1, v4>>
  BY <1>0, UptimeCounts DEF Uptime!Saved, Uptime!Process, Uptime!Times
<1>2. id \in Uptime!Ids /\ id \in Nat /\ v3[p].start \in Uptime!Times /\ v3[p].start \in Nat
  BY <1>0, <1>1 DEF Uptime!Ids, Uptime!Process, Uptime!Times
<1>3. row \in Uptime!Row /\ row.id = id /\ row.from = v3[p].start /\ row.to = Uptime!Infinity
  BY <1>0, <1>2 DEF Uptime!Row, Uptime!Infinity
<1>4. row \notin v2 /\ \A r \in v2 : r.id # id
  BY <1>0, <1>3
<1>5. IsFiniteSet(v2') /\ Cardinality(v2') = id
  BY <1>0, <1>1, <1>4, FS_AddElement
<1> HIDE DEF id, row
<1>6. /\ v3'[p].lastInsertedId = id /\ v3'[p].state = "running"
      /\ v3'[p].start = v3[p].start /\ v3'[p].updates = v3[p].updates
      /\ v3' \in [Processes -> Uptime!Process]
      /\ \A o \in Processes \ {p} : v3'[o] = v3[o]
  BY <1>0, <1>1, <1>2 DEF Uptime!Process
<1>7. Uptime!TypeOK'
  BY <1>1, <1>3, <1>6 DEF UptimeInv, Uptime!TypeOK
<1>8. v4[id] = Uptime!Infinity
  <2>1. id > Cardinality(v2)
    BY <1>0 DEF id
  <2> QED BY <1>2, <2>1, UptimeCounts DEF UptimeInv, Uptime!RowsAreNumbered
<1>9. Uptime!RowsAreNumbered'
  <2>1. \A r \in v2' : r.id <= Cardinality(v2')
    BY <1>0, <1>1, <1>2, <1>3, <1>5 DEF id
  <2>2. \A r, s \in v2' : r.id = s.id => r = s
    BY <1>1, <1>3, <1>4 DEF UptimeInv, Uptime!RowsAreNumbered
  <2>3. \A i \in Uptime!Ids : i > Cardinality(v2') => v4'[i] = Uptime!Infinity
    <3>1. \A i \in Uptime!Ids : i > Cardinality(v2) => v4[i] = Uptime!Infinity
      BY UptimeCounts DEF UptimeInv, Uptime!RowsAreNumbered
    <3>2. \A i \in Uptime!Ids : i \in Nat
      BY <1>0 DEF Uptime!Ids
    <3> QED BY <1>0, <1>1, <1>5, <3>1, <3>2 DEF id
  <2>4. Cardinality(v2') <= MaxRuns
    BY <1>0, <1>1, <1>5 DEF id
  <2> QED BY <1>5, <2>1, <2>2, <2>3, <2>4, UptimeCounts DEF Uptime!RowsAreNumbered, Uptime!Infinity
<1>10. ASSUME NEW o \in Processes
       PROVE  Uptime!OwnsItsRow(o)'
  <2>1. \A q \in Processes : v3[q].state \in {"running", "stopping"} =>
          /\ v3[q].lastInsertedId \in 1 .. Cardinality(v2)
          /\ v4[v3[q].lastInsertedId] = Uptime!Infinity
          /\ \A x \in Processes \ {q} : v3[x].lastInsertedId # v3[q].lastInsertedId
    BY UptimeCounts DEF UptimeInv, Uptime!OwnsItsRow
  <2>2. \A q \in Processes : v3[q].state \notin {"running", "stopping"} =>
          v3[q].lastInsertedId = 0 /\ v3[q].updates = {}
    BY DEF UptimeInv, Uptime!OwnsItsRow
  <2>3. \A q \in Processes : v3[q].lastInsertedId \in Nat /\ v3[q].lastInsertedId <= Cardinality(v2)
    BY <1>0, <2>1, <2>2
  <2>4. id \in 1 .. Cardinality(v2') /\ 1 .. Cardinality(v2) \subseteq 1 .. Cardinality(v2')
    BY <1>0, <1>5 DEF id
  <2>5. \A q \in Processes : v3[q].lastInsertedId # id
    BY <1>0, <2>3 DEF id
  <2>6. CASE o = p
    BY <1>1, <1>6, <1>8, <2>4, <2>5, <2>6, UptimeCounts DEF Uptime!OwnsItsRow, Uptime!Infinity
  <2>7. CASE o # p
    <3>1. v3'[o] = v3[o]
      BY <1>6, <2>7
    <3>2. \A x \in Processes \ {o} : v3'[x].lastInsertedId = v3[x].lastInsertedId
                                       \/ v3'[x].lastInsertedId = id
      BY <1>6
    <3>3. CASE v3[o].state \in {"running", "stopping"}
      <4>1. v3[o].lastInsertedId \in 1 .. Cardinality(v2') /\ v3[o].lastInsertedId # id
        BY <2>1, <2>4, <2>5, <3>3
      <4>2. v4'[v3[o].lastInsertedId] = Uptime!Infinity
        BY <1>1, <2>1, <3>3
      <4>3. \A x \in Processes \ {o} : v3'[x].lastInsertedId # v3[o].lastInsertedId
        BY <2>1, <3>2, <3>3, <4>1
      <4> QED BY <3>1, <3>3, <4>1, <4>2, <4>3, UptimeCounts DEF Uptime!OwnsItsRow
    <3>4. CASE v3[o].state \notin {"running", "stopping"}
      BY <2>2, <3>1, <3>4 DEF Uptime!OwnsItsRow
    <3> QED BY <3>3, <3>4
  <2> QED BY <2>6, <2>7
<1>11. ASSUME NEW o \in Processes
       PROVE  Uptime!UpdatesAreOfItsLife(o)'
  <2>1. Uptime!UpdatesAreOfItsLife(o)
    BY DEF UptimeInv
  <2>2. CASE o = p
    <3>1. v3[p].updates = {}
      BY <1>1 DEF UptimeInv, Uptime!OwnsItsRow
    <3>2. \A r \in v2' : r.id = id => r = row
      BY <1>1, <1>4
    <3> QED BY <1>1, <1>3, <1>6, <2>1, <2>2, <3>1, <3>2 DEF Uptime!UpdatesAreOfItsLife
  <2>3. CASE o # p
    <3>1. v3'[o] = v3[o]
      BY <1>6, <2>3
    <3>2. v3[o].lastInsertedId # id
      <4>1. v3[o].lastInsertedId = 0 \/ v3[o].lastInsertedId \in 1 .. Cardinality(v2)
        BY UptimeCounts DEF UptimeInv, Uptime!OwnsItsRow
      <4> QED BY <1>0, <4>1 DEF id
    <3> QED BY <1>1, <1>3, <2>1, <3>1, <3>2 DEF Uptime!UpdatesAreOfItsLife
  <2> QED BY <2>2, <2>3
<1>12. Uptime!PeriodIsOfItsProcess'
  BY <1>1, <1>3 DEF UptimeInv, Uptime!PeriodIsOfItsProcess, Uptime!Infinity
<1> QED BY <1>7, <1>9, <1>10, <1>11, <1>12 DEF UptimeInv

(* An update moves the end of the row of its process, which is alive, to a *)
(* time the process has seen.                                              *)
LEMMA UptimeUpdate ==
  ASSUME UptimeInv, NEW p \in Processes, Uptime!Update(p)
  PROVE  UptimeInv'
<1> DEFINE own == v3[p].lastInsertedId
<1>1. PICK t \in v3[p].updates :
        /\ v2' = {IF Uptime!Extended(own, r) THEN [r EXCEPT !.to = t] ELSE r : r \in v2}
        /\ v3' = [v3 EXCEPT ![p] = [v3[p] EXCEPT !.updates = v3[p].updates \ {t}]]
        /\ UNCHANGED <<v1, v4>>
  BY DEF Uptime!Update
<1> DEFINE Moved(r) == IF r.id = own THEN [r EXCEPT !.to = t] ELSE r
<1>2. v2' = {Moved(r) : r \in v2}
  BY <1>1 DEF Uptime!Extended
<1>0. /\ v1 \in Nat /\ v1 <= MaxTime /\ MaxTime \in Nat
      /\ v2 \subseteq Uptime!Row /\ v3 \in [Processes -> Uptime!Process]
      /\ IsFiniteSet(v2) /\ Cardinality(v2) \in Nat
      /\ \A r, s \in v2 : r.id = s.id => r = s
      /\ t \in Nat /\ t <= v1 /\ t \in Uptime!Times /\ t # Uptime!Infinity
  <2>1. t <= v1 /\ t \in Uptime!Times
    BY <1>1 DEF UptimeInv, Uptime!UpdatesAreOfItsLife, Uptime!TypeOK, Uptime!Process
  <2> QED BY <2>1, BoundsAreNumbers, UptimeCounts, FS_CardinalityType
      DEF UptimeInv, Uptime!TypeOK, Uptime!Times, Uptime!RowsAreNumbered, Uptime!Infinity
<1>3. \A r \in v2 : Moved(r) \in Uptime!Row /\ Moved(r).id = r.id /\ Moved(r).from = r.from
  BY <1>0 DEF Uptime!Row, Uptime!Times, Uptime!Infinity
<1>4. IsFiniteSet(v2') /\ Cardinality(v2') = Cardinality(v2)
  <2> DEFINE move == [r \in v2 |-> Moved(r)]
  <2> HIDE DEF Moved
  <2>1. move \in Surjection(v2, v2')
    BY <1>2 DEF Surjection
  <2>2. move \in Injection(v2, v2')
    BY <1>0, <1>2, <1>3 DEF Injection, IsInjective
  <2> QED BY <1>0, <2>1, <2>2, FS_Surjection
<1>5. \A r \in v2' : \E s \in v2 : r.id = s.id /\ r.from = s.from /\ (r = s \/ (s.id = own /\ r.to = t))
  <2>1. \A s \in v2 : Moved(s) = s \/ (s.id = own /\ Moved(s).to = t)
    BY <1>0 DEF Uptime!Row
  <2> HIDE DEF Moved
  <2> QED BY <1>2, <1>3, <2>1
<1> HIDE DEF Moved
<1>6. /\ v3' \in [Processes -> Uptime!Process]
      /\ \A o \in Processes :
           /\ v3'[o].lastInsertedId = v3[o].lastInsertedId /\ v3'[o].state = v3[o].state
           /\ v3'[o].start = v3[o].start /\ v3'[o].updates \subseteq v3[o].updates
  BY <1>0, <1>1 DEF Uptime!Process
<1>7. Uptime!TypeOK'
  BY <1>0, <1>1, <1>2, <1>3, <1>6 DEF UptimeInv, Uptime!TypeOK
<1>8. Uptime!RowsAreNumbered'
  <2>1. \A r, s \in v2' : r.id = s.id => r = s
    BY <1>0, <1>2, <1>3
  <2>2. /\ \A r \in v2 : r.id <= Cardinality(v2)
        /\ Cardinality(v2) <= MaxRuns
        /\ \A id \in Uptime!Ids : id > Cardinality(v2) => v4[id] = Uptime!Infinity
    BY UptimeCounts DEF UptimeInv, Uptime!RowsAreNumbered
  <2> QED BY <1>1, <1>2, <1>3, <1>4, <2>1, <2>2, UptimeCounts
      DEF Uptime!RowsAreNumbered, Uptime!Infinity
<1>9. ASSUME NEW o \in Processes
      PROVE  Uptime!OwnsItsRow(o)'
  <2>1. Uptime!OwnsItsRow(o)
    BY DEF UptimeInv
  <2> QED BY <1>1, <1>4, <1>6, <2>1, UptimeCounts DEF Uptime!OwnsItsRow, Uptime!Infinity
<1>10. ASSUME NEW o \in Processes
       PROVE  Uptime!UpdatesAreOfItsLife(o)'
  <2>1. Uptime!UpdatesAreOfItsLife(o)
    BY DEF UptimeInv
  <2> QED BY <1>1, <1>5, <1>6, <2>1 DEF Uptime!UpdatesAreOfItsLife
<1>11. Uptime!PeriodIsOfItsProcess'
  <2> SUFFICES ASSUME NEW r \in v2', r.to # Uptime!Infinity
               PROVE  r.from < r.to /\ r.to <= v4[r.id] /\ r.to <= v1
    BY <1>1 DEF Uptime!PeriodIsOfItsProcess, Uptime!Infinity
  <2>1. PICK s \in v2 : r.id = s.id /\ r.from = s.from /\ (r = s \/ (s.id = own /\ r.to = t))
    BY <1>5
  <2>2. CASE r = s
    BY <2>2 DEF UptimeInv, Uptime!PeriodIsOfItsProcess
  <2>3. CASE s.id = own /\ r.to = t
    <3>1. s.from < t
      BY <1>1, <2>3 DEF UptimeInv, Uptime!UpdatesAreOfItsLife
    <3>2. v4[own] = Uptime!Infinity
      <4>1. v3[p].updates # {}
        BY <1>1
      <4> QED BY <4>1 DEF UptimeInv, Uptime!OwnsItsRow
    <3>3. t <= Uptime!Infinity
      BY <1>0 DEF Uptime!Infinity
    <3> QED BY <1>0, <2>1, <2>3, <3>1, <3>2, <3>3
  <2> QED BY <2>1, <2>2, <2>3
<1> QED BY <1>7, <1>8, <1>9, <1>10, <1>11 DEF UptimeInv

(* What has been written of a process that ends is not after its end. *)
LEMMA UptimeEnd ==
  ASSUME UptimeInv, NEW p \in Processes, Uptime!End(p)
  PROVE  UptimeInv'
<1> DEFINE own == v3[p].lastInsertedId
<1>0. /\ v1 \in Nat /\ v1 <= MaxTime /\ MaxTime \in Nat /\ v1 \in Uptime!Times
      /\ v2 \subseteq Uptime!Row /\ v3 \in [Processes -> Uptime!Process]
      /\ v4 \in [Uptime!Ids -> 0 .. Uptime!Infinity]
  BY BoundsAreNumbers DEF UptimeInv, Uptime!TypeOK, Uptime!Times
<1>1. /\ v3' = [v3 EXCEPT ![p] = Uptime!Stopped]
      /\ v4' = [id \in Uptime!Ids |-> IF own = id THEN v1 ELSE v4[id]]
      /\ UNCHANGED <<v1, v2>>
  BY DEF Uptime!End
<1>2. Uptime!Stopped \in Uptime!Process
  BY <1>0 DEF Uptime!Stopped, Uptime!Process, Uptime!Times
<1>3. Uptime!TypeOK'
  <2>1. v1 \in 0 .. Uptime!Infinity
    BY <1>0 DEF Uptime!Infinity
  <2> QED BY <1>0, <1>1, <1>2, <2>1 DEF UptimeInv, Uptime!TypeOK, Uptime!Infinity
<1>4. own = 0 \/ own \in 1 .. Cardinality(v2)
  BY UptimeCounts DEF UptimeInv, Uptime!OwnsItsRow
<1>5. Uptime!RowsAreNumbered'
  <2>1. Uptime!RowsAreNumbered /\ IsFiniteSet(v2)
    BY UptimeCounts DEF UptimeInv, Uptime!RowsAreNumbered
  <2>2. ASSUME NEW id \in Uptime!Ids, id > Cardinality(v2)
        PROVE  v4'[id] = Uptime!Infinity
    <3>1. id # own
      <4>1. Cardinality(v2) \in Nat /\ id \in Nat /\ id # 0
        BY <2>1, FS_CardinalityType, BoundsAreNumbers DEF Uptime!Ids
      <4> QED BY <1>4, <2>2, <4>1
    <3> QED BY <1>1, <2>1, <2>2, <3>1, UptimeCounts DEF Uptime!RowsAreNumbered
  <2> QED BY <1>1, <2>1, <2>2, UptimeCounts DEF Uptime!RowsAreNumbered, Uptime!Infinity
<1>6. ASSUME NEW o \in Processes
      PROVE  Uptime!OwnsItsRow(o)'
  <2>1. CASE o = p
    BY <1>0, <1>1, <2>1 DEF Uptime!OwnsItsRow, Uptime!Stopped
  <2>2. CASE o # p /\ v3[o].state \in {"running", "stopping"}
    <3>1. /\ v3[o].lastInsertedId \in 1 .. Cardinality(v2)
          /\ v4[v3[o].lastInsertedId] = Uptime!Infinity
          /\ \A x \in Processes \ {o} : v3[x].lastInsertedId # v3[o].lastInsertedId
      BY <2>2, UptimeCounts DEF UptimeInv, Uptime!OwnsItsRow
    <3>2. v3'[o] = v3[o]
      BY <1>0, <1>1, <2>2
    <3>3. v3[o].lastInsertedId # 0 /\ v3[o].lastInsertedId \in Uptime!Ids
      <4>1. v3[o].lastInsertedId \in {0} \cup Uptime!Ids
        BY <1>0 DEF Uptime!Process
      <4>2. IsFiniteSet(v2)
        BY UptimeCounts DEF UptimeInv, Uptime!RowsAreNumbered
      <4>3. Cardinality(v2) \in Nat
        BY <4>2, FS_CardinalityType
      <4> QED BY <3>1, <4>1, <4>3
    <3>4. v4'[v3[o].lastInsertedId] = Uptime!Infinity
      BY <1>1, <2>2, <3>1, <3>3
    <3>5. \A x \in Processes \ {o} : v3'[x].lastInsertedId # v3[o].lastInsertedId
      BY <1>0, <1>1, <3>1, <3>3 DEF Uptime!Stopped
    <3> QED BY <1>1, <2>2, <3>1, <3>2, <3>4, <3>5, UptimeCounts
            DEF Uptime!OwnsItsRow, Uptime!Infinity
  <2>3. CASE o # p /\ v3[o].state \notin {"running", "stopping"}
    <3>1. v3'[o] = v3[o]
      BY <1>0, <1>1, <2>3
    <3> QED BY <2>3, <3>1 DEF UptimeInv, Uptime!OwnsItsRow
  <2> QED BY <2>1, <2>2, <2>3
<1>7. ASSUME NEW o \in Processes
      PROVE  Uptime!UpdatesAreOfItsLife(o)'
  <2>1. CASE o = p
    <3>1. v3'[o] = Uptime!Stopped
      BY <1>0, <1>1, <2>1
    <3>2. \A r \in v2 : r.id # 0
      BY <1>0, BoundsAreNumbers DEF Uptime!Row, Uptime!Ids
    <3> QED BY <1>0, <1>1, <3>1, <3>2 DEF Uptime!UpdatesAreOfItsLife, Uptime!Stopped
  <2>2. CASE o # p
    <3>1. v3'[o] = v3[o]
      BY <1>0, <1>1, <2>2
    <3> QED BY <1>1, <3>1 DEF UptimeInv, Uptime!UpdatesAreOfItsLife
  <2> QED BY <2>1, <2>2
<1>8. Uptime!PeriodIsOfItsProcess'
  <2> SUFFICES ASSUME NEW r \in v2, r.to # Uptime!Infinity
               PROVE  r.from < r.to /\ r.to <= v4'[r.id] /\ r.to <= v1
    BY <1>1 DEF Uptime!PeriodIsOfItsProcess, Uptime!Infinity
  <2>1. r.from < r.to /\ r.to <= v4[r.id] /\ r.to <= v1
    BY DEF UptimeInv, Uptime!PeriodIsOfItsProcess
  <2>2. r.id \in Uptime!Ids
    BY <1>0 DEF Uptime!Row
  <2> QED BY <1>1, <2>1, <2>2
<1> QED BY <1>3, <1>5, <1>6, <1>7, <1>8 DEF UptimeInv

LEMMA UptimeInvStep == UptimeInv /\ Uptime!Next => UptimeInv'
<1> SUFFICES ASSUME UptimeInv, Uptime!Next
             PROVE  UptimeInv'
  OBVIOUS
<1>0. /\ v1 \in Nat /\ v1 <= MaxTime /\ MaxTime \in Nat /\ v1 \in Uptime!Times
      /\ v3 \in [Processes -> Uptime!Process]
      /\ \A p \in Processes : v3[p].start <= v1
  BY BoundsAreNumbers DEF UptimeInv, Uptime!TypeOK, Uptime!Times, Uptime!UpdatesAreOfItsLife
<1>1. CASE Uptime!Tick
  <2>1. v1' = v1 + 1 /\ v1' <= MaxTime /\ UNCHANGED <<v2, v3, v4>>
    BY <1>0, <1>1 DEF Uptime!Tick
  <2>2. \A p \in Processes : v3[p].start \in Nat
    BY <1>0 DEF Uptime!Process, Uptime!Times
  <2> QED BY <1>0, <2>1, <2>2, UptimeRowsKept
<1>2. ASSUME NEW p \in Processes, NEW next \in Uptime!Process,
             v3' = [v3 EXCEPT ![p] = next], UNCHANGED <<v1, v2, v4>>,
             next.lastInsertedId = v3[p].lastInsertedId, next.start <= v1,
             next.state \in {"running", "stopping"} <=> v3[p].state \in {"running", "stopping"},
             next.updates \subseteq v3[p].updates
               \/ (v3[p].state = "running" /\ next.updates = v3[p].updates \cup {v1})
      PROVE  UptimeInv'
  <2>1. v3' \in [Processes -> Uptime!Process]
    BY <1>0, <1>2
  <2>2. \A o \in Processes :
           /\ v3'[o].lastInsertedId = v3[o].lastInsertedId
           /\ v3'[o].state \in {"running", "stopping"} <=> v3[o].state \in {"running", "stopping"}
           /\ v3'[o].start <= v1'
           /\ v3'[o].updates \subseteq v3[o].updates \cup {v1}
           /\ v3[o].state \notin {"running", "stopping"} => v3'[o].updates \subseteq v3[o].updates
    BY <1>0, <1>2
  <2> QED BY <1>0, <1>2, <2>1, <2>2, UptimeRowsKept
<1>3. ASSUME NEW p \in Processes, Uptime!OnModuleInit(p)
      PROVE  UptimeInv'
  <2> DEFINE next == [Uptime!Stopped EXCEPT !.state = "starting", !.start = v1]
  <2>1. v3[p].lastInsertedId = 0 /\ v3[p].state = "stopped"
    BY <1>3 DEF UptimeInv, Uptime!OwnsItsRow, Uptime!OnModuleInit
  <2>2. v3' = [v3 EXCEPT ![p] = next] /\ UNCHANGED <<v1, v2, v4>>
    BY <1>3 DEF Uptime!OnModuleInit
  <2>3. /\ next \in Uptime!Process /\ next.lastInsertedId = 0 /\ next.start = v1
        /\ next.state = "starting" /\ next.updates = {}
    BY <1>0 DEF Uptime!Stopped, Uptime!Process
  <2> HIDE DEF next
  <2>4. next.state \in {"running", "stopping"} <=> v3[p].state \in {"running", "stopping"}
    BY <2>1, <2>3
  <2>5. next.updates \subseteq v3[p].updates /\ next.start <= v1
    BY <1>0, <2>3
  <2> QED BY <1>2, <2>1, <2>2, <2>3, <2>4, <2>5
<1>4. ASSUME NEW p \in Processes, Uptime!UpdateUptimeStatistic(p)
      PROVE  UptimeInv'
  <2> DEFINE next == [v3[p] EXCEPT !.updates = v3[p].updates \cup {v1}]
  <2>1. v3[p].state = "running" /\ v3' = [v3 EXCEPT ![p] = next] /\ UNCHANGED <<v1, v2, v4>>
    BY <1>4 DEF Uptime!UpdateUptimeStatistic
  <2>2. /\ next \in Uptime!Process /\ next.lastInsertedId = v3[p].lastInsertedId
        /\ next.start = v3[p].start /\ next.state = v3[p].state
        /\ next.updates = v3[p].updates \cup {v1}
    BY <1>0 DEF Uptime!Process
  <2> HIDE DEF next
  <2> QED BY <1>0, <1>2, <2>1, <2>2
<1>5. ASSUME NEW p \in Processes, Uptime!UpdateFails(p)
      PROVE  UptimeInv'
  <2>1. PICK t \in v3[p].updates :
          /\ v3' = [v3 EXCEPT ![p] = [v3[p] EXCEPT !.updates = v3[p].updates \ {t}]]
          /\ UNCHANGED <<v1, v2, v4>>
    BY <1>5 DEF Uptime!UpdateFails
  <2> DEFINE next == [v3[p] EXCEPT !.updates = v3[p].updates \ {t}]
  <2>2. /\ next \in Uptime!Process /\ next.lastInsertedId = v3[p].lastInsertedId
        /\ next.start = v3[p].start /\ next.state = v3[p].state
        /\ next.updates \subseteq v3[p].updates
    BY <1>0 DEF Uptime!Process
  <2>3. v3' = [v3 EXCEPT ![p] = next]
    BY <2>1
  <2> HIDE DEF next
  <2> QED BY <1>0, <1>2, <2>1, <2>2, <2>3
<1>6. ASSUME NEW p \in Processes, Uptime!OnModuleDestroy(p)
      PROVE  UptimeInv'
  <2> DEFINE next == [v3[p] EXCEPT !.state = "stopping", !.updates = v3[p].updates \cup {v1}]
  <2>1. v3[p].state = "running" /\ v3' = [v3 EXCEPT ![p] = next] /\ UNCHANGED <<v1, v2, v4>>
    BY <1>0, <1>6 DEF Uptime!OnModuleDestroy, Uptime!Process
  <2>2. /\ next \in Uptime!Process /\ next.lastInsertedId = v3[p].lastInsertedId
        /\ next.start = v3[p].start /\ next.state = "stopping"
        /\ next.updates = v3[p].updates \cup {v1}
    BY <1>0 DEF Uptime!Process
  <2> HIDE DEF next
  <2> QED BY <1>0, <1>2, <2>1, <2>2
<1>7. ASSUME NEW p \in Processes, Uptime!Crash(p) \/ Uptime!Exit(p)
      PROVE  UptimeInv'
  BY <1>7, UptimeEnd DEF Uptime!Crash, Uptime!Exit
<1> QED BY <1>1, <1>3, <1>4, <1>5, <1>6, <1>7, UptimeSaved, UptimeUpdate DEF Uptime!Next

LEMMA UptimeIsKept ==
  (part = "uptime" => UptimeInv) /\ [Next]_<<part, v1, v2, v3, v4, v5, v6, v7, v8, v9, v10>>
    => (part = "uptime" => UptimeInv)'
<1> SUFFICES ASSUME part = "uptime" => UptimeInv,
                    [Next]_<<part, v1, v2, v3, v4, v5, v6, v7, v8, v9, v10>>, part' = "uptime"
             PROVE  UptimeInv'
  OBVIOUS
<1>1. part = "uptime" /\ (Uptime!Next \/ UNCHANGED <<v1, v2, v3, v4>>)
  BY DEF Next, LogsStep, AuditStep, ChartsStep, CardsStep, OutboundStep, UptimeStep, SettingsStep,
         TokensStep, SocketsStep
<1>2. CASE UNCHANGED <<v1, v2, v3, v4>>
  BY <1>1, <1>2 DEF UptimeInv, Uptime!TypeOK, Uptime!RowsAreNumbered, Uptime!OwnsItsRow,
     Uptime!UpdatesAreOfItsLife, Uptime!PeriodIsOfItsProcess, Uptime!Infinity
<1> QED BY <1>1, <1>2, UptimeInvStep

LEMMA UptimeStarts == Init => (part = "uptime" => UptimeInv)
BY UptimeInvInit DEF Init

(* A row of uptime that has an end tells of a time at which its process    *)
(* ran, whatever crashes, restarts, heartbeats that overtake each other    *)
(* and other processes of the service do to the table.                     *)
(* (ApiStatisticService)                                                   *)
THEOREM PeriodsAreOfTheirProcess == Spec => []UptimeIsOfItsProcess
<1>1. (part = "uptime" => UptimeInv) => UptimeIsOfItsProcess
  BY DEF UptimeInv, UptimeIsOfItsProcess
<1> QED BY <1>1, UptimeStarts, UptimeIsKept, PTL DEF Spec

-----------------------------------------------------------------------------
(* Notifications: stored is v1, page v2, saves v3, count v4, agrees v5 and *)
(* sender v6                                                               *)

SettingsInv ==
  /\ Settings!TypeOK
  /\ Settings!AllowedSoFar
  /\ Settings!SwitchesFollow

LEMMA SettingsInvInit == Settings!Init => SettingsInv
<1> SUFFICES ASSUME Settings!Init
             PROVE  SettingsInv
  OBVIOUS
<1> USE DEF Settings!Keys, Settings!Switches, Settings!Credentials, Settings!Values
<1>1. v1 \in Settings!Stored
  BY DEF Settings!Init, Settings!Stored, Settings!AnyValue
<1>2. v2 \in [loaded : BOOLEAN, shown : Settings!Shown]
  <2>1. [k \in Settings!Keys |-> IF k \in Settings!Switches THEN "no" ELSE ""] \in Settings!Shown
    BY DEF Settings!Shown, Settings!AnyValue
  <2> QED BY <2>1 DEF Settings!Init
<1>3. v6.step = "idle" /\ v3 = {} /\ v5 = FALSE /\ v4 = 0
  BY DEF Settings!Init, Settings!Idle
<1>4. Settings!TypeOK
  <2>1. v4 \in 0 .. MaxSaves
    BY <1>3, BoundsAreNumbers
  <2>2. v6 \in [step : {"idle", "config", "type", "deliver", "delivered"},
                kind : {"typed", "plain", "test"}, token : {"", "old", "new"},
                chat : {"", "old", "new"}, since : SUBSET Settings!Stored]
    BY DEF Settings!Init, Settings!Idle
  <2> QED BY <1>1, <1>2, <1>3, <2>1, <2>2 DEF Settings!TypeOK
<1>5. Settings!AllowedSoFar /\ Settings!SwitchesFollow
  BY <1>3 DEF Settings!AllowedSoFar, Settings!SwitchesFollow
<1> QED BY <1>4, <1>5 DEF SettingsInv

(* What a save leaves in the table is well typed. *)
LEMMA SettingsStoredType ==
  ASSUME Settings!TypeOK, NEW patch,
         \A k \in DOMAIN patch : k \in Settings!Keys /\ patch[k] \in Settings!Values(k),
         Settings!UpdateSettings(patch)
  PROVE  v1' \in Settings!Stored
<1>1. ASSUME NEW k \in Settings!Keys
      PROVE  v1'[k] \in {"unset"} \cup Settings!Values(k)
  BY DEF Settings!UpdateSettings, Settings!SetSettings, Settings!TypeOK, Settings!Stored
<1>2. \A k \in Settings!Keys : {"unset"} \cup Settings!Values(k) \subseteq Settings!AnyValue
  BY DEF Settings!Values, Settings!AnyValue
<1>3. v1' \in [Settings!Keys -> Settings!AnyValue]
  BY <1>1, <1>2 DEF Settings!UpdateSettings
<1> QED BY <1>1, <1>3 DEF Settings!Stored

(* The message under way has seen what is stored now as well. *)
LEMMA SettingsWitness ==
  ASSUME SettingsInv, v1' \in Settings!Stored, Settings!Witness
  PROVE  /\ v6' \in [step : {"idle", "config", "type", "deliver", "delivered"},
                     kind : {"typed", "plain", "test"}, token : {"", "old", "new"},
                     chat : {"", "old", "new"}, since : SUBSET Settings!Stored]
         /\ Settings!AllowedSoFar'
<1>0. v6 \in [step : {"idle", "config", "type", "deliver", "delivered"},
              kind : {"typed", "plain", "test"}, token : {"", "old", "new"},
              chat : {"", "old", "new"}, since : SUBSET Settings!Stored]
  BY DEF SettingsInv, Settings!TypeOK
<1>1. CASE v6.step = "idle"
  BY <1>0, <1>1 DEF Settings!Witness, Settings!AllowedSoFar
<1>2. CASE v6.step # "idle"
  <2>1. v6' = [v6 EXCEPT !.since = v6.since \cup {v1'}]
    BY <1>2 DEF Settings!Witness
  <2>2. /\ v6' \in [step : {"idle", "config", "type", "deliver", "delivered"},
                    kind : {"typed", "plain", "test"}, token : {"", "old", "new"},
                    chat : {"", "old", "new"}, since : SUBSET Settings!Stored]
        /\ v6'.step = v6.step /\ v6'.kind = v6.kind /\ v6'.token = v6.token
        /\ v6'.chat = v6.chat /\ v6'.since = v6.since \cup {v1'}
    BY <1>0, <2>1
  <2>3. \A s : Settings!ConfigAllowed(s) => Settings!ConfigAllowed(s)'
    BY <2>2 DEF Settings!ConfigAllowed
  <2> QED BY <2>2, <2>3 DEF SettingsInv, Settings!AllowedSoFar, Settings!ConfigAllowed
<1> QED BY <1>1, <1>2

(* Changes are counted up to the bound. *)
LEMMA SettingsCount ==
  ASSUME SettingsInv, v4 < MaxSaves, v4' = v4 + 1
  PROVE  v4' \in 0 .. MaxSaves
<1>1. v4 \in 0 .. MaxSaves
  BY DEF SettingsInv, Settings!TypeOK
<1> QED BY <1>1, BoundsAreNumbers

(* What a new save does to the count, and to whether the page agrees. *)
LEMMA SettingsSave ==
  ASSUME SettingsInv, NEW patch, Settings!Save(patch),
         \A k \in DOMAIN patch : k \in Settings!Keys /\ patch[k] \in Settings!Values(k),
         v2' \in [loaded : BOOLEAN, shown : Settings!Shown],
         \A k \in Settings!Switches :
           IF k \in DOMAIN patch THEN v2'.shown[k] = patch[k] ELSE v2'.shown[k] = v2.shown[k],
         UNCHANGED <<v1, v6>>
  PROVE  SettingsInv'
<1> DEFINE new == [id |-> v4, patch |-> patch]
<1>1. v3' = v3 \cup {new} /\ v4' \in 0 .. MaxSaves /\ v5' = (v5 /\ v3 = {})
  <2>1. v4 < MaxSaves /\ v4' = v4 + 1 /\ v3' = v3 \cup {new} /\ v5' = (v5 /\ v3 = {})
    BY DEF Settings!Save
  <2> HIDE DEF new
  <2>2. v4' \in 0 .. MaxSaves
    BY <2>1, SettingsCount
  <2> QED BY <2>1, <2>2
<1>2. new.patch = patch
  OBVIOUS
<1> HIDE DEF new
<1>3. Settings!TypeOK'
  BY <1>1, <1>2 DEF SettingsInv, Settings!TypeOK
<1>4. Settings!AllowedSoFar'
  BY DEF SettingsInv, Settings!AllowedSoFar, Settings!ConfigAllowed
<1>5. Settings!SwitchesFollow'
  <2> SUFFICES ASSUME v5, v3 = {}
               PROVE  Settings!SwitchesFollow'
    BY <1>1 DEF Settings!SwitchesFollow
  <2>1. v3' = {new}
    BY <1>1
  <2>2. ASSUME NEW k \in Settings!Switches
        PROVE  IF k \in Settings!SetSettings(patch)
               THEN v2'.shown[k] = patch[k]
               ELSE v2'.shown[k] = "yes" <=> v1[k] = "yes"
    <3>1. v2.shown[k] = "yes" <=> v1[k] = "yes"
      BY DEF SettingsInv, Settings!SwitchesFollow
    <3>2. k \in DOMAIN patch => patch[k] # ""
      BY DEF Settings!Values, Settings!Switches
    <3> QED BY <3>1, <3>2 DEF Settings!SetSettings
  <2> QED BY <1>2, <2>1, <2>2 DEF Settings!SwitchesFollow, Settings!SetSettings
<1> QED BY <1>3, <1>4, <1>5 DEF SettingsInv

(* The page *)

LEMMA SettingsLoad ==
  ASSUME SettingsInv, Settings!Load
  PROVE  SettingsInv'
<1> USE DEF Settings!Keys, Settings!Switches, Settings!Credentials, Settings!Values
<1> DEFINE shown == [k \in Settings!Keys |-> IF k = "event" THEN Settings!GetEventSettings
                                             ELSE Settings!GetTelegramSettings[k]]
<1>1. v2' = [loaded |-> TRUE, shown |-> shown] /\ v5' = (v3 = {}) /\ UNCHANGED <<v1, v3, v4, v6>>
  BY DEF Settings!Load
<1>2. shown \in Settings!Shown
  <2>1. \A k \in Settings!Keys : shown[k] \in Settings!Values(k)
    BY DEF SettingsInv, Settings!TypeOK, Settings!Stored, Settings!GetEventSettings,
           Settings!GetTelegramSettings
  <2>2. shown \in [Settings!Keys -> Settings!AnyValue]
    BY <2>1 DEF Settings!AnyValue
  <2> HIDE DEF shown
  <2> QED BY <2>1, <2>2 DEF Settings!Shown
<1>3. \A k \in Settings!Switches : shown[k] = "yes" <=> v1[k] = "yes"
  BY DEF Settings!GetEventSettings, Settings!GetTelegramSettings
<1> HIDE DEF shown
<1>4. v2'.shown = shown /\ v2' \in [loaded : BOOLEAN, shown : Settings!Shown]
  BY <1>1, <1>2
<1>5. Settings!TypeOK'
  BY <1>1, <1>4 DEF SettingsInv, Settings!TypeOK
<1>6. Settings!AllowedSoFar'
  BY <1>1 DEF SettingsInv, Settings!AllowedSoFar, Settings!ConfigAllowed
<1>7. Settings!SwitchesFollow'
  BY <1>1, <1>3, <1>4 DEF Settings!SwitchesFollow
<1> QED BY <1>5, <1>6, <1>7 DEF SettingsInv

LEMMA SettingsToggle ==
  ASSUME SettingsInv, NEW k \in Settings!Switches, Settings!Toggle(k)
  PROVE  SettingsInv'
<1> DEFINE v == IF v2.shown[k] = "yes" THEN "no" ELSE "yes"
<1>1. /\ v2' = [v2 EXCEPT !.shown = [v2.shown EXCEPT ![k] = v]]
      /\ Settings!Save([x \in {k} |-> v]) /\ UNCHANGED <<v1, v6>>
  BY DEF Settings!Toggle, SettingsInv, Settings!TypeOK
<1>2. k \in Settings!Keys /\ v \in Settings!Values(k) /\ v \in Settings!AnyValue
  BY DEF Settings!Keys, Settings!Values, Settings!AnyValue
<1> HIDE DEF v
<1>3. /\ v2' \in [loaded : BOOLEAN, shown : Settings!Shown]
      /\ \A x \in Settings!Switches : v2'.shown[x] = IF x = k THEN v ELSE v2.shown[x]
  <2>1. v2.shown \in Settings!Shown
    BY DEF SettingsInv, Settings!TypeOK
  <2>2. [v2.shown EXCEPT ![k] = v] \in Settings!Shown
    BY <1>2, <2>1 DEF Settings!Shown
  <2>3. v2 \in [loaded : BOOLEAN, shown : Settings!Shown]
    BY DEF SettingsInv, Settings!TypeOK
  <2>4. v2'.shown = [v2.shown EXCEPT ![k] = v] /\ v2' \in [loaded : BOOLEAN, shown : Settings!Shown]
    BY <1>1, <2>2, <2>3
  <2>5. \A x \in Settings!Switches : x \in DOMAIN v2.shown
    BY <2>1 DEF Settings!Shown, Settings!Keys
  <2> QED BY <2>4, <2>5
<1> QED BY <1>1, <1>2, <1>3, SettingsSave

LEMMA SettingsSaveCredential ==
  ASSUME SettingsInv, NEW k \in Settings!Credentials, Settings!SaveCredential(k)
  PROVE  SettingsInv'
<1>1. PICK v \in Settings!Values(k) : \E patch \in Settings!Row(k, v) :
        /\ v2' = [v2 EXCEPT !.shown = [v2.shown EXCEPT ![k] = v]]
        /\ Settings!Save(patch) /\ UNCHANGED <<v1, v6>>
  BY DEF Settings!SaveCredential, SettingsInv, Settings!TypeOK
<1>7. PICK patch \in Settings!Row(k, v) :
        /\ v2' = [v2 EXCEPT !.shown = [v2.shown EXCEPT ![k] = v]]
        /\ Settings!Save(patch) /\ UNCHANGED <<v1, v6>>
  BY <1>1
<1>2. /\ k \in Settings!Keys /\ k \notin Settings!Switches /\ v \in Settings!AnyValue
  BY DEF Settings!Keys, Settings!Values, Settings!AnyValue, Settings!Credentials, Settings!Switches
<1>3. v2.shown \in Settings!Shown /\ v2 \in [loaded : BOOLEAN, shown : Settings!Shown]
  BY DEF SettingsInv, Settings!TypeOK
<1>4. [v2.shown EXCEPT ![k] = v] \in Settings!Shown
  BY <1>2, <1>3 DEF Settings!Shown
<1>5. /\ v2' \in [loaded : BOOLEAN, shown : Settings!Shown]
      /\ \A x \in Settings!Switches : v2'.shown[x] = v2.shown[x]
  <2>1. v2'.shown = [v2.shown EXCEPT ![k] = v] /\ v2' \in [loaded : BOOLEAN, shown : Settings!Shown]
    BY <1>3, <1>4, <1>7
  <2>2. \A x \in Settings!Switches : x \in DOMAIN v2.shown /\ x # k
    BY <1>2, <1>3 DEF Settings!Shown, Settings!Keys
  <2> QED BY <2>1, <2>2
<1>6. \A x \in DOMAIN patch : /\ x \in Settings!Keys /\ patch[x] \in Settings!Values(x)
                              /\ x # k => patch[x] = v2.shown[x]
  <2>1. CASE patch = [x \in {k} |-> v]
    BY <1>2, <2>1
  <2>2. CASE patch = [x \in Settings!Keys \ {"event"} |-> IF x = k THEN v ELSE v2.shown[x]]
    BY <1>2, <1>3, <2>2 DEF Settings!Shown
  <2> QED BY <2>1, <2>2 DEF Settings!Row
<1> QED BY <1>2, <1>5, <1>6, <1>7, SettingsSave

(* The server *)

LEMMA SettingsServed ==
  ASSUME SettingsInv, Settings!Served
  PROVE  SettingsInv'
<1>1. PICK s \in v3 : Settings!UpdateSettings(s.patch) /\ v3' = v3 \ {s}
  BY DEF Settings!Served
<1>2. Settings!Witness /\ UNCHANGED <<v2, v4, v5>>
  BY DEF Settings!Served
<1>3. v1' \in Settings!Stored
  BY <1>1, SettingsStoredType DEF SettingsInv, Settings!TypeOK
<1>4. Settings!TypeOK' /\ Settings!AllowedSoFar'
  BY <1>1, <1>2, <1>3, SettingsWitness DEF SettingsInv, Settings!TypeOK
<1>5. Settings!SwitchesFollow'
  <2> SUFFICES ASSUME v5
               PROVE  Settings!SwitchesFollow'
    BY <1>2 DEF Settings!SwitchesFollow
  <2>1. v3 = {s} /\ v3' = {}
    BY <1>1 DEF SettingsInv, Settings!SwitchesFollow
  <2>2. ASSUME NEW k \in Settings!Switches
        PROVE  v2.shown[k] = "yes" <=> v1'[k] = "yes"
    <3>1. IF k \in Settings!SetSettings(s.patch)
          THEN v2.shown[k] = s.patch[k]
          ELSE v2.shown[k] = "yes" <=> v1[k] = "yes"
      BY <2>1 DEF SettingsInv, Settings!SwitchesFollow
    <3>2. k \in Settings!Keys
      BY DEF Settings!Keys
    <3> QED BY <1>1, <3>1, <3>2 DEF Settings!UpdateSettings
  <2> QED BY <1>2, <2>1, <2>2 DEF Settings!SwitchesFollow
<1> QED BY <1>4, <1>5 DEF SettingsInv

LEMMA SettingsOthers ==
  ASSUME SettingsInv, Settings!SaveFails \/ Settings!OthersSave
  PROVE  SettingsInv'
<1>1. CASE Settings!SaveFails
  <2>1. v3' \subseteq v3 /\ v5' = FALSE /\ UNCHANGED <<v1, v2, v4, v6>>
    BY <1>1 DEF Settings!SaveFails
  <2> QED BY <2>1 DEF SettingsInv, Settings!TypeOK, Settings!AllowedSoFar, Settings!ConfigAllowed,
          Settings!SwitchesFollow
<1>2. CASE Settings!OthersSave
  <2>1. PICK k \in Settings!Keys :
          \E v \in Settings!Values(k) : Settings!UpdateSettings([x \in {k} |-> v])
    BY <1>2 DEF Settings!OthersSave
  <2>2. v4' \in 0 .. MaxSaves /\ v5' = FALSE /\ Settings!Witness /\ UNCHANGED <<v2, v3>>
    <3>1. v4 < MaxSaves /\ v4' = v4 + 1 /\ v5' = FALSE /\ Settings!Witness /\ UNCHANGED <<v2, v3>>
      BY <1>2 DEF Settings!OthersSave
    <3> QED BY <3>1, SettingsCount
  <2>3. v1' \in Settings!Stored
    BY <2>1, SettingsStoredType DEF SettingsInv
  <2> QED BY <2>2, <2>3, SettingsWitness DEF SettingsInv, Settings!TypeOK, Settings!SwitchesFollow
<1> QED BY <1>1, <1>2

(* The message *)

LEMMA SettingsSender ==
  ASSUME SettingsInv, UNCHANGED <<v1, v2, v3, v4, v5>>,
         v6' \in [step : {"idle", "config", "type", "deliver", "delivered"},
                  kind : {"typed", "plain", "test"}, token : {"", "old", "new"},
                  chat : {"", "old", "new"}, since : SUBSET Settings!Stored],
         Settings!AllowedSoFar'
  PROVE  SettingsInv'
BY DEF SettingsInv, Settings!TypeOK, Settings!SwitchesFollow

LEMMA SettingsSends ==
  ASSUME SettingsInv,
         \/ \E kind \in {"typed", "plain", "test"} : Settings!SendMessage(kind)
         \/ Settings!ReadConfig \/ Settings!IsNotificationDisabled
         \/ Settings!Deliver \/ Settings!Delivered
  PROVE  SettingsInv'
<1> DEFINE Sender == [step : {"idle", "config", "type", "deliver", "delivered"},
                      kind : {"typed", "plain", "test"}, token : {"", "old", "new"},
                      chat : {"", "old", "new"}, since : SUBSET Settings!Stored]
<1>0. /\ v6 \in Sender /\ v1 \in Settings!Stored
      /\ UNCHANGED <<v1, v2, v3, v4, v5>>
  BY DEF SettingsInv, Settings!TypeOK, Settings!SendMessage, Settings!ReadConfig,
         Settings!IsNotificationDisabled, Settings!Deliver, Settings!Delivered
<1>1. Settings!Idle \in Sender /\ Settings!Idle.step = "idle"
  BY DEF Settings!Idle
<1>2. CASE v6' = Settings!Idle
  BY <1>0, <1>1, <1>2, SettingsSender DEF Settings!AllowedSoFar
<1>3. ASSUME NEW kind \in {"typed", "plain", "test"}, Settings!SendMessage(kind)
      PROVE  SettingsInv'
  <2>1. v6' = [Settings!Idle EXCEPT !.step = "config", !.kind = kind, !.since = {v1}]
    BY <1>3 DEF Settings!SendMessage
  <2>2. v6' \in Sender /\ v6'.step = "config" /\ v6'.since = {v1}
    BY <1>0, <2>1 DEF Settings!Idle
  <2> QED BY <1>0, <2>2, SettingsSender DEF Settings!AllowedSoFar
<1>4. CASE Settings!ReadConfig /\ v6' # Settings!Idle
  <2> DEFINE config == Settings!GetTelegramSettings
  <2>1. /\ ~ Settings!Suppressed(config, v6.kind) /\ v6.step = "config"
        /\ v6' = [v6 EXCEPT !.step = IF v6.kind = "typed" THEN "type" ELSE "deliver",
                            !.token = config["botToken"], !.chat = config["chatId"]]
    BY <1>0, <1>4 DEF Settings!ReadConfig
  <2>2. /\ config["botToken"] \in {"", "old", "new"} /\ config["chatId"] \in {"", "old", "new"}
        /\ config["botToken"] # "" => v1["botToken"] = config["botToken"]
        /\ config["chatId"] # "" => v1["chatId"] = config["chatId"]
        /\ config["enabled"] # "no" => v1["enabled"] = "yes"
    BY <1>0 DEF Settings!GetTelegramSettings, Settings!Stored, Settings!Keys, Settings!Values,
       Settings!Switches, Settings!Credentials
  <2> HIDE DEF config
  <2>3. /\ config["botToken"] # "" /\ config["chatId"] # ""
        /\ v6.kind = "test" \/ config["enabled"] # "no"
    BY <2>1 DEF Settings!Suppressed
  <2>4. /\ v6' \in Sender /\ v6'.kind = v6.kind /\ v6'.since = v6.since
        /\ v6'.token = config["botToken"] /\ v6'.chat = config["chatId"]
        /\ v6'.step = IF v6.kind = "typed" THEN "type" ELSE "deliver"
    BY <1>0, <2>1, <2>2
  <2>5. v1 \in v6.since
    BY <2>1 DEF SettingsInv, Settings!AllowedSoFar
  <2>6. Settings!ConfigAllowed(v1)'
    BY <1>0, <2>2, <2>3, <2>4 DEF Settings!ConfigAllowed
  <2>7. Settings!AllowedSoFar'
    <3>1. \E s \in v6'.since : Settings!ConfigAllowed(s)'
      BY <1>0, <2>4, <2>5, <2>6 DEF Settings!ConfigAllowed
    <3> QED BY <1>0, <2>4, <2>5, <3>1 DEF Settings!AllowedSoFar, Settings!ConfigAllowed
  <2> QED BY <1>0, <2>4, <2>7, SettingsSender
<1>5. CASE Settings!IsNotificationDisabled /\ v6' # Settings!Idle
  <2>1. v6.step = "type" /\ v1["event"] # "no" /\ v6' = [v6 EXCEPT !.step = "deliver"]
    BY <1>5 DEF Settings!IsNotificationDisabled
  <2>2. /\ v6' \in Sender /\ v6'.kind = v6.kind /\ v6'.since = v6.since
        /\ v6'.token = v6.token /\ v6'.chat = v6.chat /\ v6'.step = "deliver"
    BY <1>0, <2>1
  <2>3. v1 \in v6.since
    BY <2>1 DEF SettingsInv, Settings!AllowedSoFar
  <2>4. Settings!AllowedSoFar'
    BY <1>0, <2>1, <2>2, <2>3 DEF SettingsInv, Settings!AllowedSoFar, Settings!ConfigAllowed
  <2> QED BY <1>0, <2>2, <2>4, SettingsSender
<1>6. CASE Settings!Deliver /\ v6' # Settings!Idle
  <2>1. v6.step = "deliver" /\ v6' = [v6 EXCEPT !.step = "delivered"]
    BY <1>6 DEF Settings!Deliver
  <2>2. /\ v6' \in Sender /\ v6'.kind = v6.kind /\ v6'.since = v6.since
        /\ v6'.token = v6.token /\ v6'.chat = v6.chat /\ v6'.step = "delivered"
    BY <1>0, <2>1
  <2>3. Settings!AllowedSoFar'
    BY <1>0, <2>1, <2>2 DEF SettingsInv, Settings!AllowedSoFar, Settings!ConfigAllowed
  <2> QED BY <1>0, <2>2, <2>3, SettingsSender
<1>7. CASE Settings!Delivered
  BY <1>2, <1>7 DEF Settings!Delivered
<1> QED BY <1>2, <1>3, <1>4, <1>5, <1>6, <1>7

LEMMA SettingsInvStep == SettingsInv /\ Settings!Next => SettingsInv'
BY SettingsLoad, SettingsToggle, SettingsSaveCredential, SettingsServed, SettingsOthers,
   SettingsSends DEF Settings!Next

LEMMA SettingsIsKept ==
  (part = "settings" => SettingsInv) /\ [Next]_<<part, v1, v2, v3, v4, v5, v6, v7, v8, v9, v10>>
    => (part = "settings" => SettingsInv)'
<1> SUFFICES ASSUME part = "settings" => SettingsInv,
                    [Next]_<<part, v1, v2, v3, v4, v5, v6, v7, v8, v9, v10>>, part' = "settings"
             PROVE  SettingsInv'
  OBVIOUS
<1>1. part = "settings" /\ (Settings!Next \/ UNCHANGED <<v1, v2, v3, v4, v5, v6>>)
  BY DEF Next, LogsStep, AuditStep, ChartsStep, CardsStep, OutboundStep, UptimeStep, SettingsStep,
         TokensStep, SocketsStep
<1>2. CASE UNCHANGED <<v1, v2, v3, v4, v5, v6>>
  BY <1>1, <1>2, ZenonT(30) DEF SettingsInv, Settings!TypeOK, Settings!AllowedSoFar, Settings!ConfigAllowed,
     Settings!SwitchesFollow
<1> QED BY <1>1, <1>2, SettingsInvStep

LEMMA SettingsStarts == Init => (part = "settings" => SettingsInv)
BY SettingsInvInit DEF Init

LEMMA SettingsInvSuffices ==
  SettingsInv =>
    Settings!TypeOK /\ Settings!DeliveredWasAllowed /\ Settings!SwitchesShowWhatIsStored
<1> SUFFICES ASSUME SettingsInv
             PROVE  Settings!DeliveredWasAllowed /\ Settings!SwitchesShowWhatIsStored
  BY DEF SettingsInv
<1>1. Settings!DeliveredWasAllowed
  BY DEF SettingsInv, Settings!AllowedSoFar, Settings!DeliveredWasAllowed
<1>2. Settings!SwitchesShowWhatIsStored
  BY DEF SettingsInv, Settings!SwitchesFollow, Settings!SwitchesShowWhatIsStored
<1> QED BY <1>1, <1>2

(* A message goes out only with a bot and a chat that were set together    *)
(* while Telegram was enabled, and when its type was not switched off, each*)
(* at one moment of its way, however saves overlap, fail and arrive late;  *)
(* and the switches of the page show what is stored once its saves have    *)
(* been served one by one.                                                 *)
(* (TelegrafService, SettingsService, NotificationsSettings)               *)
THEOREM MessagesAreAllowed == Spec => []NotificationsAsSet
<1>1. (part = "settings" => SettingsInv) => NotificationsAsSet
  BY SettingsInvSuffices DEF NotificationsAsSet
<1> QED BY <1>1, SettingsStarts, SettingsIsKept, PTL DEF Spec

-----------------------------------------------------------------------------
(* API tokens: tokens is v1, issued v2, users v3, request v4, came v5 and  *)
(* changes v6                                                              *)

LEMMA TokensCounts ==
  /\ \A S : Tokens!IsFiniteSet(S) <=> IsFiniteSet(S)
  /\ \A S : Tokens!Cardinality(S) = Cardinality(S)
<1>1. \A S : Tokens!IsFiniteSet(S) <=> IsFiniteSet(S)
  BY DEF Tokens!IsFiniteSet, IsFiniteSet
<1>2. \A S : Tokens!Cardinality(S) = Cardinality(S)
  BY DEF Tokens!Cardinality, Cardinality
<1> QED BY <1>1, <1>2

TokensInv ==
  /\ Tokens!TypeOK
  /\ Tokens!TokensAreUnique
  /\ \A r \in Requests : Tokens!RightSoFar(v4[r])

LEMMA TokensIdle ==
  Tokens!Idle \in Tokens!Request /\ Tokens!Idle.step = "idle" /\ Tokens!Idle.user = {}
BY DEF Tokens!Idle, Tokens!Request, Tokens!Steps, Tokens!Ops, Tokens!Mine

LEMMA TokensInvInit == Tokens!Init => TokensInv
<1> SUFFICES ASSUME Tokens!Init
             PROVE  TokensInv
  OBVIOUS
<1>1. \/ v1 = {} /\ v2 = 0
      \/ \E u \in Owners : v1 = {[id |-> 1, user |-> u]} /\ v2 = 1
  BY TokensCounts, FS_EmptySet, FS_Singleton DEF Tokens!Init
<1>2. v1 \subseteq Tokens!Token /\ v2 \in 0 .. MaxTokens /\ Tokens!TokensAreUnique
  <2>1. MaxTokens \in Nat /\ MaxTokens > 0 /\ 1 \in Tokens!Ids
    BY ConstantsAssumption DEF Tokens!Ids
  <2>2. CASE v1 = {} /\ v2 = 0
    BY <2>1, <2>2 DEF Tokens!TokensAreUnique
  <2>3. ASSUME NEW u \in Owners, v1 = {[id |-> 1, user |-> u]}, v2 = 1
        PROVE  v1 \subseteq Tokens!Token /\ v2 \in 0 .. MaxTokens /\ Tokens!TokensAreUnique
    BY <2>1, <2>3 DEF Tokens!TokensAreUnique, Tokens!Token
  <2> QED BY <1>1, <2>2, <2>3
<1>3. v3 \in [Owners -> Tokens!User]
  <2>1. [deleted : {FALSE}, permissions : {{"MANAGE_MY"}, Tokens!Permissions}] \subseteq Tokens!User
    BY DEF Tokens!User, Tokens!Permissions
  <2>2. v3 \in [Owners -> [deleted : {FALSE}, permissions : {{"MANAGE_MY"}, Tokens!Permissions}]]
    BY DEF Tokens!Init
  <2> QED BY <2>1, <2>2
<1>4. v4 \in [Requests -> Tokens!Request] /\ \A r \in Requests : v4[r] = Tokens!Idle
  BY TokensIdle DEF Tokens!Init
<1>5. v5 \in 0 .. MaxRequests /\ v6 \in 0 .. MaxChanges
  BY BoundsAreNumbers DEF Tokens!Init
<1> QED BY <1>2, <1>3, <1>4, <1>5, TokensIdle DEF TokensInv, Tokens!TypeOK, Tokens!RightSoFar

(* The steps of one request that change nothing that is stored. *)
LEMMA TokensRead ==
  ASSUME TokensInv, NEW r \in Requests, NEW next \in Tokens!Request,
         v4' = [v4 EXCEPT ![r] = next], Tokens!RightSoFar(next),
         v5' \in 0 .. MaxRequests, UNCHANGED <<v1, v2, v3, v6>>
  PROVE  TokensInv'
<1>1. Tokens!TypeOK'
  BY DEF TokensInv, Tokens!TypeOK
<1>2. Tokens!TokensAreUnique'
  BY DEF TokensInv, Tokens!TokensAreUnique
<1>3. ASSUME NEW o \in Requests
      PROVE  Tokens!RightSoFar(v4[o])'
  <2>1. Tokens!RightSoFar(v4'[o])
    BY DEF TokensInv, Tokens!TypeOK
  <2> QED BY <2>1 DEF Tokens!RightSoFar, Tokens!Now, Tokens!AllowedOnce
<1> QED BY <1>1, <1>2, <1>3 DEF TokensInv

(* The steps that change what is stored: every request on its way sees it. *)
LEMMA TokensWritten ==
  ASSUME TokensInv, NEW q \in [Requests -> Tokens!Request],
         \A o \in Requests : Tokens!RightSoFar(q[o]),
         Tokens!Witness(q), v1' \subseteq Tokens!Token, v3' \in [Owners -> Tokens!User]
  PROVE  v4' \in [Requests -> Tokens!Request] /\ \A o \in Requests : Tokens!RightSoFar(v4[o])'
<1> DEFINE now == [tokens |-> v1', users |-> v3']
<1>1. now \in [tokens : SUBSET Tokens!Token, users : [Owners -> Tokens!User]] /\ Tokens!Now' = now
  BY DEF Tokens!Now
<1>2. v4' = [o \in Requests |-> IF q[o].step \in {"came", "find", "write"}
                               THEN [q[o] EXCEPT !.since = q[o].since \cup {now}] ELSE q[o]]
  BY DEF Tokens!Witness, Tokens!Witnessed
<1> HIDE DEF now
<1>3. ASSUME NEW o \in Requests, q[o].step \in {"came", "find", "write"}
      PROVE  v4'[o] \in Tokens!Request /\ Tokens!RightSoFar(v4[o])'
  <2>1. v4'[o] = [q[o] EXCEPT !.since = q[o].since \cup {now}]
    BY <1>2, <1>3
  <2>2. PICK k \in Tokens!Request : k = q[o] /\ Tokens!RightSoFar(k)
    OBVIOUS
  <2>3. /\ v4'[o] \in Tokens!Request /\ v4'[o].since = k.since \cup {now}
        /\ v4'[o].step = k.step /\ v4'[o].op = k.op /\ v4'[o].token = k.token
        /\ v4'[o].user = k.user /\ v4'[o].owner = k.owner
    BY <1>1, <2>1, <2>2 DEF Tokens!Request
  <2>4. Tokens!AllowedOnce(k) => Tokens!AllowedOnce(v4[o])'
    BY <2>3 DEF Tokens!AllowedOnce
  <2> QED BY <1>1, <2>2, <2>3, <2>4 DEF Tokens!RightSoFar
<1>4. ASSUME NEW o \in Requests, q[o].step \notin {"came", "find", "write"}
      PROVE  v4'[o] \in Tokens!Request /\ Tokens!RightSoFar(v4[o])'
  <2>1. v4'[o] = q[o]
    BY <1>2, <1>4
  <2>2. Tokens!RightSoFar(q[o])
    OBVIOUS
  <2>3. Tokens!AllowedOnce(q[o]) => Tokens!AllowedOnce(v4[o])'
    BY <2>1 DEF Tokens!AllowedOnce
  <2> QED BY <1>4, <2>1, <2>2, <2>3 DEF Tokens!RightSoFar
<1>5. v4' = [o \in Requests |-> v4'[o]]
  BY <1>2
<1> QED BY <1>3, <1>4, <1>5

LEMMA TokensReject ==
  ASSUME TokensInv, NEW r \in Requests, Tokens!Reject(r), UNCHANGED <<v1, v2, v3, v5, v6>>
  PROVE  TokensInv'
<1> DEFINE next == [Tokens!Idle EXCEPT !.step = "rejected"]
<1>1. v4' = [v4 EXCEPT ![r] = next]
  BY DEF Tokens!Reject
<1>2. next \in Tokens!Request /\ next.step = "rejected" /\ next.user = {}
  BY DEF Tokens!Idle, Tokens!Request, Tokens!Steps, Tokens!Ops, Tokens!Mine
<1> HIDE DEF next
<1>3. v5' \in 0 .. MaxRequests
  BY DEF TokensInv, Tokens!TypeOK
<1> QED BY <1>1, <1>2, <1>3, TokensRead DEF Tokens!RightSoFar

LEMMA TokensCanActivate ==
  ASSUME TokensInv, NEW r \in Requests, Tokens!CanActivate(r)
  PROVE  TokensInv'
<1>1. v5' \in 0 .. MaxRequests /\ UNCHANGED <<v1, v2, v3, v6>>
  <2>1. v5 < MaxRequests /\ v5' = v5 + 1 /\ UNCHANGED <<v1, v2, v3, v6>>
    BY DEF Tokens!CanActivate
  <2>2. v5 \in 0 .. MaxRequests
    BY DEF TokensInv, Tokens!TypeOK
  <2> QED BY <2>1, <2>2, BoundsAreNumbers
<1>2. Tokens!Now \in [tokens : SUBSET Tokens!Token, users : [Owners -> Tokens!User]]
  BY DEF Tokens!Now, TokensInv, Tokens!TypeOK
<1>3. PICK op \in Tokens!Ops : \E target \in 0 .. v2 :
        \/ \E token \in 1 .. v2 :
             v4' = [v4 EXCEPT ![r] = [Tokens!Idle EXCEPT !.step = "came", !.op = op,
                      !.token = token, !.target = target, !.since = {Tokens!Now}]]
        \/ \E u \in Owners :
             v4' = [v4 EXCEPT ![r] = [Tokens!Idle EXCEPT !.step = "came", !.op = op,
                      !.user = {u}, !.target = target, !.since = {Tokens!Now}]]
  BY DEF Tokens!CanActivate
<1>4. PICK target \in 0 .. v2 :
        \/ \E token \in 1 .. v2 :
             v4' = [v4 EXCEPT ![r] = [Tokens!Idle EXCEPT !.step = "came", !.op = op,
                      !.token = token, !.target = target, !.since = {Tokens!Now}]]
        \/ \E u \in Owners :
             v4' = [v4 EXCEPT ![r] = [Tokens!Idle EXCEPT !.step = "came", !.op = op,
                      !.user = {u}, !.target = target, !.since = {Tokens!Now}]]
  BY <1>3
<1>5. v2 \in 0 .. MaxTokens /\ MaxTokens \in Nat
  BY BoundsAreNumbers DEF TokensInv, Tokens!TypeOK
<1>6. target \in {0} \cup Tokens!Ids /\ 1 .. v2 \subseteq Tokens!Ids
  BY <1>5 DEF Tokens!Ids
<1>7. ASSUME NEW token \in 1 .. v2,
             v4' = [v4 EXCEPT ![r] = [Tokens!Idle EXCEPT !.step = "came", !.op = op,
                      !.token = token, !.target = target, !.since = {Tokens!Now}]]
      PROVE  TokensInv'
  <2> DEFINE next == [Tokens!Idle EXCEPT !.step = "came", !.op = op,
                        !.token = token, !.target = target, !.since = {Tokens!Now}]
  <2>1. next \in Tokens!Request /\ next.step = "came" /\ next.user = {} /\ next.since = {Tokens!Now}
    BY <1>2, <1>6, <1>7 DEF Tokens!Idle, Tokens!Request, Tokens!Steps
  <2>2. v4' = [v4 EXCEPT ![r] = next]
    BY <1>7
  <2> HIDE DEF next
  <2> QED BY <1>1, <2>1, <2>2, TokensRead DEF Tokens!RightSoFar
<1>8. ASSUME NEW u \in Owners,
             v4' = [v4 EXCEPT ![r] = [Tokens!Idle EXCEPT !.step = "came", !.op = op,
                      !.user = {u}, !.target = target, !.since = {Tokens!Now}]]
      PROVE  TokensInv'
  <2> DEFINE next == [Tokens!Idle EXCEPT !.step = "came", !.op = op,
                        !.user = {u}, !.target = target, !.since = {Tokens!Now}]
  <2>1. next \in Tokens!Request /\ next.step = "came" /\ next.user = {u} /\ next.since = {Tokens!Now}
    BY <1>2, <1>6, <1>8 DEF Tokens!Idle, Tokens!Request, Tokens!Steps
  <2>2. v4' = [v4 EXCEPT ![r] = next]
    BY <1>8
  <2> HIDE DEF next
  <2> QED BY <1>1, <2>1, <2>2, TokensRead DEF Tokens!RightSoFar
<1> QED BY <1>4, <1>7, <1>8

(* The moment at which a request is judged is the one it was allowed at. *)
LEMMA TokensValidate ==
  ASSUME TokensInv, NEW r \in Requests, Tokens!Validate(r)
  PROVE  TokensInv'
<1>0. /\ v4[r] \in Tokens!Request /\ Tokens!RightSoFar(v4[r]) /\ v4[r].step = "came"
      /\ UNCHANGED <<v1, v2, v3, v5, v6>> /\ v5' \in 0 .. MaxRequests
  BY DEF Tokens!Validate, TokensInv, Tokens!TypeOK
<1> DEFINE found == {t \in v1 : t.id = v4[r].token /\ Tokens!Read(t)}
           user == IF v4[r].token = 0 THEN v4[r].user ELSE {t.user : t \in found}
           next == [v4[r] EXCEPT !.step = "find", !.user = user]
<1>1. \/ Tokens!Reject(r)
      \/ /\ \E u \in user : Tokens!Needed(v4[r].op) \in v3[u].permissions
         /\ v4' = [v4 EXCEPT ![r] = next]
  BY <1>0 DEF Tokens!Validate
<1>2. CASE Tokens!Reject(r)
  BY <1>0, <1>2, TokensReject
<1>3. ASSUME NEW u \in user, Tokens!Needed(v4[r].op) \in v3[u].permissions,
             v4' = [v4 EXCEPT ![r] = next]
      PROVE  TokensInv'
  <2>1. user \in SUBSET Owners
    BY <1>0 DEF TokensInv, Tokens!TypeOK, Tokens!Token, Tokens!Request
  <2>2. \A o, x \in user : o = x
    BY <1>0 DEF TokensInv, Tokens!TokensAreUnique, Tokens!RightSoFar
  <2>3. v4[r].token # 0 => \E t \in v1 : /\ t.id = v4[r].token /\ user = {t.user}
                                        /\ ~ v3[t.user].deleted /\ t.user = u
    <3>1. SUFFICES ASSUME v4[r].token # 0
                   PROVE  \E t \in v1 : /\ t.id = v4[r].token /\ user = {t.user}
                                        /\ ~ v3[t.user].deleted /\ t.user = u
      OBVIOUS
    <3>2. PICK t \in found : t.user = u
      BY <1>3, <3>1
    <3>3. user = {t.user}
      BY <2>2, <3>2
    <3> HIDE DEF user
    <3> QED BY <3>2, <3>3 DEF Tokens!Read
  <2> HIDE DEF user
  <2>4. /\ next \in Tokens!Request /\ next.step = "find" /\ next.user = user
        /\ next.op = v4[r].op /\ next.token = v4[r].token /\ next.since = v4[r].since
    BY <1>0, <2>1 DEF Tokens!Request, Tokens!Steps
  <2> HIDE DEF next
  <2>5. Tokens!Now \in next.since /\ Tokens!Now.tokens = v1 /\ Tokens!Now.users = v3
    BY <1>0, <2>4 DEF Tokens!RightSoFar, Tokens!Now
  <2>6. next.token # 0 => Tokens!AllowedOnce(next)
    BY <1>3, <2>3, <2>4, <2>5 DEF Tokens!AllowedOnce
  <2>7. Tokens!RightSoFar(next)
    BY <2>2, <2>4, <2>5, <2>6 DEF Tokens!RightSoFar
  <2> QED BY <1>0, <1>3, <2>4, <2>7, TokensRead
<1> QED BY <1>1, <1>2, <1>3

LEMMA TokensFind ==
  ASSUME TokensInv, NEW r \in Requests, Tokens!Find(r)
  PROVE  TokensInv'
<1>0. /\ v4[r] \in Tokens!Request /\ Tokens!RightSoFar(v4[r]) /\ v4[r].step = "find"
      /\ UNCHANGED <<v1, v2, v3, v5, v6>> /\ v5' \in 0 .. MaxRequests /\ v4[r].op # "createMine"
  BY DEF Tokens!Find, TokensInv, Tokens!TypeOK
<1> DEFINE found == {t \in v1 : Tokens!Filter(r, t)}
           owner == {t.user : t \in found}
           next == [v4[r] EXCEPT !.step = "write", !.owner = owner]
<1>1. \/ Tokens!Reject(r)
      \/ found # {} /\ v4' = [v4 EXCEPT ![r] = next]
  BY <1>0 DEF Tokens!Find
<1>2. CASE Tokens!Reject(r)
  BY <1>0, <1>2, TokensReject
<1>3. CASE found # {} /\ v4' = [v4 EXCEPT ![r] = next]
  <2>1. owner \in SUBSET Owners
    BY DEF TokensInv, Tokens!TypeOK, Tokens!Token
  <2>2. v4[r].op \in Tokens!Mine => owner = v4[r].user
    <3> SUFFICES ASSUME v4[r].op \in Tokens!Mine
                 PROVE  owner = v4[r].user
      OBVIOUS
    <3>1. owner \subseteq v4[r].user /\ owner # {}
      BY <1>3 DEF Tokens!Filter
    <3>2. \A u, o \in v4[r].user : u = o
      BY <1>0 DEF Tokens!RightSoFar
    <3> HIDE DEF owner
    <3> QED BY <3>1, <3>2
  <2> HIDE DEF owner
  <2>3. /\ next \in Tokens!Request /\ next.step = "write" /\ next.owner = owner
        /\ next.op = v4[r].op /\ next.token = v4[r].token /\ next.since = v4[r].since
        /\ next.user = v4[r].user
    BY <1>0, <2>1 DEF Tokens!Request, Tokens!Steps
  <2> HIDE DEF next
  <2>4. Tokens!RightSoFar(next)
    BY <1>0, <2>2, <2>3 DEF Tokens!RightSoFar, Tokens!AllowedOnce
  <2> QED BY <1>0, <1>3, <2>3, <2>4, TokensRead
<1> QED BY <1>1, <1>2, <1>3

(* A request that is served keeps what it was right about. *)
LEMMA TokensServed ==
  ASSUME TokensInv, NEW r \in Requests, v4[r].step \in {"find", "write"},
         NEW owner \in SUBSET Owners,
         owner = v4[r].user \/ (v4[r].step = "write" /\ owner = v4[r].owner)
  PROVE  LET next == [v4[r] EXCEPT !.step = "served", !.owner = owner]
         IN  next \in Tokens!Request /\ Tokens!RightSoFar(next)
<1>0. v4[r] \in Tokens!Request /\ Tokens!RightSoFar(v4[r])
  BY DEF TokensInv, Tokens!TypeOK
<1> DEFINE next == [v4[r] EXCEPT !.step = "served", !.owner = owner]
<1>1. /\ next \in Tokens!Request /\ next.step = "served" /\ next.owner = owner
      /\ next.op = v4[r].op /\ next.token = v4[r].token /\ next.since = v4[r].since
      /\ next.user = v4[r].user
  BY <1>0 DEF Tokens!Request, Tokens!Steps
<1> HIDE DEF next
<1>2. Tokens!RightSoFar(next)
  BY <1>0, <1>1 DEF Tokens!RightSoFar, Tokens!AllowedOnce
<1> QED BY <1>1, <1>2 DEF next

LEMMA TokensCreateOne ==
  ASSUME TokensInv, NEW r \in Requests, Tokens!CreateOne(r)
  PROVE  TokensInv'
<1> DEFINE next == [v4[r] EXCEPT !.step = "served", !.owner = v4[r].user]
           q == [v4 EXCEPT ![r] = next]
<1>0. /\ v4 \in [Requests -> Tokens!Request] /\ Tokens!RightSoFar(v4[r]) /\ v4[r].step = "find"
      /\ v4[r].user \in SUBSET Owners /\ UNCHANGED <<v3, v5, v6>>
  BY DEF Tokens!CreateOne, TokensInv, Tokens!TypeOK, Tokens!Request
<1>1. /\ v2 \in 0 .. MaxTokens /\ v2 < MaxTokens /\ MaxTokens \in Nat /\ v2' = v2 + 1
      /\ v1' = v1 \cup {[id |-> v2 + 1, user |-> u] : u \in v4[r].user}
  BY BoundsAreNumbers DEF Tokens!CreateOne, TokensInv, Tokens!TypeOK
<1>2. Tokens!Witness(q)
  <2>1. [v4 EXCEPT ![r].step = "served", ![r].owner = v4[r].user] = q
    BY <1>0
  <2> QED BY <2>1 DEF Tokens!CreateOne
<1>3. next \in Tokens!Request /\ Tokens!RightSoFar(next)
  BY <1>0, TokensServed
<1> HIDE DEF next
<1>4. q \in [Requests -> Tokens!Request] /\ \A o \in Requests : Tokens!RightSoFar(q[o])
  BY <1>0, <1>3 DEF TokensInv
<1> HIDE DEF q
<1>5. v1' \subseteq Tokens!Token
  BY <1>0, <1>1 DEF TokensInv, Tokens!TypeOK, Tokens!Token, Tokens!Ids
<1>6. Tokens!TokensAreUnique'
  <2>1. \A t \in v1 : t.id \in Nat /\ t.id <= v2 /\ \A o \in v1 : o.id = t.id => o = t
    BY <1>1 DEF TokensInv, Tokens!TypeOK, Tokens!Token, Tokens!Ids, Tokens!TokensAreUnique
  <2>2. \A u, o \in v4[r].user : u = o
    BY <1>0 DEF Tokens!RightSoFar
  <2>3. \A t \in v1' : t \in v1 \/ (t.id = v2 + 1 /\ \A o \in v1' : o \notin v1 => o = t)
    BY <1>1, <2>2
  <2>4. \A t \in v1' : t.id <= v2'
    BY <1>1, <2>1, <2>3
  <2>5. \A t, o \in v1' : o.id = t.id => o = t
    BY <1>1, <2>1, <2>3
  <2> QED BY <2>4, <2>5 DEF Tokens!TokensAreUnique
<1>7. v4' \in [Requests -> Tokens!Request] /\ \A o \in Requests : Tokens!RightSoFar(v4[o])'
  <2>1. v3' \in [Owners -> Tokens!User]
    BY <1>0 DEF TokensInv, Tokens!TypeOK
  <2> QED BY <1>2, <1>4, <1>5, <2>1, TokensWritten
<1>8. Tokens!TypeOK'
  <2>1. v2' \in 0 .. MaxTokens
    BY <1>1
  <2> QED BY <1>0, <1>5, <1>7, <2>1 DEF TokensInv, Tokens!TypeOK
<1> QED BY <1>6, <1>7, <1>8 DEF TokensInv

LEMMA TokensDeleteOne ==
  ASSUME TokensInv, NEW r \in Requests, Tokens!DeleteOne(r)
  PROVE  TokensInv'
<1> DEFINE next == [v4[r] EXCEPT !.step = "served", !.owner = v4[r].owner]
           q == [v4 EXCEPT ![r] = next]
<1>0. /\ v4 \in [Requests -> Tokens!Request] /\ Tokens!RightSoFar(v4[r]) /\ v4[r].step = "write"
      /\ v4[r].owner \in SUBSET Owners /\ UNCHANGED <<v2, v3, v5, v6>> /\ v1' \subseteq v1
  BY DEF Tokens!DeleteOne, TokensInv, Tokens!TypeOK, Tokens!Request
<1>1. Tokens!Witness(q)
  <2>1. [v4 EXCEPT ![r].step = "served"] = q
    <3>1. [v4[r] EXCEPT !.step = "served"] = next
      BY <1>0 DEF Tokens!Request
    <3> HIDE DEF next
    <3> QED BY <3>1
  <2> QED BY <2>1 DEF Tokens!DeleteOne
<1>2. next \in Tokens!Request /\ Tokens!RightSoFar(next)
  BY <1>0, TokensServed
<1> HIDE DEF next
<1>3. q \in [Requests -> Tokens!Request] /\ \A o \in Requests : Tokens!RightSoFar(q[o])
  BY <1>0, <1>2 DEF TokensInv
<1> HIDE DEF q
<1>4. v1' \subseteq Tokens!Token /\ v3' \in [Owners -> Tokens!User]
  BY <1>0 DEF TokensInv, Tokens!TypeOK
<1>5. v4' \in [Requests -> Tokens!Request] /\ \A o \in Requests : Tokens!RightSoFar(v4[o])'
  BY <1>1, <1>3, <1>4, TokensWritten
<1>6. Tokens!TypeOK'
  BY <1>0, <1>4, <1>5 DEF TokensInv, Tokens!TypeOK
<1>7. Tokens!TokensAreUnique'
  BY <1>0 DEF TokensInv, Tokens!TokensAreUnique
<1> QED BY <1>5, <1>6, <1>7 DEF TokensInv

LEMMA TokensUpdateOne ==
  ASSUME TokensInv, NEW r \in Requests, Tokens!UpdateOne(r)
  PROVE  TokensInv'
<1> DEFINE next == [v4[r] EXCEPT !.step = "served", !.owner = v4[r].owner]
<1>0. /\ v4 \in [Requests -> Tokens!Request] /\ v4[r].step = "write"
      /\ v4[r].owner \in SUBSET Owners /\ UNCHANGED <<v1, v2, v3, v5, v6>>
      /\ v5' \in 0 .. MaxRequests
  BY DEF Tokens!UpdateOne, TokensInv, Tokens!TypeOK, Tokens!Request
<1>1. Tokens!Reject(r) \/ v4' = [v4 EXCEPT ![r] = next]
  <2>1. [v4 EXCEPT ![r].step = "served"] = [v4 EXCEPT ![r] = next]
    <3>1. [v4[r] EXCEPT !.step = "served"] = next
      BY <1>0 DEF Tokens!Request
    <3> HIDE DEF next
    <3> QED BY <3>1
  <2> QED BY <2>1 DEF Tokens!UpdateOne
<1>2. next \in Tokens!Request /\ Tokens!RightSoFar(next)
  BY <1>0, TokensServed
<1> HIDE DEF next
<1> QED BY <1>0, <1>1, <1>2, TokensReject, TokensRead

LEMMA TokensDone ==
  ASSUME TokensInv, NEW r \in Requests, Tokens!Done(r)
  PROVE  TokensInv'
<1>1. v5' \in 0 .. MaxRequests /\ UNCHANGED <<v1, v2, v3, v6>> /\ v4' = [v4 EXCEPT ![r] = Tokens!Idle]
  BY DEF Tokens!Done, TokensInv, Tokens!TypeOK
<1> QED BY <1>1, TokensIdle, TokensRead DEF Tokens!RightSoFar

LEMMA TokensChangeUser ==
  ASSUME TokensInv, NEW u \in Owners, Tokens!ChangeUser(u)
  PROVE  TokensInv'
<1>1. v3' \in [Owners -> Tokens!User]
  <2>1. v3 \in [Owners -> Tokens!User]
    BY DEF TokensInv, Tokens!TypeOK
  <2>3. \/ v3' = [v3 EXCEPT ![u] = [v3[u] EXCEPT !.deleted = TRUE]]
        \/ \E p \in SUBSET Tokens!Permissions :
             v3' = [v3 EXCEPT ![u] = [v3[u] EXCEPT !.permissions = p]]
    BY DEF Tokens!ChangeUser
  <2>4. PICK k \in Tokens!User : v3' = [v3 EXCEPT ![u] = k]
    <3>1. v3[u] \in Tokens!User
      BY <2>1
    <3>2. CASE v3' = [v3 EXCEPT ![u] = [v3[u] EXCEPT !.deleted = TRUE]]
      <4>1. [v3[u] EXCEPT !.deleted = TRUE] \in Tokens!User
        BY <3>1 DEF Tokens!User
      <4> QED BY <3>2, <4>1
    <3>3. ASSUME NEW p \in SUBSET Tokens!Permissions,
                 v3' = [v3 EXCEPT ![u] = [v3[u] EXCEPT !.permissions = p]]
          PROVE  \E k \in Tokens!User : v3' = [v3 EXCEPT ![u] = k]
      <4>1. [v3[u] EXCEPT !.permissions = p] \in Tokens!User
        BY <3>1, <3>3 DEF Tokens!User
      <4> QED BY <3>3, <4>1
    <3> QED BY <2>3, <3>2, <3>3
  <2> QED BY <2>1, <2>4
<1>2. v6' \in 0 .. MaxChanges
  <2>1. v6 \in 0 .. MaxChanges /\ v6 < MaxChanges /\ v6' = v6 + 1
    BY DEF Tokens!ChangeUser, TokensInv, Tokens!TypeOK
  <2> QED BY <2>1, BoundsAreNumbers
<1>3. Tokens!Witness(v4) /\ UNCHANGED <<v1, v2, v5>>
  BY DEF Tokens!ChangeUser
<1>4. v4' \in [Requests -> Tokens!Request] /\ \A o \in Requests : Tokens!RightSoFar(v4[o])'
  <2>1. /\ v4 \in [Requests -> Tokens!Request] /\ \A o \in Requests : Tokens!RightSoFar(v4[o])
        /\ v1' \subseteq Tokens!Token
    BY <1>3 DEF TokensInv, Tokens!TypeOK
  <2> QED BY <1>1, <1>3, <2>1, TokensWritten
<1>5. Tokens!TypeOK'
  BY <1>1, <1>2, <1>3, <1>4 DEF TokensInv, Tokens!TypeOK
<1>6. Tokens!TokensAreUnique'
  BY <1>3 DEF TokensInv, Tokens!TokensAreUnique
<1> QED BY <1>4, <1>5, <1>6 DEF TokensInv

LEMMA TokensInvStep == TokensInv /\ Tokens!Next => TokensInv'
BY TokensCanActivate, TokensValidate, TokensCreateOne, TokensFind, TokensDeleteOne,
   TokensUpdateOne, TokensDone, TokensChangeUser DEF Tokens!Next

LEMMA TokensIsKept ==
  (part = "tokens" => TokensInv) /\ [Next]_<<part, v1, v2, v3, v4, v5, v6, v7, v8, v9, v10>>
    => (part = "tokens" => TokensInv)'
<1> SUFFICES ASSUME part = "tokens" => TokensInv,
                    [Next]_<<part, v1, v2, v3, v4, v5, v6, v7, v8, v9, v10>>, part' = "tokens"
             PROVE  TokensInv'
  OBVIOUS
<1>1. part = "tokens" /\ (Tokens!Next \/ UNCHANGED <<v1, v2, v3, v4, v5, v6>>)
  BY DEF Next, LogsStep, AuditStep, ChartsStep, CardsStep, OutboundStep, UptimeStep, SettingsStep,
         TokensStep, SocketsStep
<1>2. CASE UNCHANGED <<v1, v2, v3, v4, v5, v6>>
  BY <1>1, <1>2 DEF TokensInv, Tokens!TypeOK, Tokens!TokensAreUnique, Tokens!RightSoFar,
     Tokens!AllowedOnce, Tokens!Now
<1> QED BY <1>1, <1>2, TokensInvStep

LEMMA TokensStarts == Init => (part = "tokens" => TokensInv)
BY TokensInvInit DEF Init

LEMMA TokensInvSuffices ==
  TokensInv => Tokens!TypeOK /\ Tokens!ServedWasAllowed /\ Tokens!OwnTokensOnly
BY DEF TokensInv, Tokens!RightSoFar, Tokens!ServedWasAllowed, Tokens!OwnTokensOnly

(* Whatever requests, deletions of users and changes of permissions        *)
(* overlap, a request with a token is served only if its token was there   *)
(* and its user was not deleted and permitted at one moment while it was   *)
(* judged; and nobody changes a token of others by the route of the own.   *)
(* (TokensAuthStrategy, JwtAuthGuard, MyTokensController)                  *)
THEOREM TokensServeTheirUsers == Spec => []TokensAreOfTheirUsers
<1>1. (part = "tokens" => TokensInv) => TokensAreOfTheirUsers
  BY TokensInvSuffices DEF TokensAreOfTheirUsers
<1> QED BY <1>1, TokensStarts, TokensIsKept, PTL DEF Spec

-----------------------------------------------------------------------------
(* Event logs: request is v1, logsStore v2, saving v3, table v4, users v5, *)
(* left v6 and lost v7                                                     *)

LogsInv ==
  /\ Logs!TypeOK
  /\ \A r \in Requests : Logs!NoneIsMissed(v1[r])
  /\ \A r \in Requests : Logs!MarkedWithItsRow(r)
  /\ Logs!LoggedAsAnswered

LEMMA NoneIsNoRequest == None \notin Requests
BY ConstantsAssumption

LEMMA LogsInvInit == Logs!Init => LogsInv
<1> SUFFICES ASSUME Logs!Init
             PROVE  LogsInv
  OBVIOUS
<1> USE BoundsAreNumbers DEF Logs!Init
<1>1. Logs!NewRequest \in Logs!Request
  BY DEF Logs!NewRequest, Logs!Request, Logs!Routes, Logs!Statuses
<1>2. Logs!Logs \cup v7 = {}
  BY DEF Logs!Logs
<1>3. Logs!TypeOK
  BY <1>1 DEF Logs!TypeOK
<1>4. ASSUME NEW r \in Requests
      PROVE  Logs!NoneIsMissed(v1[r]) /\ Logs!MarkedWithItsRow(r)
  BY <1>2 DEF Logs!NoneIsMissed, Logs!MarkedWithItsRow, Logs!NewRequest
<1>5. Logs!LoggedAsAnswered
  BY <1>2 DEF Logs!LoggedAsAnswered
<1> QED BY <1>3, <1>4, <1>5 DEF LogsInv

(* A step of one request: it leaves at most one row, of what it has become,*)
(* and none if it had left one before.                                     *)
LEMMA LogsOfOneRequest ==
  ASSUME LogsInv, NEW r \in Requests, NEW next \in Logs!Request, NEW new \in SUBSET Logs!Log,
         v1' = [v1 EXCEPT ![r] = next], v2' = v2 \cup new, UNCHANGED <<v3, v4, v5, v6, v7>>,
         Logs!NoneIsMissed(next),
         \A log \in new : log.of = r /\ log.user = next.user /\ (~next.failed => log.status = next.status),
         \A log, other \in new : log = other,
         v1[r].requestHandled => new = {},
         next.requestHandled <=> v1[r].requestHandled \/ new # {},
         v1[r].requestHandled =>
           next.user = v1[r].user /\ next.failed = v1[r].failed /\ next.status = v1[r].status
  PROVE  LogsInv'
<1>1. /\ v1 \in [Requests -> Logs!Request]
      /\ v1' \in [Requests -> Logs!Request]
      /\ v1'[r] = next
      /\ \A o \in Requests \ {r} : v1'[o] = v1[o]
  BY DEF LogsInv, Logs!TypeOK
<1>2. Logs!Logs' = Logs!Logs \cup new /\ Logs!Logs \subseteq Logs!Log
  <2>1. v2 \cup v4 \cup v7 \cup UNION v3 \subseteq Logs!Log
    BY DEF LogsInv, Logs!TypeOK
  <2> QED BY <2>1 DEF Logs!Logs
<1>3. Logs!TypeOK'
  BY <1>1 DEF LogsInv, Logs!TypeOK
<1>4. \A o \in Requests : Logs!NoneIsMissed(v1[o])'
  BY <1>1 DEF LogsInv, Logs!NoneIsMissed
<1>5. ASSUME NEW o \in Requests
      PROVE  Logs!MarkedWithItsRow(o)'
  <2>1. Logs!MarkedWithItsRow(o)
    BY DEF LogsInv
  <2>2. CASE o = r
    <3>1. v1'[o].requestHandled <=> \E log \in Logs!Logs' \cup v7' : log.of = o
      BY <1>1, <1>2, <2>1, <2>2 DEF Logs!MarkedWithItsRow
    <3>2. CASE v1[r].requestHandled
      BY <1>2, <2>1, <2>2, <3>1, <3>2 DEF Logs!MarkedWithItsRow
    <3>3. CASE ~v1[r].requestHandled
      <4>1. \A log \in Logs!Logs : log.of # r
        BY <2>1, <2>2, <3>3 DEF Logs!MarkedWithItsRow
      <4> QED BY <1>2, <2>2, <3>1, <4>1 DEF Logs!MarkedWithItsRow
    <3> QED BY <3>2, <3>3
  <2>3. CASE o # r
    BY <1>1, <1>2, <2>1, <2>3 DEF Logs!MarkedWithItsRow
  <2> QED BY <2>2, <2>3
<1>6. Logs!LoggedAsAnswered'
  <2> SUFFICES ASSUME NEW log \in Logs!Logs', log.of # None
               PROVE  /\ log.user = v1'[log.of].user
                      /\ ~v1'[log.of].failed => log.status = v1'[log.of].status
    BY DEF Logs!LoggedAsAnswered
  <2>1. log.of \in Requests
    BY <1>2 DEF Logs!Log
  <2>2. CASE log \in new
    BY <1>1, <2>2
  <2>3. CASE log \in Logs!Logs
    <3>1. /\ log.user = v1[log.of].user
          /\ ~v1[log.of].failed => log.status = v1[log.of].status
      BY <2>3 DEF LogsInv, Logs!LoggedAsAnswered
    <3>2. log.of = r => v1[r].requestHandled
      BY <2>3 DEF LogsInv, Logs!MarkedWithItsRow
    <3> QED BY <1>1, <2>1, <3>1, <3>2
  <2> QED BY <1>2, <2>2, <2>3
<1> QED BY <1>3, <1>4, <1>5, <1>6 DEF LogsInv

LEMMA LogsAudited ==
  ASSUME LogsInv, NEW r \in Requests, NEW req \in Logs!Request,
         NEW by \in {"interceptor", "middleware"}, NEW status \in Logs!Statuses,
         Logs!Audit(r, req, by, status), UNCHANGED <<v3, v4, v5, v6, v7>>,
         req.requestHandled = v1[r].requestHandled, ~req.requestHandled,
         req.stage \in {"answering", "done"}, ~req.failed => status = req.status
  PROVE  LogsInv'
<1> DEFINE next == [req EXCEPT !.requestHandled = TRUE]
           row == [of |-> r, by |-> by, user |-> req.user, status |-> status]
<1>1. v1' = [v1 EXCEPT ![r] = next] /\ v2' = v2 \cup {row}
  BY DEF Logs!Audit
<1>2. /\ next \in Logs!Request /\ next.requestHandled /\ next.user = req.user
      /\ next.failed = req.failed /\ next.status = req.status /\ next.stage = req.stage
  BY DEF Logs!Request
<1>3. {row} \in SUBSET Logs!Log
  BY DEF Logs!Log, Logs!Request
<1>4. row.of = r /\ row.user = next.user /\ (~next.failed => row.status = next.status)
  BY <1>2
<1> HIDE DEF next, row
<1>5. Logs!NoneIsMissed(next)
  BY <1>2 DEF Logs!NoneIsMissed
<1> QED BY <1>1, <1>2, <1>3, <1>4, <1>5, LogsOfOneRequest

(* A step that leaves no row and does not mark the request. *)
LEMMA LogsUnaudited ==
  ASSUME LogsInv, NEW r \in Requests, NEW next \in Logs!Request,
         v1' = [v1 EXCEPT ![r] = next], UNCHANGED <<v2, v3, v4, v5, v6, v7>>,
         Logs!NoneIsMissed(next), next.requestHandled = v1[r].requestHandled,
         v1[r].requestHandled =>
           next.user = v1[r].user /\ next.failed = v1[r].failed /\ next.status = v1[r].status
  PROVE  LogsInv'
<1>1. v2' = v2 \cup {} /\ {} \in SUBSET Logs!Log
  OBVIOUS
<1>2. next.requestHandled <=> v1[r].requestHandled \/ {} # {}
  OBVIOUS
<1> QED BY <1>1, <1>2, LogsOfOneRequest

(* The steps that only move rows: between the buffer, the batches, the     *)
(* table and what is lost.                                                 *)
LEMMA LogsMoved ==
  ASSUME LogsInv, Logs!TypeOK',
         \A r \in Requests : v1'[r] = v1[r] \/ v1'[r] = [v1[r] EXCEPT !.stage = "aborted"],
         \A log \in Logs!Logs' : log.of # None => log \in Logs!Logs,
         \A log \in Logs!Logs' \cup v7' : log.of # None => log \in Logs!Logs \cup v7,
         Logs!Logs \cup v7 \subseteq Logs!Logs' \cup v7'
  PROVE  LogsInv'
<1>1. \A r \in Requests :
        /\ v1'[r].requestHandled = v1[r].requestHandled /\ v1'[r].user = v1[r].user
        /\ v1'[r].status = v1[r].status /\ v1'[r].failed = v1[r].failed
        /\ v1'[r] = v1[r] \/ v1'[r].stage = "aborted"
  <2>1. \A r \in Requests : v1[r] \in Logs!Request
    BY DEF LogsInv, Logs!TypeOK
  <2> QED BY <2>1 DEF Logs!Request
<1>2. \A r \in Requests : Logs!NoneIsMissed(v1[r])'
  BY <1>1 DEF LogsInv, Logs!NoneIsMissed
<1>3. ASSUME NEW r \in Requests
      PROVE  Logs!MarkedWithItsRow(r)'
  <2>1. Logs!MarkedWithItsRow(r) /\ r # None
    BY NoneIsNoRequest DEF LogsInv
  <2> QED BY <1>1, <2>1 DEF Logs!MarkedWithItsRow
<1>4. Logs!LoggedAsAnswered'
  <2> SUFFICES ASSUME NEW log \in Logs!Logs', log.of # None
               PROVE  /\ log.user = v1'[log.of].user
                      /\ ~v1'[log.of].failed => log.status = v1'[log.of].status
    BY DEF Logs!LoggedAsAnswered
  <2>1. log \in Logs!Logs
    OBVIOUS
  <2>3. log.of \in Requests
    BY <2>1 DEF LogsInv, Logs!TypeOK, Logs!Logs, Logs!Log
  <2>2. /\ log.user = v1[log.of].user
        /\ ~v1[log.of].failed => log.status = v1[log.of].status
    BY <2>1 DEF LogsInv, Logs!LoggedAsAnswered
  <2> QED BY <1>1, <2>2, <2>3
<1> QED BY <1>2, <1>3, <1>4 DEF LogsInv

LEMMA LogsSpent ==
  ASSUME LogsInv, NEW bound \in {"warnings", "faults"}, Logs!Spend(bound)
  PROVE  v6' \in [{"warnings", "faults"} -> Nat]
<1>1. v6 \in [{"warnings", "faults"} -> Nat] /\ v6[bound] > 0
  BY DEF LogsInv, Logs!TypeOK, Logs!Spend
<1>2. v6[bound] - 1 \in Nat
  BY <1>1
<1>3. v6' = [v6 EXCEPT ![bound] = v6[bound] - 1]
  BY DEF Logs!Spend
<1> QED BY <1>1, <1>2, <1>3

LogsAnswered(old, user, status, failed) ==
  [old EXCEPT !.stage = "answering", !.user = user, !.status = status, !.failed = failed]

LEMMA LogsAnswer ==
  ASSUME NEW old \in Logs!Request, NEW user \in Users \cup {None}, NEW status \in Logs!Statuses,
         NEW failed \in BOOLEAN
  PROVE  LET next == LogsAnswered(old, user, status, failed)
         IN  /\ next \in Logs!Request /\ next.stage = "answering" /\ next.route = old.route
             /\ next.requestHandled = old.requestHandled
             /\ next.status = status /\ next.failed = failed
BY DEF Logs!Request, LogsAnswered

LEMMA LogsInvStep == LogsInv /\ Logs!Next => LogsInv'
<1> SUFFICES ASSUME LogsInv, Logs!Next
             PROVE  LogsInv'
  OBVIOUS
<1>0. /\ v1 \in [Requests -> Logs!Request]
      /\ v2 \cup v4 \cup v7 \cup UNION v3 \subseteq Logs!Log
      /\ v5 \subseteq Users /\ v6 \in [{"warnings", "faults"} -> Nat]
  BY DEF LogsInv, Logs!TypeOK
<1>1. \A r \in Requests : Logs!NoneIsMissed(v1[r])
  BY DEF LogsInv
<1>2. ASSUME NEW r \in Requests, Logs!Use(r)
      PROVE  LogsInv'
  <2>1. PICK route \in Logs!Routes :
          /\ v1[r].stage = "new"
          /\ v1' = [v1 EXCEPT ![r] = [Logs!NewRequest EXCEPT !.stage = "guards", !.route = route]]
          /\ UNCHANGED <<v2, v3, v4, v5, v6, v7>>
    BY <1>2 DEF Logs!Use, Logs!Step
  <2> DEFINE next == [Logs!NewRequest EXCEPT !.stage = "guards", !.route = route]
  <2>2. next \in Logs!Request /\ next.stage = "guards" /\ next.requestHandled = FALSE
    BY ZenonT(30) DEF Logs!NewRequest, Logs!Request, Logs!Statuses
  <2>3. v1[r].requestHandled = FALSE
    BY <1>0, <1>1, <2>1 DEF Logs!NoneIsMissed, Logs!Request
  <2> HIDE DEF next
  <2>4. Logs!NoneIsMissed(next)
    BY <2>2 DEF Logs!NoneIsMissed
  <2> QED BY <2>1, <2>2, <2>3, <2>4, LogsUnaudited DEF next
<1>3. ASSUME NEW r \in Requests, Logs!Refuse(r)
      PROVE  LogsInv'
  <2>1. PICK user \in v5 \cup {None}, status \in {302, 401} :
          /\ v1[r].route = "unrouted" => user = None /\ status = 401
          /\ Logs!Step(r, "guards",
               [v1[r] EXCEPT !.stage = "answering", !.user = user, !.status = status])
    BY <1>3, Zenon DEF Logs!Refuse
  <2>6. UNCHANGED <<v2, v3, v4, v5, v6, v7>>
    BY <1>3 DEF Logs!Refuse
  <2>7. v1[r].stage = "guards" /\ v1' = [v1 EXCEPT ![r] =
          [v1[r] EXCEPT !.stage = "answering", !.user = user, !.status = status]]
    BY <2>1 DEF Logs!Step
  <2> DEFINE next == [v1[r] EXCEPT !.stage = "answering", !.user = user, !.status = status]
  <2>0. status \in Logs!Statuses /\ user \in Users \cup {None}
    BY <1>0 DEF Logs!Statuses
  <2>2. /\ next \in Logs!Request /\ next.stage = "answering" /\ next.status = status
        /\ next.requestHandled = v1[r].requestHandled
    <3>1. v1[r] \in Logs!Request /\ v1[r].failed \in BOOLEAN
      BY <1>0 DEF Logs!Request
    <3>2. next = LogsAnswered(v1[r], user, status, v1[r].failed)
      BY <3>1 DEF Logs!Request, LogsAnswered
    <3> HIDE DEF next
    <3> QED BY <2>0, <3>1, <3>2, LogsAnswer
  <2>3. v1[r].requestHandled = FALSE
    BY <1>0, <1>1, <2>7 DEF Logs!NoneIsMissed, Logs!Request
  <2>4. status \notin 200 .. 299
    OBVIOUS
  <2> HIDE DEF next
  <2>5. Logs!NoneIsMissed(next)
    BY <2>2, <2>4 DEF Logs!NoneIsMissed
  <2> QED BY <2>2, <2>3, <2>5, <2>6, <2>7, LogsUnaudited DEF next
<1>4. ASSUME NEW r \in Requests, Logs!Intercept(r)
      PROVE  LogsInv'
  <2>1. PICK user \in v5 \cup {None} :
          /\ v1[r].stage = "guards"
          /\ v1' = [v1 EXCEPT ![r] = [v1[r] EXCEPT !.stage = "handler", !.user = user]]
          /\ UNCHANGED <<v2, v3, v4, v5, v6, v7>>
    BY <1>4 DEF Logs!Intercept, Logs!Step
  <2> DEFINE next == [v1[r] EXCEPT !.stage = "handler", !.user = user]
  <2>2. /\ next \in Logs!Request /\ next.stage = "handler"
        /\ next.requestHandled = v1[r].requestHandled
    BY <1>0 DEF Logs!Request
  <2>3. v1[r].requestHandled = FALSE
    BY <1>0, <1>1, <2>1 DEF Logs!NoneIsMissed, Logs!Request
  <2> HIDE DEF next
  <2>4. Logs!NoneIsMissed(next)
    BY <2>2, <2>3 DEF Logs!NoneIsMissed
  <2> QED BY <2>1, <2>2, <2>3, <2>4, LogsUnaudited DEF next
(* The handler is done: the answer is audited unless its route is skipped. *)
<1>5. ASSUME NEW r \in Requests, v1[r].stage = "handler",
             NEW req \in Logs!Request, NEW logged \in Logs!Statuses,
             req.stage = "answering", req.route = v1[r].route,
             req.requestHandled = v1[r].requestHandled, ~req.failed => logged = req.status,
             UNCHANGED <<v3, v4, v5, v6, v7>>,
             IF v1[r].route = "skipped" THEN v1' = [v1 EXCEPT ![r] = req] /\ UNCHANGED v2
             ELSE Logs!Audit(r, req, "interceptor", logged)
      PROVE  LogsInv'
  <2>1. v1[r].requestHandled = FALSE
    BY <1>0, <1>1, <1>5 DEF Logs!NoneIsMissed, Logs!Request
  <2>2. CASE v1[r].route = "skipped"
    <3>1. Logs!NoneIsMissed(req)
      BY <1>5, <2>2 DEF Logs!NoneIsMissed
    <3> QED BY <1>5, <2>1, <2>2, <3>1, LogsUnaudited
  <2>3. CASE v1[r].route # "skipped"
    BY <1>5, <2>1, <2>3, LogsAudited
  <2> QED BY <2>2, <2>3
<1>6. ASSUME NEW r \in Requests, Logs!Returned(r)
      PROVE  LogsInv'
  <2>1. PICK status \in {200, 302} :
          IF v1[r].route = "skipped"
          THEN v1' = [v1 EXCEPT ![r] = Logs!Answer(r, status)] /\ UNCHANGED v2
          ELSE Logs!Audit(r, Logs!Answer(r, status), "interceptor", status)
    BY <1>6 DEF Logs!Returned
  <2>2. v1[r].stage = "handler" /\ UNCHANGED <<v3, v4, v5, v6, v7>>
    BY <1>6 DEF Logs!Returned
  <2>0. status \in Logs!Statuses
    BY DEF Logs!Statuses
  <2> DEFINE req == Logs!Answer(r, status)
  <2>3. /\ req \in Logs!Request /\ req.stage = "answering" /\ req.status = status
        /\ req.requestHandled = v1[r].requestHandled /\ req.route = v1[r].route
    <3>1. v1[r] \in Logs!Request /\ v1[r].user \in Users \cup {None}
      BY <1>0 DEF Logs!Request
    <3>2. PICK failed \in BOOLEAN : failed = v1[r].failed
      BY <1>0 DEF Logs!Request
    <3>3. req = LogsAnswered(v1[r], v1[r].user, status, failed)
      BY <3>1, <3>2 DEF Logs!Request, Logs!Answer, LogsAnswered
    <3> HIDE DEF req
    <3> QED BY <2>0, <3>1, <3>3, LogsAnswer
  <2> HIDE DEF req
  <2> QED BY <1>5, <2>0, <2>1, <2>2, <2>3 DEF req
<1>7. ASSUME NEW r \in Requests, Logs!Thrown(r)
      PROVE  LogsInv'
  <2>1. PICK status \in {400, 500}, query \in BOOLEAN :
          IF v1[r].route = "skipped"
          THEN v1' = [v1 EXCEPT ![r] = [Logs!Answer(r, status) EXCEPT !.failed = query]] /\ UNCHANGED v2
          ELSE Logs!Audit(r, [Logs!Answer(r, status) EXCEPT !.failed = query], "interceptor",
                          IF query THEN 500 ELSE status)
    BY <1>7 DEF Logs!Thrown
  <2>2. v1[r].stage = "handler" /\ UNCHANGED <<v3, v4, v5, v6, v7>>
    BY <1>7 DEF Logs!Thrown
  <2> DEFINE req == [Logs!Answer(r, status) EXCEPT !.failed = query]
             logged == IF query THEN 500 ELSE status
  <2>0. status \in Logs!Statuses /\ logged \in Logs!Statuses /\ (~query => logged = status)
    BY DEF Logs!Statuses
  <2>3. /\ req \in Logs!Request /\ req.stage = "answering" /\ req.status = status
        /\ req.requestHandled = v1[r].requestHandled /\ req.route = v1[r].route
        /\ req.failed = query
    <3>1. v1[r] \in Logs!Request /\ v1[r].user \in Users \cup {None}
      BY <1>0 DEF Logs!Request
    <3>2. req = LogsAnswered(v1[r], v1[r].user, status, query)
      BY <3>1 DEF Logs!Request, Logs!Answer, LogsAnswered
    <3> HIDE DEF req
    <3> QED BY <2>0, <3>1, <3>2, LogsAnswer
  <2> HIDE DEF req, logged
  <2>4. ~req.failed => logged = req.status
    BY <2>0, <2>3
  <2>5. IF v1[r].route = "skipped" THEN v1' = [v1 EXCEPT ![r] = req] /\ UNCHANGED v2
        ELSE Logs!Audit(r, req, "interceptor", logged)
    BY <2>1, Zenon DEF req, logged
  <2> QED BY <1>5, <2>0, <2>2, <2>3, <2>4, <2>5
<1>8. ASSUME NEW r \in Requests, Logs!Abort(r)
      PROVE  LogsInv'
  <2> DEFINE next == [v1[r] EXCEPT !.stage = "aborted"]
  <2>1. v1' = [v1 EXCEPT ![r] = next] /\ UNCHANGED <<v2, v3, v4, v5, v6, v7>>
    BY <1>8 DEF Logs!Abort, Logs!Step
  <2>2. /\ next \in Logs!Request /\ next.stage = "aborted" /\ next.status = v1[r].status
        /\ next.requestHandled = v1[r].requestHandled /\ next.user = v1[r].user
        /\ next.failed = v1[r].failed
    BY <1>0 DEF Logs!Request
  <2> HIDE DEF next
  <2>3. Logs!NoneIsMissed(next)
    BY <2>2 DEF Logs!NoneIsMissed
  <2> QED BY <2>1, <2>2, <2>3, LogsUnaudited
<1>9. ASSUME NEW r \in Requests, Logs!Finish(r)
      PROVE  LogsInv'
  <2> DEFINE req == [v1[r] EXCEPT !.stage = "done"]
  <2>1. /\ v1[r].stage = "answering" /\ UNCHANGED <<v3, v4, v5, v6, v7>>
        /\ IF req.requestHandled \/ req.status \in 200 .. 299
           THEN v1' = [v1 EXCEPT ![r] = req] /\ UNCHANGED v2
           ELSE Logs!Audit(r, req, "middleware", req.status)
    BY <1>9 DEF Logs!Finish
  <2>2. /\ req \in Logs!Request /\ req.stage = "done" /\ req.status = v1[r].status
        /\ req.requestHandled = v1[r].requestHandled /\ req.user = v1[r].user
        /\ req.failed = v1[r].failed /\ req.route = v1[r].route /\ req.status \in Logs!Statuses
    BY <1>0 DEF Logs!Request
  <2> HIDE DEF req
  <2>3. CASE req.requestHandled \/ req.status \in 200 .. 299
    <3>1. Logs!NoneIsMissed(v1[r])
      BY <1>1
    <3>2. Logs!NoneIsMissed(req)
      BY <2>1, <2>2, <2>3, <3>1 DEF Logs!NoneIsMissed
    <3> QED BY <2>1, <2>2, <2>3, <3>2, LogsUnaudited
  <2>4. CASE ~(req.requestHandled \/ req.status \in 200 .. 299)
    BY <2>1, <2>2, <2>4, LogsAudited
  <2> QED BY <2>3, <2>4
<1>10. CASE Logs!ApplicationLog
  <2> DEFINE row == [of |-> None, by |-> "logger", user |-> None, status |-> None]
  <2>1. v2' = v2 \cup {row} /\ UNCHANGED <<v1, v3, v4, v5, v7>> /\ Logs!Spend("warnings")
    BY <1>10 DEF Logs!ApplicationLog
  <2>2. row \in Logs!Log /\ row.of = None
    BY DEF Logs!Log, Logs!Statuses
  <2> HIDE DEF row
  <2>3. Logs!TypeOK'
    BY <1>0, <2>1, <2>2, LogsSpent DEF Logs!TypeOK
  <2>4. Logs!Logs' = Logs!Logs \cup {row}
    BY <2>1 DEF Logs!Logs
  <2> QED BY <2>1, <2>2, <2>3, <2>4, LogsMoved
<1>11. CASE Logs!SaveAccumulatedLogs
  <2>1. v3' = v3 \cup {v2} /\ v2' = {} /\ UNCHANGED <<v1, v4, v5, v6, v7>>
    BY <1>11 DEF Logs!SaveAccumulatedLogs
  <2>2. UNION v3' = v2 \cup UNION v3
    BY <2>1
  <2>3. Logs!TypeOK'
    BY <1>0, <2>1, <2>2 DEF Logs!TypeOK
  <2>4. Logs!Logs' = Logs!Logs
    BY <2>1, <2>2 DEF Logs!Logs
  <2> QED BY <2>1, <2>3, <2>4, LogsMoved
<1>12. ASSUME NEW rows \in v3, Logs!Saved(rows)
       PROVE  LogsInv'
  <2>1. v4' = v4 \cup rows /\ v3' = v3 \ {rows} /\ UNCHANGED <<v1, v2, v5, v6, v7>>
    BY <1>12 DEF Logs!Saved
  <2>2. rows \subseteq UNION v3 /\ UNION v3' \subseteq UNION v3 /\ UNION v3 \subseteq rows \cup UNION v3'
    BY <2>1
  <2>3. Logs!TypeOK'
    BY <1>0, <2>1, <2>2 DEF Logs!TypeOK
  <2>4. Logs!Logs' = Logs!Logs
    BY <2>1, <2>2 DEF Logs!Logs
  <2> QED BY <2>1, <2>3, <2>4, LogsMoved
<1>13. ASSUME NEW rows \in v3, Logs!SaveFails(rows)
       PROVE  LogsInv'
  <2>1. v7' = v7 \cup rows /\ v3' = v3 \ {rows} /\ UNCHANGED <<v1, v2, v4, v5>>
    BY <1>13 DEF Logs!SaveFails
  <2>2. rows \subseteq UNION v3 /\ UNION v3' \subseteq UNION v3 /\ UNION v3 \subseteq rows \cup UNION v3'
    BY <2>1
  <2>3. v6' \in [{"warnings", "faults"} -> Nat]
    BY <1>0, <1>13, LogsSpent DEF Logs!SaveFails
  <2>4. Logs!TypeOK'
    BY <1>0, <2>1, <2>2, <2>3 DEF Logs!TypeOK
  <2>5. Logs!Logs' \subseteq Logs!Logs /\ Logs!Logs' \cup v7' = Logs!Logs \cup v7
    BY <2>1, <2>2 DEF Logs!Logs
  <2> QED BY <2>1, <2>4, <2>5, LogsMoved
<1>14. ASSUME NEW u \in Users, Logs!DeleteUser(u)
       PROVE  LogsInv'
  <2>1. v5' \subseteq v5 /\ UNCHANGED <<v1, v2, v3, v4, v6, v7>>
    BY <1>14 DEF Logs!DeleteUser
  <2>2. Logs!TypeOK'
    BY <1>0, <2>1 DEF Logs!TypeOK
  <2>3. Logs!Logs' = Logs!Logs
    BY <2>1 DEF Logs!Logs
  <2> QED BY <2>1, <2>2, <2>3, LogsMoved
<1>15. CASE Logs!End
  <2>1. PICK done \in SUBSET {rows \in v3 : Logs!Known(rows)} :
          v4' = v4 \cup UNION done /\ v7' = v7 \cup v2 \cup UNION (v3 \ done)
    BY <1>15 DEF Logs!End
  <2>2. /\ v2' = {} /\ v3' = {} /\ UNCHANGED v5 /\ Logs!Spend("faults")
        /\ v1' = [r \in Requests |->
             IF v1[r].stage \in {"guards", "handler", "answering"}
             THEN [v1[r] EXCEPT !.stage = "aborted"] ELSE v1[r]]
    BY <1>15 DEF Logs!End
  <2>3. UNION done \subseteq UNION v3 /\ UNION (v3 \ done) \subseteq UNION v3
        /\ UNION v3 \subseteq (UNION done) \cup UNION (v3 \ done) /\ UNION v3' = {}
    BY <2>1, <2>2
  <2>4. \A r \in Requests : [v1[r] EXCEPT !.stage = "aborted"] \in Logs!Request
    BY <1>0 DEF Logs!Request
  <2>5. v1' \in [Requests -> Logs!Request]
    BY <1>0, <2>2, <2>4
  <2>6. v6' \in [{"warnings", "faults"} -> Nat]
    BY <2>2, LogsSpent
  <2>7. Logs!TypeOK'
    BY <1>0, <2>1, <2>2, <2>3, <2>5, <2>6 DEF Logs!TypeOK
  <2>8. Logs!Logs' \subseteq Logs!Logs /\ Logs!Logs' \cup v7' = Logs!Logs \cup v7
    BY <2>1, <2>2, <2>3 DEF Logs!Logs
  <2> QED BY <2>2, <2>7, <2>8, LogsMoved
<1> QED BY <1>2, <1>3, <1>4, <1>6, <1>7, <1>8, <1>9, <1>10, <1>11, <1>12, <1>13, <1>14, <1>15
        DEF Logs!Next

LEMMA LogsIsKept ==
  (part = "logs" => LogsInv) /\ [Next]_<<part, v1, v2, v3, v4, v5, v6, v7, v8, v9, v10>>
    => (part = "logs" => LogsInv)'
<1> SUFFICES ASSUME part = "logs" => LogsInv,
                    [Next]_<<part, v1, v2, v3, v4, v5, v6, v7, v8, v9, v10>>, part' = "logs"
             PROVE  LogsInv'
  OBVIOUS
<1>1. part = "logs" /\ (Logs!Next \/ UNCHANGED <<v1, v2, v3, v4, v5, v6, v7>>)
  BY DEF Next, LogsStep, AuditStep, ChartsStep, CardsStep, OutboundStep, UptimeStep, SettingsStep,
         TokensStep, SocketsStep
<1>2. CASE UNCHANGED <<v1, v2, v3, v4, v5, v6, v7>>
  BY <1>1, <1>2 DEF LogsInv, Logs!TypeOK, Logs!NoneIsMissed, Logs!MarkedWithItsRow,
     Logs!LoggedAsAnswered, Logs!Logs
<1> QED BY <1>1, <1>2, LogsInvStep

LEMMA LogsStarts == Init => (part = "logs" => LogsInv)
BY LogsInvInit DEF Init

(* At most one element makes at most one row. *)
LEMMA OneOrNone ==
  ASSUME NEW S, \A x, y \in S : x = y
  PROVE  Logs!Cardinality(S) <= 1
<1>1. \A T : Logs!Cardinality(T) = Cardinality(T)
  BY DEF Logs!Cardinality, Cardinality
<1>2. CASE S = {}
  BY <1>1, <1>2, FS_EmptySet
<1>3. CASE S # {}
  <2>1. PICK x \in S : S = {x}
    BY <1>3
  <2>2. Cardinality({x}) = 1
    BY FS_Singleton
  <2> QED BY <1>1, <2>1, <2>2
<1> QED BY <1>2, <1>3

LEMMA LogsInvSuffices == LogsInv => Logs!LoggedOnce /\ Logs!EveryAnswerIsLogged
<1> SUFFICES ASSUME LogsInv
             PROVE  Logs!LoggedOnce /\ Logs!EveryAnswerIsLogged
  OBVIOUS
<1>1. ASSUME NEW r \in Requests
      PROVE  Logs!Cardinality(Logs!LogsOf(r)) <= 1
  <2>1. \A log, other \in Logs!LogsOf(r) : log = other
    BY DEF LogsInv, Logs!MarkedWithItsRow, Logs!LogsOf
  <2> QED BY <2>1, OneOrNone
<1>2. ASSUME NEW r \in Requests, Logs!ToBeLogged(r)
      PROVE  Logs!LogsOf(r) # {} \/ \E log \in v7 : log.of = r
  <2>1. v1[r].requestHandled
    BY <1>2 DEF LogsInv, Logs!ToBeLogged, Logs!NoneIsMissed
  <2>2. PICK log \in Logs!Logs \cup v7 : log.of = r
    BY <2>1 DEF LogsInv, Logs!MarkedWithItsRow
  <2> QED BY <2>2 DEF Logs!LogsOf
<1> QED BY <1>1, <1>2 DEF Logs!LoggedOnce, Logs!EveryAnswerIsLogged

(* Every request whose answer has to be logged leaves exactly one row, with*)
(* the status and the user of the answer, whichever of the middleware and  *)
(* the interceptor sees it first and however saves overlap and fail.       *)
(* (EventLogsService, EventLogMiddleware, EventLogInterceptor)             *)
THEOREM EveryAnswerLeavesOneRow == Spec => []AnswersAreLogged
<1>1. (part = "logs" => LogsInv) => AnswersAreLogged
  BY LogsInvSuffices DEF LogsInv, AnswersAreLogged
<1> QED BY <1>1, LogsStarts, LogsIsKept, PTL DEF Spec

-----------------------------------------------------------------------------
(* Audit trail: rows is v1, used v2, trail v3, operation v4, overlapped v5 *)
(* and halfway v6                                                          *)

AuditInv ==
  /\ Audit!TypeOK
  /\ Audit!UnusedIsUntouched
  /\ \A id \in RecordIds \ (v5 \cup v6) : Audit!AloneItContinues(id)
  /\ \A id \in v2 \ v6 : Audit!IsLogged(id) \/ \E q \in Callers : Audit!Owes(q, id)

LEMMA AuditInvInit == Audit!Init => AuditInv
<1> SUFFICES ASSUME Audit!Init
             PROVE  AuditInv
  OBVIOUS
<1> USE DEF Audit!Init
<1>1. Audit!TypeOK
  BY EmptySeq DEF Audit!TypeOK, Audit!Operations
<1>2. \A q \in Callers : Audit!IdsOf(q) = {}
  BY DEF Audit!IdsOf, Audit!NoOperation
<1>3. Audit!Busy = {}
  BY <1>2 DEF Audit!Busy
<1>4. Audit!UnusedIsUntouched
  BY <1>3 DEF Audit!UnusedIsUntouched
<1>5. ASSUME NEW id \in RecordIds
      PROVE  Audit!AloneItContinues(id)
  <2>1. Len(v3) = 0 /\ DOMAIN v3 = {} /\ v1[id] = None
    OBVIOUS
  <2> QED BY <1>2, <2>1 DEF Audit!AloneItContinues, Audit!Continues, Audit!Leaves
<1> QED BY <1>1, <1>4, <1>5 DEF AuditInv

(* What the stage of an operation tells of it. *)
LEMMA AuditOperation ==
  ASSUME NEW op \in Audit!Operations
  PROVE  /\ op.stage \in {"idle", "done", "unaudited", "remove", "save", "reread", "audit"}
         /\ op.stage \in {"remove", "save", "reread"} =>
              op.ids = {op.id} /\ op.id \in RecordIds /\ op.found \in Audit!Records
         /\ op.stage = "save" => op.dto \in Audit!Changes
         /\ op.stage = "audit" =>
              op.logs[1] \in Audit!Logs /\ op.ids = {op.logs[1].id} /\ op.logs = <<op.logs[1]>>
         /\ op.stage = "unaudited" => op.ids = RecordIds
<1>1. CASE op = Audit!NoOperation
  BY <1>1 DEF Audit!NoOperation
<1>2. CASE op = Audit!Done
  BY <1>2 DEF Audit!Done
<1>3. CASE op = [stage |-> "unaudited", ids |-> RecordIds]
  BY <1>3
<1>4. CASE op \in Audit!Removals
  BY <1>4 DEF Audit!Removals
<1>5. CASE op \in Audit!Updates
  BY <1>5 DEF Audit!Updates
<1>6. ASSUME NEW log \in Audit!Logs, op = [stage |-> "audit", ids |-> {log.id}, logs |-> <<log>>]
      PROVE  /\ op.stage = "audit" /\ op.logs[1] \in Audit!Logs
             /\ op.ids = {op.logs[1].id} /\ op.logs = <<op.logs[1]>>
  BY <1>6
<1> QED BY <1>1, <1>2, <1>3, <1>4, <1>5, <1>6
        DEF Audit!Operations, Audit!Audits

LEMMA AuditOperations ==
  /\ \A id \in RecordIds, row \in Audit!Records :
       [stage |-> "remove", ids |-> {id}, id |-> id, found |-> row] \in Audit!Operations
  /\ \A stage \in {"save", "reread"}, id \in RecordIds, row \in Audit!Records, dto \in Audit!Changes :
       [stage |-> stage, ids |-> {id}, id |-> id, found |-> row, dto |-> dto] \in Audit!Operations
  /\ \A log \in Audit!Logs :
       [stage |-> "audit", ids |-> {log.id}, logs |-> <<log>>] \in Audit!Operations
<1>1. ASSUME NEW id \in RecordIds, NEW row \in Audit!Records
      PROVE  [stage |-> "remove", ids |-> {id}, id |-> id, found |-> row] \in Audit!Removals
  BY DEF Audit!Removals
<1>2. ASSUME NEW stage \in {"save", "reread"}, NEW id \in RecordIds, NEW row \in Audit!Records,
             NEW dto \in Audit!Changes
      PROVE  [stage |-> stage, ids |-> {id}, id |-> id, found |-> row, dto |-> dto] \in Audit!Updates
  BY DEF Audit!Updates
<1>3. \A log \in Audit!Logs : [stage |-> "audit", ids |-> {log.id}, logs |-> <<log>>] \in Audit!Audits
  BY DEF Audit!Audits
<1> QED BY <1>1, <1>2, <1>3, Zenon DEF Audit!Operations

LEMMA AuditTypes ==
  ASSUME AuditInv
  PROVE  /\ v1 \in [RecordIds -> Audit!Records \cup {None}] /\ v2 \cup v5 \cup v6 \subseteq RecordIds
         /\ v3 \in Seq(Audit!Logs) /\ Len(v3) \in Nat /\ DOMAIN v3 = 1 .. Len(v3)
         /\ v4 \in [Callers -> Audit!Operations]
         /\ \A q \in Callers : v4[q] \in Audit!Operations
         /\ \A q \in Callers : Audit!IdsOf(q) \subseteq Audit!Busy
         /\ Audit!Busy \subseteq v2
         /\ None \notin Audit!Records
BY ConstantsAssumption, LenProperties
DEF AuditInv, Audit!TypeOK, Audit!UnusedIsUntouched, Audit!Busy, Audit!Records

(* Whose ids are whose, when q goes on to op. *)
LEMMA AuditIds ==
  ASSUME AuditInv, NEW q \in Callers, NEW op, v4' = [v4 EXCEPT ![q] = op]
  PROVE  /\ v4'[q] = op
         /\ \A p \in Callers \ {q} : v4'[p] = v4[p] /\ Audit!IdsOf(p)' = Audit!IdsOf(p)
         /\ Audit!IdsOf(q)' = IF op.stage \in {"idle", "done"} THEN {} ELSE op.ids
         /\ \A id : id \in Audit!Busy' <=> \E p \in Callers : id \in Audit!IdsOf(p)'
         /\ \A id : id \in Audit!Busy <=> \E p \in Callers : id \in Audit!IdsOf(p)
<1>1. v4'[q] = op /\ \A p \in Callers \ {q} : v4'[p] = v4[p]
  BY AuditTypes
<1> QED BY <1>1 DEF Audit!IdsOf, Audit!Busy

-----------------------------------------------------------------------------
(* What a log of another record, or of this one, changes of its trail. *)

LEMMA AuditTrailKept ==
  ASSUME NEW id, v3 \in Seq(Audit!Logs),
         \/ v3' = v3
         \/ \E log \in Audit!Logs : log.id # id /\ v3' = Append(v3, log)
  PROVE  /\ \A state : Audit!Leaves(id, Len(v3), state) => Audit!Leaves(id, Len(v3), state)'
         /\ Audit!Continues(id) => Audit!Continues(id)'
<1>0. Len(v3) \in Nat /\ DOMAIN v3 = 1 .. Len(v3)
  BY LenProperties
<1>1. CASE v3' = v3
  BY <1>1 DEF Audit!Leaves, Audit!Continues
<1>2. ASSUME NEW log \in Audit!Logs, log.id # id, v3' = Append(v3, log)
      PROVE  /\ \A state : Audit!Leaves(id, Len(v3), state) => Audit!Leaves(id, Len(v3), state)'
             /\ Audit!Continues(id) => Audit!Continues(id)'
  <2>1. /\ Len(v3') = Len(v3) + 1 /\ v3'[Len(v3) + 1] = log /\ DOMAIN v3' = 1 .. Len(v3) + 1
        /\ \A k \in 1 .. Len(v3) : v3'[k] = v3[k]
    BY <1>2, AppendProperties, LenProperties
  <2>2. \A k \in 1 .. Len(v3) + 1 : k \in 1 .. Len(v3) \/ k = Len(v3) + 1
    BY <1>0
  <2>3. ASSUME NEW state, Audit!Leaves(id, Len(v3), state)
        PROVE  Audit!Leaves(id, Len(v3), state)'
    <3>1. CASE state = None /\ \A m \in 1 .. Len(v3) : v3[m].id # id
      BY <1>2, <2>1, <2>2, <3>1 DEF Audit!Leaves
    <3>2. ASSUME NEW m \in 1 .. Len(v3), v3[m].id = id, v3[m].new = state,
                 \A k \in m + 1 .. Len(v3) : v3[k].id # id
          PROVE  Audit!Leaves(id, Len(v3), state)'
      <4>1. m \in 1 .. Len(v3) + 1 /\ v3'[m] = v3[m]
        BY <1>0, <2>1
      <4>2. ASSUME NEW k \in m + 1 .. Len(v3) + 1
            PROVE  v3'[k].id # id
        <5>1. (k \in m + 1 .. Len(v3) /\ k \in 1 .. Len(v3)) \/ k = Len(v3) + 1
          BY <1>0
        <5> QED BY <1>2, <2>1, <3>2, <5>1
      <4> QED BY <2>1, <3>2, <4>1, <4>2 DEF Audit!Leaves
    <3> QED BY <2>3, <3>1, <3>2 DEF Audit!Leaves
  <2>4. ASSUME Audit!Continues(id), NEW n \in 1 .. Len(v3) + 1, v3'[n].id = id
        PROVE  Audit!Leaves(id, n - 1, v3[n].old)'
    <3>1. n \in 1 .. Len(v3) /\ v3'[n] = v3[n]
      BY <1>2, <2>1, <2>2, <2>4
    <3>2. Audit!Leaves(id, n - 1, v3[n].old)
      BY <1>0, <2>4, <3>1 DEF Audit!Continues
    <3>3. \A k \in 1 .. n - 1 : v3'[k] = v3[k]
      BY <1>0, <2>1, <3>1
    <3>4. \A m \in 1 .. n - 1 : \A k \in m + 1 .. n - 1 : k \in 1 .. n - 1
      OBVIOUS
    <3> QED BY <3>1, <3>2, <3>3, <3>4 DEF Audit!Leaves
  <2> QED BY <2>1, <2>3, <2>4 DEF Audit!Continues
<1> QED BY <1>1, <1>2

LEMMA AuditTrailGoesOn ==
  ASSUME NEW log \in Audit!Logs, v3 \in Seq(Audit!Logs), v3' = Append(v3, log),
         Audit!Continues(log.id), Audit!Leaves(log.id, Len(v3), log.old)
  PROVE  /\ Audit!Leaves(log.id, Len(v3), log.new)'
         /\ Audit!Continues(log.id)'
<1>0. Len(v3) \in Nat /\ DOMAIN v3 = 1 .. Len(v3)
  BY LenProperties
<1>1. /\ Len(v3') = Len(v3) + 1 /\ v3'[Len(v3) + 1] = log /\ DOMAIN v3' = 1 .. Len(v3) + 1
      /\ \A k \in 1 .. Len(v3) : v3'[k] = v3[k]
  BY AppendProperties, LenProperties
<1>2. Audit!Leaves(log.id, Len(v3), log.new)'
  <2>1. Len(v3') \in 1 .. Len(v3') /\ \A k \in Len(v3') + 1 .. Len(v3') : FALSE
    BY <1>0, <1>1
  <2>2. v3'[Len(v3')] = log
    BY <1>1
  <2> QED BY <2>1, <2>2 DEF Audit!Leaves
<1>3. ASSUME NEW n \in 1 .. Len(v3) + 1, v3'[n].id = log.id
      PROVE  Audit!Leaves(log.id, n - 1, v3[n].old)'
  <2>1. Audit!Leaves(log.id, n - 1, v3'[n].old)
    <3>1. CASE n \in 1 .. Len(v3)
      BY <1>0, <1>1, <1>3, <3>1 DEF Audit!Continues
    <3>2. CASE n = Len(v3) + 1
      BY <1>0, <1>1, <3>2
    <3> QED BY <1>0, <3>1, <3>2
  <2>2. \A k \in 1 .. n - 1 : v3'[k] = v3[k]
    BY <1>0, <1>1
  <2>3. \A m \in 1 .. n - 1 : \A k \in m + 1 .. n - 1 : k \in 1 .. n - 1
    OBVIOUS
  <2> QED BY <2>1, <2>2, <2>3 DEF Audit!Leaves
<1> QED BY <1>1, <1>2, <1>3 DEF Audit!Continues

-----------------------------------------------------------------------------
(* The steps *)

AuditTold(id) ==
  /\ id \in RecordIds \ (v5 \cup v6) => Audit!AloneItContinues(id)
  /\ id \in v2 \ v6 => Audit!IsLogged(id) \/ \E q \in Callers : Audit!Owes(q, id)

LEMMA AuditToldOfAll ==
  AuditInv <=> Audit!TypeOK /\ Audit!UnusedIsUntouched /\ \A id \in RecordIds : AuditTold(id)
BY DEF AuditInv, AuditTold, Audit!TypeOK

(* A step of q says nothing of a record that q does not work on, before or *)
(* after it.                                                               *)
LEMMA AuditOther ==
  ASSUME AuditInv, NEW q \in Callers, NEW op, v4' = [v4 EXCEPT ![q] = op],
         NEW id \in RecordIds, id \notin Audit!IdsOf(q), id \notin Audit!IdsOf(q)',
         v1'[id] = v1[id], id \in v2' => id \in v2, v5 \subseteq v5', v6 \subseteq v6',
         \/ v3' = v3
         \/ \E log \in Audit!Logs : log.id # id /\ v3' = Append(v3, log)
  PROVE  AuditTold(id)'
<1>0. /\ v3 \in Seq(Audit!Logs) /\ DOMAIN v3 = 1 .. Len(v3) /\ Len(v3) \in Nat
  BY AuditTypes
<1>1. \A p \in Callers \ {q} : v4'[p] = v4[p] /\ Audit!IdsOf(p)' = Audit!IdsOf(p)
  BY AuditIds
<1>2. id \in Audit!Busy' <=> id \in Audit!Busy
  <2>1. (\E p \in Callers : id \in Audit!IdsOf(p)') <=> \E p \in Callers : id \in Audit!IdsOf(p)
    BY <1>1
  <2>2. id \in Audit!Busy' <=> \E p \in Callers : id \in Audit!IdsOf(p)'
    BY AuditIds
  <2>3. id \in Audit!Busy <=> \E p \in Callers : id \in Audit!IdsOf(p)
    BY AuditIds
  <2> QED BY <2>1, <2>2, <2>3
<1>3. /\ \A state : Audit!Leaves(id, Len(v3), state) => Audit!Leaves(id, Len(v3), state)'
      /\ Audit!Continues(id) => Audit!Continues(id)'
  BY <1>0, AuditTrailKept
<1>4. ASSUME id \in RecordIds \ (v5' \cup v6')
      PROVE  Audit!AloneItContinues(id)'
  <2>1. Audit!AloneItContinues(id)
    BY <1>4 DEF AuditInv
  <2>2. id \notin Audit!Busy' => Audit!Leaves(id, Len(v3), v1[id])'
    <3>1. id \notin Audit!Busy' => Audit!Leaves(id, Len(v3), v1[id])
      BY <1>2, <2>1 DEF Audit!AloneItContinues
    <3>2. PICK state : state = v1[id]
      OBVIOUS
    <3>3. id \notin Audit!Busy' => Audit!Leaves(id, Len(v3), state)'
      BY <1>3, <3>1, <3>2
    <3> QED BY <3>2, <3>3
  <2>3. ASSUME NEW p \in Callers, id \in Audit!IdsOf(p)'
        PROVE  /\ \A o \in Callers : id \in Audit!IdsOf(o)' => o = p
               /\ v4'[p].stage \in {"save", "remove"} => Audit!Leaves(id, Len(v3), v1[id])'
               /\ v4'[p].stage \in {"save", "remove", "reread"} => Audit!Leaves(id, Len(v3), v4[p].found)'
               /\ v4'[p].stage = "audit" =>
                    Audit!Leaves(id, Len(v3), v4[p].logs[1].old)' /\ v4'[p].logs[1].new = v1'[id]
    <3>1. p # q /\ v4'[p] = v4[p] /\ id \in Audit!IdsOf(p)
      BY <1>1, <2>3
    <3>2. /\ \A o \in Callers : id \in Audit!IdsOf(o) => o = p
          /\ v4[p].stage \in {"save", "remove"} => Audit!Leaves(id, Len(v3), v1[id])
          /\ v4[p].stage \in {"save", "remove", "reread"} => Audit!Leaves(id, Len(v3), v4[p].found)
          /\ v4[p].stage = "audit" =>
               Audit!Leaves(id, Len(v3), v4[p].logs[1].old) /\ v4[p].logs[1].new = v1[id]
      BY <2>1, <3>1 DEF Audit!AloneItContinues
    <3>3. \A o \in Callers : id \in Audit!IdsOf(o)' => o = p
      BY <1>1, <3>2
    <3>4. v4'[p].stage \in {"save", "remove"} => Audit!Leaves(id, Len(v3), v1[id])'
      <4>1. PICK state : state = v1[id]
        OBVIOUS
      <4>2. v4'[p].stage \in {"save", "remove"} => Audit!Leaves(id, Len(v3), state)'
        BY <1>3, <3>1, <3>2, <4>1
      <4> QED BY <4>1, <4>2
    <3>5. v4'[p].stage \in {"save", "remove", "reread"} => Audit!Leaves(id, Len(v3), v4[p].found)'
      <4>1. PICK state : state = v4[p].found
        OBVIOUS
      <4>2. v4'[p].stage \in {"save", "remove", "reread"} => Audit!Leaves(id, Len(v3), state)'
        BY <1>3, <3>1, <3>2, <4>1
      <4> QED BY <3>1, <4>1, <4>2
    <3>6. v4'[p].stage = "audit" =>
            Audit!Leaves(id, Len(v3), v4[p].logs[1].old)' /\ v4'[p].logs[1].new = v1'[id]
      <4>1. PICK state : state = v4[p].logs[1].old
        OBVIOUS
      <4>2. v4'[p].stage = "audit" => Audit!Leaves(id, Len(v3), state)'
        BY <1>3, <3>1, <3>2, <4>1
      <4>3. v4'[p].stage = "audit" => v4'[p].logs[1].new = v1'[id]
        BY <1>3, <3>1, <3>2
      <4> QED BY <3>1, <4>1, <4>2, <4>3
    <3> QED BY <3>3, <3>4, <3>5, <3>6
  <2> QED BY <1>3, <2>1, <2>2, <2>3 DEF Audit!AloneItContinues
<1>5. ASSUME id \in v2' \ v6'
      PROVE  Audit!IsLogged(id)' \/ \E p \in Callers : Audit!Owes(p, id)'
  <2>1. Audit!IsLogged(id) \/ \E p \in Callers : Audit!Owes(p, id)
    BY <1>5 DEF AuditInv
  <2>2. CASE Audit!IsLogged(id)
    <3>1. PICK n \in 1 .. Len(v3) : v3[n].id = id /\ v3[n].new = v1[id]
      BY <1>0, <2>2 DEF Audit!IsLogged
    <3>2. n \in DOMAIN v3' /\ v3'[n] = v3[n]
      BY <1>0, <3>1, AppendProperties, LenProperties
    <3> QED BY <3>1, <3>2 DEF Audit!IsLogged
  <2>3. ASSUME NEW p \in Callers, Audit!Owes(p, id)
        PROVE  Audit!Owes(p, id)'
    BY <1>1, <2>3 DEF Audit!Owes
  <2> QED BY <2>1, <2>2, <2>3
<1> QED BY <1>4, <1>5 DEF AuditTold

(* The same of a record that q begins to work on only: what was told of it *)
(* by the others still is, but for who is alone with it.                   *)
LEMMA AuditStillLogged ==
  ASSUME AuditInv, NEW q \in Callers, NEW op, v4' = [v4 EXCEPT ![q] = op],
         NEW id \in RecordIds, v1'[id] = v1[id], v3' = v3, v6 \subseteq v6', id \in v2' => id \in v2,
         ~Audit!Owes(q, id)
  PROVE  id \in v2' \ v6' => Audit!IsLogged(id)' \/ \E p \in Callers : Audit!Owes(p, id)'
<1> SUFFICES ASSUME id \in v2' \ v6'
             PROVE  Audit!IsLogged(id)' \/ \E p \in Callers : Audit!Owes(p, id)'
  OBVIOUS
<1>1. Audit!IsLogged(id) \/ \E p \in Callers : Audit!Owes(p, id)
  BY DEF AuditInv
<1>2. CASE Audit!IsLogged(id)
  BY <1>2 DEF Audit!IsLogged
<1>3. ASSUME NEW p \in Callers, Audit!Owes(p, id)
      PROVE  Audit!Owes(p, id)'
  <2>1. p # q
    BY <1>3
  <2>2. v4'[p] = v4[p] /\ Audit!IdsOf(p)' = Audit!IdsOf(p)
    BY <2>1, AuditIds
  <2> QED BY <1>3, <2>2 DEF Audit!Owes
<1> QED BY <1>1, <1>2, <1>3

(* What it takes for the one operation on a record. *)
LEMMA AuditAlone ==
  ASSUME AuditInv, NEW q \in Callers, NEW op, v4' = [v4 EXCEPT ![q] = op], NEW id \in RecordIds,
         id \in Audit!IdsOf(q)',
         \A p \in Callers : id \in Audit!IdsOf(p)' => p = q,
         Audit!Continues(id)',
         op.stage \in {"save", "remove"} => Audit!Leaves(id, Len(v3), v1[id])',
         op.stage \in {"save", "remove", "reread"} => Audit!Leaves(id, Len(v3), v4[q].found)',
         op.stage = "audit" =>
           Audit!Leaves(id, Len(v3), v4[q].logs[1].old)' /\ op.logs[1].new = v1'[id]
  PROVE  Audit!AloneItContinues(id)'
<1>1. v4'[q] = op /\ id \in Audit!Busy'
  BY AuditIds
<1>2. ASSUME NEW p \in Callers, id \in Audit!IdsOf(p)'
      PROVE  p = q
  BY <1>2
<1> QED BY <1>1, <1>2 DEF Audit!AloneItContinues

LEMMA AuditStepOfOne ==
  ASSUME AuditInv, NEW q \in Callers, NEW op \in Audit!Operations, v4' = [v4 EXCEPT ![q] = op],
         v1' \in [RecordIds -> Audit!Records \cup {None}],
         v2 \subseteq v2', v5 \subseteq v5', v6 \subseteq v6', v2' \cup v5' \cup v6' \subseteq RecordIds,
         Audit!IdsOf(q)' \subseteq v2',
         \A id \in RecordIds \ (Audit!IdsOf(q) \cup Audit!IdsOf(q)') :
           v1'[id] = v1[id] /\ (id \in v2' => id \in v2),
         \/ v3' = v3
         \/ \E log \in Audit!Logs : log.id \in Audit!IdsOf(q) /\ v3' = Append(v3, log),
         \A id \in Audit!IdsOf(q) \cup Audit!IdsOf(q)' : AuditTold(id)'
  PROVE  AuditInv'
<1>0. /\ v3 \in Seq(Audit!Logs) /\ DOMAIN v3 = 1 .. Len(v3) /\ Len(v3) \in Nat
      /\ v4 \in [Callers -> Audit!Operations] /\ Audit!IdsOf(q) \subseteq v2
  BY AuditTypes
<1>1. \A p \in Callers \ {q} : Audit!IdsOf(p)' = Audit!IdsOf(p) /\ Audit!IdsOf(p) \subseteq v2
  BY AuditIds, AuditTypes
<1>2. /\ v3' \in Seq(Audit!Logs)
      /\ \A n \in DOMAIN v3' : (n \in DOMAIN v3 /\ v3'[n] = v3[n]) \/ v3'[n].id \in Audit!IdsOf(q)
  <2>1. CASE v3' = v3
    BY <1>0, <2>1
  <2>2. ASSUME NEW log \in Audit!Logs, log.id \in Audit!IdsOf(q), v3' = Append(v3, log)
        PROVE  /\ v3' \in Seq(Audit!Logs)
               /\ \A n \in DOMAIN v3' :
                    (n \in DOMAIN v3 /\ v3'[n] = v3[n]) \/ v3'[n].id \in Audit!IdsOf(q)
    <3>1. /\ v3' \in Seq(Audit!Logs) /\ Len(v3') = Len(v3) + 1 /\ v3'[Len(v3) + 1] = log
          /\ DOMAIN v3' = 1 .. Len(v3) + 1
          /\ \A k \in 1 .. Len(v3) : v3'[k] = v3[k]
      <4>1. v3 \in Seq(Audit!Logs) /\ v3' = Append(v3, log)
        BY <1>0, <2>2
      <4>2. /\ v3' \in Seq(Audit!Logs) /\ Len(v3') = Len(v3) + 1 /\ v3'[Len(v3) + 1] = log
            /\ \A k \in 1 .. Len(v3) : v3'[k] = v3[k]
        BY <4>1, AppendProperties
      <4> QED BY <4>2, LenProperties
    <3>2. \A k \in 1 .. Len(v3) + 1 : k \in 1 .. Len(v3) \/ k = Len(v3) + 1
      BY <1>0
    <3> QED BY <1>0, <2>2, <3>1, <3>2
  <2> QED BY <2>1, <2>2
<1>3. Audit!TypeOK'
  BY <1>0, <1>2 DEF Audit!TypeOK
<1>4. Audit!Busy' \subseteq v2'
  BY <1>1 DEF Audit!Busy
<1>5. \A n \in DOMAIN v3' : v3'[n].id \in v2'
  BY <1>0, <1>2 DEF AuditInv, Audit!UnusedIsUntouched
<1>6. \A id \in RecordIds \ v2' : v1'[id] = None
  BY <1>0 DEF AuditInv, Audit!UnusedIsUntouched
<1>7. Audit!UnusedIsUntouched'
  BY <1>4, <1>5, <1>6 DEF Audit!UnusedIsUntouched
<1>8. ASSUME NEW id \in RecordIds \ (Audit!IdsOf(q) \cup Audit!IdsOf(q)')
      PROVE  AuditTold(id)'
  BY <1>8, AuditOther
<1> QED BY <1>3, <1>7, <1>8, AuditToldOfAll DEF AuditInv, AuditTold, Audit!TypeOK

(* An operation that goes on, to the rereading or the log of what it wrote.*)
LEMMA AuditGoesOn ==
  ASSUME AuditInv, NEW q \in Callers, NEW op \in Audit!Operations, v4' = [v4 EXCEPT ![q] = op],
         v4[q].stage \in {"save", "remove", "reread"}, op.stage \in {"reread", "audit"},
         op.ids = v4[q].ids,
         op.stage = "reread" => op.found = v4[q].found,
         op.stage = "audit" => op.logs[1].old = v4[q].found /\ op.logs[1].new = v1'[v4[q].id],
         v1' \in [RecordIds -> Audit!Records \cup {None}],
         \A id \in RecordIds \ {v4[q].id} : v1'[id] = v1[id],
         UNCHANGED <<v2, v3, v5, v6>>
  PROVE  AuditInv'
<1> PICK id : id = v4[q].id
  OBVIOUS
<1>0. /\ v4[q].ids = {id} /\ id \in RecordIds /\ v2 \cup v5 \cup v6 \subseteq RecordIds
      /\ Audit!IdsOf(q) = {id} /\ id \in v2
  <2>1. v4[q].ids = {id} /\ id \in RecordIds /\ v2 \cup v5 \cup v6 \subseteq RecordIds
    BY AuditTypes, AuditOperation
  <2>2. Audit!IdsOf(q) = {id}
    BY <2>1 DEF Audit!IdsOf
  <2> QED BY <2>1, <2>2, AuditTypes
<1>1. /\ v4'[q] = op /\ Audit!IdsOf(q)' = {id}
      /\ \A p \in Callers \ {q} : Audit!IdsOf(p)' = Audit!IdsOf(p)
  BY <1>0, AuditIds, ZenonT(30)
<1>2. ASSUME id \in RecordIds \ (v5 \cup v6)
      PROVE  Audit!AloneItContinues(id)'
  <2>1. /\ Audit!Continues(id) /\ Audit!Leaves(id, Len(v3), v4[q].found)
        /\ \A p \in Callers : id \in Audit!IdsOf(p) => p = q
    BY <1>0, <1>2 DEF AuditInv, Audit!AloneItContinues
  <2>2. Audit!Continues(id)'
    BY <2>1 DEF Audit!Continues, Audit!Leaves
  <2>3. \A p \in Callers : id \in Audit!IdsOf(p)' => p = q
    BY <1>1, <2>1
  <2>4. op.stage \in {"save", "remove", "reread"} => Audit!Leaves(id, Len(v3), v4[q].found)'
    <3>1. SUFFICES ASSUME op.stage \in {"save", "remove", "reread"}
                   PROVE  Audit!Leaves(id, Len(v3), v4[q].found)'
      OBVIOUS
    <3>2. v4'[q].found = v4[q].found
      BY <1>1, <3>1
    <3> QED BY <2>1, <3>2 DEF Audit!Leaves
  <2>5. op.stage = "audit" =>
          Audit!Leaves(id, Len(v3), v4[q].logs[1].old)' /\ op.logs[1].new = v1'[id]
    <3>1. SUFFICES ASSUME op.stage = "audit"
                   PROVE  Audit!Leaves(id, Len(v3), v4[q].logs[1].old)' /\ op.logs[1].new = v1'[id]
      OBVIOUS
    <3>2. v4'[q].logs[1].old = v4[q].found /\ op.logs[1].new = v1'[id]
      BY <1>1, <3>1
    <3> QED BY <2>1, <3>2 DEF Audit!Leaves
  <2>6. op.stage \in {"save", "remove"} => Audit!Leaves(id, Len(v3), v1[id])'
    OBVIOUS
  <2> QED BY <1>0, <1>1, <2>2, <2>3, <2>4, <2>5, <2>6, AuditAlone
<1>3. Audit!Owes(q, id)'
  BY <1>1 DEF Audit!Owes
<1>4. AuditTold(id)'
  BY <1>2, <1>3 DEF AuditTold
<1> QED BY <1>0, <1>1, <1>4, AuditStepOfOne

(* An operation that has found its record. *)
LEMMA AuditFound ==
  ASSUME AuditInv, NEW q \in Callers, NEW op \in Audit!Operations, NEW id \in RecordIds,
         Audit!Begin(q, op), v1[id] # None,
         op.stage \in {"save", "remove"}, op.ids = {id}, op.found = v1[id],
         UNCHANGED <<v1, v2, v3>>
  PROVE  AuditInv'
<1>0. /\ v4[q] = Audit!NoOperation /\ v4' = [v4 EXCEPT ![q] = op]
      /\ v5' = v5 \cup ({id} \cap Audit!Busy) /\ v6' = v6
  BY DEF Audit!Begin
<1>1. /\ v2 \cup v5 \cup v6 \subseteq RecordIds /\ id \in v2
      /\ v1 \in [RecordIds -> Audit!Records \cup {None}]
  BY AuditTypes DEF AuditInv, Audit!UnusedIsUntouched
<1>2. Audit!IdsOf(q) = {} /\ Audit!IdsOf(q)' = {id} /\ v4'[q] = op
  <2>1. Audit!IdsOf(q) = {}
    BY <1>0 DEF Audit!IdsOf, Audit!NoOperation
  <2> QED BY <1>0, <2>1, AuditIds
<1>3. ASSUME id \in RecordIds \ (v5' \cup v6')
      PROVE  Audit!AloneItContinues(id)'
  <2>1. id \notin Audit!Busy /\ id \notin v5 \cup v6
    BY <1>0, <1>3
  <2>2. Audit!Continues(id) /\ Audit!Leaves(id, Len(v3), v1[id])
    BY <2>1 DEF AuditInv, Audit!AloneItContinues
  <2>3. \A p \in Callers : id \in Audit!IdsOf(p)' => p = q
    <3>1. \A p \in Callers \ {q} : Audit!IdsOf(p)' = Audit!IdsOf(p) /\ id \notin Audit!IdsOf(p)
      BY <1>0, <2>1, AuditIds, AuditTypes
    <3> QED BY <3>1
  <2>4. Audit!Continues(id)' /\ Audit!Leaves(id, Len(v3), v1[id])'
    BY <2>2 DEF Audit!Continues, Audit!Leaves
  <2>5. Audit!Leaves(id, Len(v3), v4[q].found)'
    BY <1>2, <2>2 DEF Audit!Leaves
  <2> QED BY <1>0, <1>2, <2>3, <2>4, <2>5, AuditAlone
<1>4. AuditTold(id)'
  <2>1. ~Audit!Owes(q, id)
    BY <1>2 DEF Audit!Owes
  <2> QED BY <1>0, <1>3, <2>1, AuditStillLogged DEF AuditTold
<1> QED BY <1>0, <1>1, <1>2, <1>4, AuditStepOfOne

(* A record that is created has no history, and nobody else works on it. *)
LEMMA AuditCreated ==
  ASSUME AuditInv, NEW q \in Callers, NEW op \in Audit!Operations, NEW ids \in SUBSET RecordIds,
         Audit!Begin(q, op), op.ids = ids, ids \cap v2 = {},
         op.stage \in {"audit", "unaudited"},
         op.stage = "audit" =>
           op.logs[1].old = None /\ \A id \in ids : op.logs[1].new = v1'[id],
         v1' \in [RecordIds -> Audit!Records \cup {None}], \A id \in RecordIds \ ids : v1'[id] = v1[id],
         v2' = v2 \cup ids, UNCHANGED v3
  PROVE  AuditInv'
<1>0. /\ v4[q] = Audit!NoOperation /\ v4' = [v4 EXCEPT ![q] = op]
      /\ v5' = v5 \cup (ids \cap Audit!Busy) /\ v6' = v6
  BY DEF Audit!Begin
<1>1. v2 \cup v5 \cup v6 \subseteq RecordIds /\ Audit!Busy \subseteq v2
  BY AuditTypes
<1>2. Audit!IdsOf(q) = {} /\ Audit!IdsOf(q)' = ids /\ v4'[q] = op
  <2>1. Audit!IdsOf(q) = {}
    BY <1>0 DEF Audit!IdsOf, Audit!NoOperation
  <2> QED BY <1>0, <2>1, AuditIds
<1>3. ASSUME NEW id \in ids
      PROVE  AuditTold(id)'
  <2>1. id \notin Audit!Busy /\ id \notin v2
    BY <1>1
  <2>2. \A n \in DOMAIN v3 : v3[n].id # id
    BY <2>1 DEF AuditInv, Audit!UnusedIsUntouched
  <2>3. \A p \in Callers : id \in Audit!IdsOf(p)' => p = q
    <3>1. \A p \in Callers \ {q} : Audit!IdsOf(p)' = Audit!IdsOf(p) /\ id \notin Audit!IdsOf(p)
      BY <1>0, <2>1, AuditIds, AuditTypes
    <3> QED BY <3>1
  <2>4. Audit!Continues(id)'
    BY <2>2 DEF Audit!Continues
  <2>5. op.stage = "audit" =>
          Audit!Leaves(id, Len(v3), v4[q].logs[1].old)' /\ op.logs[1].new = v1'[id]
    <3>1. op.stage = "audit" => v4'[q].logs[1].old = None
      BY <1>2
    <3>2. DOMAIN v3 = 1 .. Len(v3)
      BY AuditTypes
    <3> QED BY <2>2, <3>1, <3>2 DEF Audit!Leaves
  <2>6. Audit!AloneItContinues(id)'
    BY <1>0, <1>2, <2>3, <2>4, <2>5, AuditAlone
  <2>7. Audit!Owes(q, id)'
    BY <1>2 DEF Audit!Owes
  <2> QED BY <2>6, <2>7 DEF AuditTold
<1> QED BY <1>0, <1>1, <1>2, <1>3, AuditStepOfOne

LEMMA AuditLogged ==
  ASSUME AuditInv, NEW q \in Callers, Audit!CreateAuditLog(q)
  PROVE  AuditInv'
<1> PICK log : log = v4[q].logs[1]
  OBVIOUS
<1>0. /\ v4[q].stage = "audit" /\ v4' = [v4 EXCEPT ![q] = Audit!Done]
      /\ v3' = v3 \o v4[q].logs /\ UNCHANGED <<v1, v2, v5, v6>>
  BY DEF Audit!CreateAuditLog, Audit!Continue, Audit!history
<1>1. log \in Audit!Logs /\ v4[q].ids = {log.id} /\ v4[q].logs = <<log>>
  BY <1>0, AuditTypes, AuditOperation
<1>2. /\ v3 \in Seq(Audit!Logs) /\ v3' = Append(v3, log) /\ log.id \in RecordIds
      /\ v1 \in [RecordIds -> Audit!Records \cup {None}] /\ v2 \cup v5 \cup v6 \subseteq RecordIds
  <2>1. v3 \in Seq(Audit!Logs)
    BY AuditTypes
  <2>2. Append(v3, log) = v3 \o <<log>>
    BY <1>1, <2>1, AppendIsConcat
  <2> QED BY <1>0, <1>1, <2>1, <2>2, AuditTypes DEF Audit!Logs
<1>3. /\ Audit!IdsOf(q) = {log.id} /\ Audit!IdsOf(q)' = {}
      /\ \A p \in Callers \ {q} : v4'[p] = v4[p] /\ Audit!IdsOf(p)' = Audit!IdsOf(p)
  <2>1. Audit!IdsOf(q) = {log.id}
    BY <1>0, <1>1 DEF Audit!IdsOf
  <2>2. Audit!Done.stage = "done"
    BY DEF Audit!Done
  <2> QED BY <1>0, <2>1, <2>2, AuditIds
<1>4. Audit!Done \in Audit!Operations
  BY DEF Audit!Operations
<1>5. ASSUME log.id \in RecordIds \ (v5 \cup v6)
      PROVE  Audit!AloneItContinues(log.id)'
  <2>1. /\ Audit!Continues(log.id) /\ Audit!Leaves(log.id, Len(v3), log.old)
        /\ \A p \in Callers : log.id \in Audit!IdsOf(p) => p = q
        /\ log.new = v1[log.id]
    BY <1>0, <1>3, <1>5 DEF AuditInv, Audit!AloneItContinues
  <2>2. Audit!Leaves(log.id, Len(v3), log.new)' /\ Audit!Continues(log.id)'
    BY <1>1, <1>2, <2>1, AuditTrailGoesOn
  <2>3. Audit!Leaves(log.id, Len(v3), v1[log.id])'
    BY <1>0, <2>1, <2>2
  <2>4. \A p \in Callers : log.id \notin Audit!IdsOf(p)'
    BY <1>3, <2>1
  <2> QED BY <2>2, <2>3, <2>4 DEF Audit!AloneItContinues
<1>6. ASSUME log.id \in v2 \ v6
      PROVE  Audit!IsLogged(log.id)' \/ \E p \in Callers : Audit!Owes(p, log.id)'
  <2>1. /\ Len(v3) \in Nat /\ DOMAIN v3 = 1 .. Len(v3) /\ DOMAIN v3' = 1 .. Len(v3) + 1
        /\ v3'[Len(v3) + 1] = log /\ \A k \in 1 .. Len(v3) : v3'[k] = v3[k]
    BY <1>1, <1>2, AppendProperties, LenProperties
  <2>2. CASE log.new = v1[log.id]
    <3>1. Len(v3) + 1 \in DOMAIN v3' /\ v3'[Len(v3) + 1].new = v1'[log.id]
      BY <1>0, <2>1, <2>2
    <3> QED BY <2>1, <3>1 DEF Audit!IsLogged
  <2>3. CASE Audit!IsLogged(log.id)
    <3>1. PICK n \in 1 .. Len(v3) : v3[n].id = log.id /\ v3[n].new = v1[log.id]
      BY <2>1, <2>3 DEF Audit!IsLogged
    <3>2. n \in DOMAIN v3' /\ v3'[n] = v3[n]
      BY <2>1
    <3> QED BY <1>0, <3>1, <3>2 DEF Audit!IsLogged
  <2>4. ASSUME NEW p \in Callers, Audit!Owes(p, log.id), log.new # v1[log.id]
        PROVE  Audit!Owes(p, log.id)'
    <3>1. p # q
      BY <1>0, <2>4 DEF Audit!Owes
    <3> QED BY <1>0, <1>3, <2>4, <3>1 DEF Audit!Owes
  <2>5. Audit!IsLogged(log.id) \/ \E p \in Callers : Audit!Owes(p, log.id)
    BY <1>6 DEF AuditInv
  <2> QED BY <2>2, <2>3, <2>4, <2>5
<1>7. AuditTold(log.id)'
  BY <1>0, <1>5, <1>6 DEF AuditTold
<1> QED BY <1>0, <1>1, <1>2, <1>3, <1>4, <1>7, AuditStepOfOne

(* An operation that fails before it wrote leaves its record as it was. *)
LEMMA AuditFailed ==
  ASSUME AuditInv, NEW q \in Callers, Audit!Fails(q)
  PROVE  AuditInv'
<1>0. /\ v4[q].stage \notin {"idle", "done"} /\ v4' = [v4 EXCEPT ![q] = Audit!Done]
      /\ v6' = v6 \cup (IF v4[q].stage \in {"save", "remove"} THEN {} ELSE v4[q].ids)
      /\ UNCHANGED <<v1, v2, v3, v5>>
  BY DEF Audit!Fails
<1>1. /\ v1 \in [RecordIds -> Audit!Records \cup {None}] /\ v2 \cup v5 \cup v6 \subseteq RecordIds
      /\ Audit!IdsOf(q) = v4[q].ids /\ v4[q].ids \subseteq RecordIds
  <2>1. Audit!IdsOf(q) = v4[q].ids
    BY <1>0 DEF Audit!IdsOf
  <2> QED BY <2>1, AuditTypes
<1>2. /\ Audit!IdsOf(q)' = {}
      /\ \A p \in Callers \ {q} : v4'[p] = v4[p] /\ Audit!IdsOf(p)' = Audit!IdsOf(p)
  <2>1. Audit!Done.stage = "done"
    BY DEF Audit!Done
  <2> QED BY <1>0, <2>1, AuditIds
<1>3. Audit!Done \in Audit!Operations
  BY DEF Audit!Operations
<1>4. ASSUME NEW id \in v4[q].ids
      PROVE  AuditTold(id)'
  <2>1. CASE v4[q].stage \notin {"save", "remove"}
    BY <1>0, <1>4, <2>1 DEF AuditTold
  <2>2. CASE v4[q].stage \in {"save", "remove"}
    <3>0. id \in RecordIds /\ v6' = v6
      BY <1>0, <1>1, <2>2
    <3>1. ASSUME id \in RecordIds \ (v5 \cup v6)
          PROVE  Audit!AloneItContinues(id)'
      <4>1. /\ Audit!Continues(id) /\ Audit!Leaves(id, Len(v3), v1[id])
            /\ \A p \in Callers : id \in Audit!IdsOf(p) => p = q
        BY <1>1, <2>2, <3>1 DEF AuditInv, Audit!AloneItContinues
      <4>2. \A p \in Callers : id \notin Audit!IdsOf(p)'
        BY <1>2, <4>1
      <4>3. Audit!Continues(id)' /\ Audit!Leaves(id, Len(v3), v1[id])'
        BY <1>0, <4>1 DEF Audit!Continues, Audit!Leaves
      <4> QED BY <4>2, <4>3 DEF Audit!AloneItContinues
    <3>2. ~Audit!Owes(q, id)
      BY <2>2 DEF Audit!Owes
    <3>3. id \in v2' \ v6' => Audit!IsLogged(id)' \/ \E p \in Callers : Audit!Owes(p, id)'
      BY <1>0, <3>0, <3>2, AuditStillLogged
    <3> QED BY <1>0, <3>0, <3>1, <3>3 DEF AuditTold
  <2> QED BY <2>1, <2>2
<1> QED BY <1>0, <1>1, <1>2, <1>3, <1>4, AuditStepOfOne

LEMMA AuditInvStep == AuditInv /\ Audit!Next => AuditInv'
<1> SUFFICES ASSUME AuditInv, NEW q \in Callers,
                    \/ \E id \in RecordIds :
                         Audit!CreateOne(q, id) \/ Audit!UpdateOne(q, id) \/ Audit!DeleteOne(q, id)
                    \/ Audit!CreateMany(q) \/ Audit!Save(q) \/ Audit!Reread(q) \/ Audit!Remove(q)
                    \/ Audit!CreateAuditLog(q) \/ Audit!Fails(q)
             PROVE  AuditInv'
  BY DEF Audit!Next
<1>0. /\ v1 \in [RecordIds -> Audit!Records \cup {None}] /\ v2 \cup v5 \cup v6 \subseteq RecordIds
      /\ v4[q] \in Audit!Operations
  BY AuditTypes
<1>1. ASSUME NEW id \in RecordIds, Audit!CreateOne(q, id)
      PROVE  AuditInv'
  <2>1. PICK new \in Audit!Records :
          /\ v1' = [v1 EXCEPT ![id] = new]
          /\ Audit!Begin(q, [stage |-> "audit", ids |-> {id},
                             logs |-> <<Audit!Log("CREATE", id, None, new)>>])
    BY <1>1 DEF Audit!CreateOne
  <2>2. id \notin v2 /\ v2' = v2 \cup {id} /\ UNCHANGED v3
    BY <1>1 DEF Audit!CreateOne
  <2> DEFINE log == Audit!Log("CREATE", id, None, new)
             op == [stage |-> "audit", ids |-> {id}, logs |-> <<log>>]
  <2>3. log \in Audit!Logs /\ log.id = id /\ log.old = None /\ log.new = new
    BY DEF Audit!Log, Audit!Logs
  <2>4. op.stage = "audit" /\ op.ids = {id} /\ op.logs[1] = log
    OBVIOUS
  <2> HIDE DEF log
  <2>5. op \in Audit!Operations
    BY <2>3, AuditOperations DEF op
  <2>6. v1' \in [RecordIds -> Audit!Records \cup {None}] /\ v1'[id] = new /\ \A i \in RecordIds \ {id} : v1'[i] = v1[i]
    BY <1>0, <2>1
  <2>7. Audit!Begin(q, op)
    BY <2>1 DEF log
  <2> HIDE DEF op
  <2> QED BY <2>2, <2>3, <2>4, <2>5, <2>6, <2>7, AuditCreated
<1>2. CASE Audit!CreateMany(q)
  <2> DEFINE op == [stage |-> "unaudited", ids |-> RecordIds]
  <2>1. PICK new \in Audit!Records : v1' = [id \in RecordIds |-> new] /\ Audit!Begin(q, op)
    BY <1>2 DEF Audit!CreateMany
  <2>2. RecordIds \cap v2 = {} /\ v2' = RecordIds /\ UNCHANGED v3
    BY <1>2 DEF Audit!CreateMany
  <2>3. op \in Audit!Operations /\ op.stage = "unaudited" /\ op.ids = RecordIds
    BY DEF Audit!Operations
  <2> HIDE DEF op
  <2>4. v1' \in [RecordIds -> Audit!Records \cup {None}] /\ v2' = v2 \cup RecordIds
    BY <1>0, <2>1, <2>2
  <2> QED BY <2>1, <2>2, <2>3, <2>4, AuditCreated
<1>3. ASSUME NEW id \in RecordIds, Audit!UpdateOne(q, id)
      PROVE  AuditInv'
  <2>1. PICK dto \in Audit!Changes :
          Audit!Begin(q, [stage |-> "save", ids |-> {id}, id |-> id, found |-> v1[id], dto |-> dto])
    BY <1>3 DEF Audit!UpdateOne
  <2> DEFINE op == [stage |-> "save", ids |-> {id}, id |-> id, found |-> v1[id], dto |-> dto]
  <2>2. v1[id] # None /\ v1[id] \in Audit!Records /\ UNCHANGED <<v1, v2, v3>>
    BY <1>0, <1>3 DEF Audit!UpdateOne
  <2>3. op.stage = "save" /\ op.ids = {id} /\ op.found = v1[id]
    OBVIOUS
  <2>4. op \in Audit!Operations
    BY <2>2, AuditOperations
  <2> HIDE DEF op
  <2>5. Audit!Begin(q, op)
    BY <2>1 DEF op
  <2> QED BY <2>2, <2>3, <2>4, <2>5, AuditFound
<1>4. ASSUME NEW id \in RecordIds, Audit!DeleteOne(q, id)
      PROVE  AuditInv'
  <2> DEFINE op == [stage |-> "remove", ids |-> {id}, id |-> id, found |-> v1[id]]
  <2>1. /\ Audit!Begin(q, op) /\ v1[id] # None /\ v1[id] \in Audit!Records
        /\ UNCHANGED <<v1, v2, v3>>
    BY <1>0, <1>4 DEF Audit!DeleteOne
  <2>2. op.stage = "remove" /\ op.ids = {id} /\ op.found = v1[id]
    OBVIOUS
  <2>3. op \in Audit!Operations
    BY <2>1, AuditOperations
  <2> HIDE DEF op
  <2> QED BY <2>1, <2>2, <2>3, AuditFound
<1>5. CASE Audit!Save(q)
  <2> DEFINE old == v4[q]
             op == [old EXCEPT !.stage = "reread"]
             saved == [f \in Fields |-> IF f \in DOMAIN old.dto THEN old.dto[f] ELSE old.found[f]]
  <2>1. /\ old.stage = "save" /\ v4' = [v4 EXCEPT ![q] = op]
        /\ v1' = [v1 EXCEPT ![old.id] = saved] /\ UNCHANGED <<v2, v3, v5, v6>>
    BY <1>5 DEF Audit!Save, Audit!Continue, Audit!history
  <2>2. /\ old.ids = {old.id} /\ old.id \in RecordIds /\ old.found \in Audit!Records
        /\ old.dto \in Audit!Changes
    BY <1>0, <2>1, AuditOperation
  <2>3. op \in Audit!Operations /\ op.stage = "reread" /\ op.ids = old.ids /\ op.found = old.found
    <3>1. old.stage = "save" /\ old \in Audit!Operations
      BY <1>0, <2>1
    <3>2. old \in Audit!Updates
      BY <3>1 DEF Audit!Operations, Audit!Removals, Audit!Audits, Audit!NoOperation, Audit!Done
    <3>3. op \in Audit!Updates /\ op.stage = "reread" /\ op.ids = old.ids /\ op.found = old.found
      BY <3>2 DEF Audit!Updates
    <3> QED BY <3>3 DEF Audit!Operations
  <2>4. saved \in Audit!Records
    <3>1. PICK F \in SUBSET Fields : old.dto \in [F -> RecordValues]
      BY <2>2 DEF Audit!Changes
    <3>2. \A f \in Fields : (IF f \in DOMAIN old.dto THEN old.dto[f] ELSE old.found[f]) \in RecordValues
      BY <2>2, <3>1 DEF Audit!Records
    <3> QED BY <3>2 DEF Audit!Records
  <2> HIDE DEF op, saved
  <2>5. v1' \in [RecordIds -> Audit!Records \cup {None}] /\ \A id \in RecordIds \ {old.id} : v1'[id] = v1[id]
    BY <1>0, <2>1, <2>2, <2>4
  <2> QED BY <2>1, <2>3, <2>5, AuditGoesOn
<1>6. CASE Audit!Reread(q)
  <2> DEFINE old == v4[q]
             log == Audit!Log("UPDATE", old.id, old.found, v1[old.id])
             op == [stage |-> "audit", ids |-> old.ids, logs |-> <<log>>]
  <2>1. /\ old.stage = "reread" /\ v4' = [v4 EXCEPT ![q] = op] /\ UNCHANGED <<v1, v2, v3, v5, v6>>
    BY <1>6 DEF Audit!Reread, Audit!Continue, Audit!history
  <2>2. old.ids = {old.id} /\ old.id \in RecordIds /\ old.found \in Audit!Records
    BY <1>0, <2>1, AuditOperation
  <2>3. log \in Audit!Logs /\ log.id = old.id /\ log.old = old.found /\ log.new = v1'[old.id]
    BY <1>0, <2>1, <2>2 DEF Audit!Log, Audit!Logs
  <2>4. op.stage = "audit" /\ op.ids = old.ids /\ op.logs[1] = log
    OBVIOUS
  <2> HIDE DEF log
  <2>5. op \in Audit!Operations
    <3>1. op = [stage |-> "audit", ids |-> {log.id}, logs |-> <<log>>]
      BY <2>2, <2>3
    <3> QED BY <2>3, <3>1, AuditOperations
  <2> HIDE DEF op
  <2> QED BY <1>0, <2>1, <2>3, <2>4, <2>5, AuditGoesOn
<1>7. CASE Audit!Remove(q)
  <2> DEFINE old == v4[q]
             log == Audit!Log("DELETE", old.id, old.found, None)
             op == [stage |-> "audit", ids |-> old.ids, logs |-> <<log>>]
  <2>1. /\ old.stage = "remove" /\ v4' = [v4 EXCEPT ![q] = op]
        /\ v1' = [v1 EXCEPT ![old.id] = None] /\ UNCHANGED <<v2, v3, v5, v6>>
    BY <1>7 DEF Audit!Remove, Audit!Continue, Audit!history
  <2>2. old.ids = {old.id} /\ old.id \in RecordIds /\ old.found \in Audit!Records
    BY <1>0, <2>1, AuditOperation
  <2>3. log \in Audit!Logs /\ log.id = old.id /\ log.old = old.found /\ log.new = None
    BY <2>2 DEF Audit!Log, Audit!Logs
  <2>4. op.stage = "audit" /\ op.ids = old.ids /\ op.logs[1] = log
    OBVIOUS
  <2> HIDE DEF log
  <2>5. op \in Audit!Operations
    <3>1. op = [stage |-> "audit", ids |-> {log.id}, logs |-> <<log>>]
      BY <2>2, <2>3
    <3> QED BY <2>3, <3>1, AuditOperations
  <2> HIDE DEF op
  <2>6. /\ v1' \in [RecordIds -> Audit!Records \cup {None}] /\ v1'[old.id] = None
        /\ \A id \in RecordIds \ {old.id} : v1'[id] = v1[id]
    BY <1>0, <2>1, <2>2
  <2> QED BY <2>1, <2>3, <2>4, <2>5, <2>6, AuditGoesOn
<1> QED BY <1>1, <1>2, <1>3, <1>4, <1>5, <1>6, <1>7, AuditLogged, AuditFailed

LEMMA AuditIsKept ==
  (part = "audit" => AuditInv) /\ [Next]_<<part, v1, v2, v3, v4, v5, v6, v7, v8, v9, v10>>
    => (part = "audit" => AuditInv)'
<1> SUFFICES ASSUME part = "audit" => AuditInv,
                    [Next]_<<part, v1, v2, v3, v4, v5, v6, v7, v8, v9, v10>>, part' = "audit"
             PROVE  AuditInv'
  OBVIOUS
<1>1. part = "audit" /\ (Audit!Next \/ UNCHANGED <<v1, v2, v3, v4, v5, v6>>)
  BY DEF Next, LogsStep, AuditStep, ChartsStep, CardsStep, OutboundStep, UptimeStep, SettingsStep,
         TokensStep, SocketsStep
<1>2. CASE UNCHANGED <<v1, v2, v3, v4, v5, v6>>
  <2>1. Audit!Busy' = Audit!Busy /\ \A q : Audit!IdsOf(q)' = Audit!IdsOf(q)
    BY <1>2 DEF Audit!Busy, Audit!IdsOf
  <2>2. Audit!TypeOK' /\ Audit!UnusedIsUntouched'
    BY <1>1, <1>2, <2>1 DEF AuditInv, Audit!TypeOK, Audit!UnusedIsUntouched
  <2>3. ASSUME NEW id \in RecordIds \ (v5 \cup v6)
        PROVE  Audit!AloneItContinues(id)'
    <3>1. Audit!AloneItContinues(id)
      BY <1>1 DEF AuditInv
    <3> QED BY <1>2, <2>1, <3>1 DEF Audit!AloneItContinues, Audit!Continues, Audit!Leaves
  <2>4. ASSUME NEW id \in v2 \ v6
        PROVE  Audit!IsLogged(id)' \/ \E q \in Callers : Audit!Owes(q, id)'
    <3>1. Audit!IsLogged(id) \/ \E q \in Callers : Audit!Owes(q, id)
      BY <1>1 DEF AuditInv
    <3> QED BY <1>2, <2>1, <3>1 DEF Audit!IsLogged, Audit!Owes
  <2> QED BY <1>2, <2>2, <2>3, <2>4 DEF AuditInv
<1> QED BY <1>1, <1>2, AuditInvStep

LEMMA AuditStarts == Init => (part = "audit" => AuditInv)
BY AuditInvInit DEF Init

LEMMA AuditInvSuffices == AuditInv => Audit!TrailTellsHistory /\ Audit!OutcomeIsLogged
<1> SUFFICES ASSUME AuditInv
             PROVE  Audit!TrailTellsHistory /\ Audit!OutcomeIsLogged
  OBVIOUS
<1>1. Audit!TrailTellsHistory
  BY DEF AuditInv, Audit!TrailTellsHistory, Audit!AloneItContinues
<1>2. ASSUME NEW id \in v2 \ (v6 \cup Audit!Busy)
      PROVE  Audit!IsLogged(id)
  <2>1. \A q \in Callers : ~Audit!Owes(q, id)
    BY <1>2, AuditTypes DEF Audit!Owes
  <2> QED BY <1>2, <2>1 DEF AuditInv
<1> QED BY <1>1, <1>2 DEF Audit!OutcomeIsLogged

(* The audit rows of a record whose operations did not overlap tell its    *)
(* history without a gap, from its creation to the state it is in; and the *)
(* state of any record has been logged by whoever wrote it, but for        *)
(* operations that were left halfway.                                      *)
(* (AuditLogBaseService)                                                   *)
THEOREM TrailsAreTrue == Spec => []TrailIsTrue
<1>1. (part = "audit" => AuditInv) => TrailIsTrue
  BY AuditInvSuffices DEF AuditInv, TrailIsTrue
<1> QED BY <1>1, AuditStarts, AuditIsKept, PTL DEF Spec

-----------------------------------------------------------------------------
(* Outbound clients: sockets is v1, timers v2, sends v3, wire v4 and       *)
(* frames v5                                                               *)

OutboundInv ==
  /\ Outbound!TypeOK
  /\ Outbound!OneUnderWay
  /\ Outbound!ClosesOnce
  /\ Outbound!FlushesOnce
  /\ Outbound!SendsAreOrdered

LEMMA OutboundInvInit == Outbound!Init => OutboundInv
<1> SUFFICES ASSUME Outbound!Init
             PROVE  OutboundInv
  OBVIOUS
<1> USE BoundsAreNumbers, EmptySeq DEF Outbound!Init
<1>1. Outbound!TypeOK
  BY DEF Outbound!TypeOK
<1>2. Outbound!OneUnderWay
  BY DEF Outbound!OneUnderWay, Outbound!Opened
<1>3. Outbound!ClosesOnce
  BY DEF Outbound!ClosesOnce, Outbound!Opened
<1>4. Outbound!FlushesOnce /\ Outbound!SendsAreOrdered
  BY DEF Outbound!FlushesOnce, Outbound!SendsAreOrdered
<1> QED BY <1>1, <1>2, <1>3, <1>4 DEF OutboundInv

LEMMA OutboundTypes ==
  ASSUME OutboundInv
  PROVE  /\ v1 \in Seq(Outbound!Socket) /\ Len(v1) \in Nat /\ DOMAIN v1 = 1 .. Len(v1)
         /\ Outbound!Opened = 1 .. Len(v1)
         /\ \A s \in 1 .. Len(v1) : v1[s] \in Outbound!Socket
         /\ v1 # <<>> => 1 \in 1 .. Len(v1)
         /\ v2 \in Nat /\ MaxSends \in Nat
         /\ v3 \in Seq(Outbound!SentMessage) /\ Len(v3) \in Nat /\ DOMAIN v3 = 1 .. Len(v3)
         /\ Len(v3) <= MaxSends
         /\ \A m \in 1 .. Len(v3) : v3[m] \in Outbound!SentMessage
         /\ v4 \in Seq(1 .. MaxSends) /\ Len(v4) \in Nat /\ DOMAIN v4 = 1 .. Len(v4)
         /\ \A i \in 1 .. Len(v4) : v4[i] \in 1 .. MaxSends
BY BoundsAreNumbers, EmptySeq, LenProperties, ElementOfSeq
DEF OutboundInv, Outbound!TypeOK, Outbound!Opened

(* A step of one socket.  One that closes a live socket, and no other, may *)
(* set the timer of a reconnection.                                        *)
LEMMA OutboundSocket ==
  ASSUME OutboundInv, NEW s \in 1 .. Len(v1), NEW next \in Outbound!Socket,
         v1' = [v1 EXCEPT ![s] = next], v2' \in {v2, v2 + 1},
         next.state \in Outbound!Live =>
           /\ v1[s].state \in Outbound!Live /\ v2' = v2
           /\ next.listening = v1[s].listening /\ next.known = v1[s].known /\ next.closes = v1[s].closes,
         next.state \notin Outbound!Live => next.closes <= 1 /\ (s = 1 => ~next.known),
         v2' # v2 => v1[s].state \in Outbound!Live
  PROVE  /\ v1' \in Seq(Outbound!Socket) /\ v1' # <<>> /\ v2' \in Nat
         /\ v1'[1] = IF s = 1 THEN next ELSE v1[1]
         /\ Outbound!OneUnderWay' /\ Outbound!ClosesOnce'
<1>1. /\ v1' \in Seq(Outbound!Socket) /\ Len(v1') = Len(v1) /\ v1' # <<>>
      /\ \A t \in 1 .. Len(v1) : v1'[t] = IF t = s THEN next ELSE v1[t]
  BY OutboundTypes, ExceptSeq, EmptySeq
<1>2. Outbound!Opened' = 1 .. Len(v1) /\ Outbound!Opened = 1 .. Len(v1)
  BY <1>1, LenProperties, OutboundTypes DEF Outbound!Opened
<1>3. \A t \in 1 .. Len(v1) : v1'[t].state \in Outbound!Live => v1[t].state \in Outbound!Live
  BY <1>1
<1>4. /\ v2 <= 1 /\ v2 \in Nat
      /\ \A t \in 1 .. Len(v1) : v1[t].state \in Outbound!Live => v2 = 0
  BY <1>2, OutboundTypes DEF OutboundInv, Outbound!OneUnderWay
<1>5. \A t, u \in 1 .. Len(v1) : v1[t].state \in Outbound!Live /\ v1[u].state \in Outbound!Live => t = u
  BY <1>2 DEF OutboundInv, Outbound!OneUnderWay
<1>6. ASSUME NEW t \in 1 .. Len(v1), v1'[t].state \in Outbound!Live
      PROVE  v2' = 0
  <2>1. v1[t].state \in Outbound!Live
    BY <1>3, <1>6
  <2>2. v2' = v2
    <3>1. CASE t = s
      BY <1>1, <1>6, <3>1
    <3>2. CASE t # s
      BY <1>5, <2>1, <3>2
    <3> QED BY <3>1, <3>2
  <2> QED BY <1>4, <2>1, <2>2
<1>7. v2' <= 1 /\ v2' \in Nat
  BY <1>4
<1>8. Outbound!OneUnderWay'
  BY <1>1, <1>2, <1>3, <1>5, <1>6, <1>7 DEF Outbound!OneUnderWay, Outbound!Live
<1>9. ASSUME NEW t \in 1 .. Len(v1)
      PROVE  /\ v1'[t].state \in Outbound!Live => v1'[t].listening /\ v1'[t].known /\ v1'[t].closes = 0
             /\ v1'[t].closes <= 1
             /\ t = 1 /\ v1'[t].state = "closed" => ~v1'[t].known
  <2>1. /\ v1[t].state \in Outbound!Live => v1[t].listening /\ v1[t].known /\ v1[t].closes = 0
        /\ v1[t].closes <= 1
        /\ t = 1 /\ v1[t].state = "closed" => ~v1[t].known
    BY <1>2 DEF OutboundInv, Outbound!ClosesOnce, Outbound!client
  <2>2. CASE t # s
    BY <1>1, <2>1, <2>2
  <2>3. CASE t = s
    BY <1>1, <2>1, <2>3 DEF Outbound!Live
  <2> QED BY <2>2, <2>3
<1>10. Outbound!ClosesOnce'
  BY <1>2, <1>9 DEF Outbound!ClosesOnce, Outbound!Live, Outbound!client
<1>11. v1'[1] = IF s = 1 THEN next ELSE v1[1]
  BY <1>1, OutboundTypes
<1> QED BY <1>1, <1>7, <1>8, <1>10, <1>11

(* A socket is opened: the first one, or one for the timer there was. *)
LEMMA OutboundConnect ==
  ASSUME OutboundInv, Outbound!Connect,
         (v1 = <<>> /\ v2' = v2) \/ (v2 > 0 /\ v2' = v2 - 1)
  PROVE  /\ v1' \in Seq(Outbound!Socket) /\ v1' # <<>> /\ v2' \in Nat
         /\ v1 # <<>> => v1'[1] = v1[1]
         /\ Outbound!OneUnderWay' /\ Outbound!ClosesOnce'
<1>0. Outbound!NewSocket \in Outbound!Socket
  BY DEF Outbound!NewSocket, Outbound!Socket, Outbound!Live
<1>1. /\ v1' \in Seq(Outbound!Socket) /\ Len(v1') = Len(v1) + 1 /\ v1' # <<>>
      /\ \A t \in 1 .. Len(v1) : v1'[t] = v1[t]
      /\ v1'[Len(v1) + 1] = Outbound!NewSocket
  BY <1>0, OutboundTypes, AppendProperties DEF Outbound!Connect
<1>2. /\ Outbound!Opened' = 1 .. Len(v1) + 1 /\ Outbound!Opened = 1 .. Len(v1) /\ Len(v1) \in Nat
  BY <1>1, LenProperties, OutboundTypes DEF Outbound!Opened
<1>3. \A t \in 1 .. Len(v1) + 1 : t \in 1 .. Len(v1) \/ t = Len(v1) + 1
  BY <1>2
<1>4. \A t \in 1 .. Len(v1) : v1[t].state \notin Outbound!Live
  <2>1. CASE v1 = <<>>
    BY <2>1, EmptySeq
  <2>2. CASE v2 > 0
    BY <1>2, <2>2, OutboundTypes DEF OutboundInv, Outbound!OneUnderWay
  <2> QED BY <2>1, <2>2
<1>5. v2' = 0
  BY <1>2, OutboundTypes DEF OutboundInv, Outbound!OneUnderWay
<1>6. Outbound!OneUnderWay'
  BY <1>1, <1>2, <1>3, <1>4, <1>5 DEF Outbound!OneUnderWay, Outbound!Live
<1>7. ASSUME NEW t \in 1 .. Len(v1) + 1
      PROVE  /\ v1'[t].state \in Outbound!Live => v1'[t].listening /\ v1'[t].known /\ v1'[t].closes = 0
             /\ v1'[t].closes <= 1
             /\ t = 1 /\ v1'[t].state = "closed" => ~v1'[t].known
  <2>1. CASE t \in 1 .. Len(v1)
    BY <1>1, <1>2, <2>1 DEF OutboundInv, Outbound!ClosesOnce, Outbound!client
  <2>2. CASE t = Len(v1) + 1
    BY <1>1, <2>2 DEF Outbound!NewSocket
  <2> QED BY <1>3, <2>1, <2>2
<1>8. Outbound!ClosesOnce'
  BY <1>2, <1>7 DEF Outbound!ClosesOnce, Outbound!Live, Outbound!client
<1>9. v1 # <<>> => v1'[1] = v1[1]
  BY <1>1, OutboundTypes
<1> QED BY <1>1, <1>5, <1>6, <1>8, <1>9

(* The steps in which nothing is sent or flushed: the client that connects *)
(* is the one that did.                                                    *)
LEMMA OutboundQuiet ==
  ASSUME OutboundInv, UNCHANGED <<v3, v4>>, v5' \in 0 .. MaxFrames,
         v1' \in Seq(Outbound!Socket), v1' # <<>>, v2' \in Nat,
         Outbound!OneUnderWay', Outbound!ClosesOnce',
         v1 # <<>> /\ v1'[1].state = "connecting" => v1[1].state = "connecting"
  PROVE  OutboundInv'
<1>1. Outbound!TypeOK'
  BY DEF OutboundInv, Outbound!TypeOK
<1>2. Outbound!FlushesOnce'
  <2>1. CASE v1 = <<>>
    <3>1. v3 = <<>> /\ v4 = <<>>
      BY <2>1 DEF OutboundInv, Outbound!FlushesOnce
    <3> QED BY <3>1 DEF Outbound!FlushesOnce
  <2>2. CASE v1 # <<>>
    BY <2>2 DEF OutboundInv, Outbound!FlushesOnce, Outbound!client
  <2> QED BY <2>1, <2>2
<1>3. Outbound!SendsAreOrdered'
  BY DEF OutboundInv, Outbound!SendsAreOrdered
<1> QED BY <1>1, <1>2, <1>3 DEF OutboundInv

(* A socket closes: its onClose is called if it is known, and may set the  *)
(* timer of a reconnection.                                                *)
LEMMA OutboundClosed ==
  ASSUME OutboundInv, NEW s \in 1 .. Len(v1), Outbound!OnClose(s), UNCHANGED <<v3, v4, v5>>,
         v1[s].state \in Outbound!Live \/ s = 1
  PROVE  OutboundInv'
<1>0. v1[s] \in Outbound!Socket /\ v2 \in Nat /\ Outbound!Opened = 1 .. Len(v1)
  BY OutboundTypes
<1>1. /\ v1[s].state \in Outbound!Live => v1[s].known /\ v1[s].closes = 0
      /\ v1[s].closes <= 1
      /\ s = 1 /\ v1[s].state = "closed" => ~v1[s].known
  BY <1>0 DEF OutboundInv, Outbound!ClosesOnce, Outbound!client
<1>7. PICK closes \in Nat : closes = v1[s].closes + (IF v1[s].known THEN 1 ELSE 0)
  BY <1>0 DEF Outbound!Socket
<1> DEFINE next(known) == [v1[s] EXCEPT !.state = "closed", !.listening = FALSE, !.known = known,
                                        !.closes = closes]
<1>2. \/ /\ v1' = [v1 EXCEPT ![s] = next(FALSE)]
         /\ IF v1[s].known /\ ~Outbound!ReconnectThrows THEN v2' \in {v2, v2 + 1} ELSE UNCHANGED v2
      \/ /\ v1[s].known /\ Outbound!ReconnectThrows /\ UNCHANGED v2
         /\ v1' = [v1 EXCEPT ![s] = next(v1[s].known)]
  <2> DEFINE quiet == [v1 EXCEPT ![s].state = "closed", ![s].listening = FALSE,
                                 ![s].closes = @ + (IF v1[s].known THEN 1 ELSE 0)]
  <2>1. [quiet EXCEPT ![s].known = FALSE] = [v1 EXCEPT ![s] = next(FALSE)]
    BY <1>0, <1>7, OutboundTypes DEF Outbound!Socket
  <2>2. quiet = [v1 EXCEPT ![s] = next(v1[s].known)]
    BY <1>0, <1>7, OutboundTypes DEF Outbound!Socket
  <2> QED BY <2>1, <2>2 DEF Outbound!OnClose
<1>3. ASSUME NEW known \in BOOLEAN
      PROVE  /\ next(known) \in Outbound!Socket /\ next(known).state = "closed"
             /\ next(known).known = known /\ next(known).closes = closes
  BY <1>0 DEF Outbound!Socket
<1> HIDE DEF next
<1>8. s = 1 /\ v1[s].known => v1[s].state \in Outbound!Live
  BY <1>0, <1>1 DEF Outbound!Socket
<1>4. v1[s].known => v1[s].state \in Outbound!Live
  BY <1>8
<1>9. closes <= 1
  <2>1. CASE v1[s].known
    BY <1>1, <1>4, <1>7, <2>1
  <2>2. CASE ~v1[s].known
    <3>1. v1[s].closes \in Nat
      BY <1>0 DEF Outbound!Socket
    <3> QED BY <1>1, <1>7, <2>2, <3>1
  <2> QED BY <2>1, <2>2
<1>5. ASSUME NEW known \in BOOLEAN, s = 1 => ~known, v1' = [v1 EXCEPT ![s] = next(known)],
             v2' \in {v2, v2 + 1}, v2' # v2 => v1[s].known
      PROVE  OutboundInv'
  <2>1. next(known).state \notin Outbound!Live /\ next(known).closes <= 1
    BY <1>3, <1>9 DEF Outbound!Live
  <2>2. s = 1 => ~next(known).known
    BY <1>3, <1>5
  <2>3. /\ v1' \in Seq(Outbound!Socket) /\ v1' # <<>> /\ v2' \in Nat
        /\ v1'[1] = IF s = 1 THEN next(known) ELSE v1[1]
        /\ Outbound!OneUnderWay' /\ Outbound!ClosesOnce'
    BY <1>3, <1>4, <1>5, <2>1, <2>2, OutboundSocket
  <2>4. v1'[1].state = "connecting" => v1[1].state = "connecting"
    BY <1>3, <2>3
  <2>5. v5' \in 0 .. MaxFrames
    BY DEF OutboundInv, Outbound!TypeOK
  <2> QED BY <2>3, <2>4, <2>5, OutboundQuiet
<1>6. v1[s].known /\ Outbound!ReconnectThrows => s # 1
  BY DEF Outbound!ReconnectThrows, Outbound!client
<1>10. v1[s].known \in BOOLEAN
  BY <1>0 DEF Outbound!Socket
<1> QED BY <1>0, <1>2, <1>5, <1>6, <1>10

(* What the client flushes when it opens is all that was sent so far. *)
LEMMA OutboundFlushed ==
  ASSUME OutboundInv, v1 # <<>>, v1[1].state = "connecting"
  PROVE  /\ Outbound!Waiting(1) = 1 .. Len(v3)
         /\ Outbound!Flushed(1) = [i \in 1 .. Len(v3) |-> i]
<1>0. Len(v3) \in Nat /\ DOMAIN v3 = 1 .. Len(v3)
  BY OutboundTypes
<1>1. \A m \in 1 .. Len(v3) : v3[m].socket = 1 /\ v3[m].state \in {"waiting", "late"}
  BY <1>0, OutboundTypes
  DEF OutboundInv, Outbound!FlushesOnce, Outbound!client, Outbound!SentMessage
<1>2. Outbound!Waiting(1) = 1 .. Len(v3)
  BY <1>0, <1>1 DEF Outbound!Waiting
<1> DEFINE all == Outbound!Waiting(1)
<1>3. \A S : Outbound!Cardinality(S) = Cardinality(S)
  BY DEF Outbound!Cardinality, Cardinality
<1>4. Outbound!Cardinality(all) = Len(v3)
  BY <1>0, <1>2, <1>3, FS_Interval
<1>5. ASSUME NEW m \in all
      PROVE  Outbound!Cardinality({k \in all : k <= m}) = m
  <2>1. {k \in all : k <= m} = 1 .. m /\ m \in 1 .. Len(v3)
    BY <1>0, <1>2
  <2>2. Cardinality(1 .. m) = m
    BY <1>0, <2>1, FS_Interval
  <2> HIDE DEF all
  <2> QED BY <1>3, <2>1, <2>2
<1>6. Outbound!Flushed(1) =
        [i \in 1 .. Outbound!Cardinality(all) |->
           CHOOSE m \in all : Outbound!Cardinality({k \in all : k <= m}) = i]
  BY DEF Outbound!Flushed
<1> HIDE DEF all
<1>7. ASSUME NEW i \in all
      PROVE  (CHOOSE m \in all : Outbound!Cardinality({k \in all : k <= m}) = i) = i
  BY <1>5
<1>8. all = 1 .. Len(v3)
  BY <1>2 DEF all
<1> QED BY <1>2, <1>4, <1>6, <1>7, <1>8

(* Nothing waits for another socket than the client. *)
LEMMA OutboundNoneFlushed ==
  ASSUME OutboundInv, NEW s \in 1 .. Len(v1), s # 1
  PROVE  Outbound!Waiting(s) = {} /\ Outbound!Flushed(s) = <<>>
<1>1. Outbound!Waiting(s) = {}
  BY OutboundTypes DEF Outbound!Waiting, Outbound!SentMessage, Outbound!client
<1>2. Outbound!Cardinality({}) = 0
  BY FS_EmptySet DEF Outbound!Cardinality, Cardinality
<1>3. Outbound!Flushed(s) \in [1 .. 0 -> {}]
  BY <1>1, <1>2 DEF Outbound!Flushed
<1>4. Outbound!Flushed(s) \in Seq({}) /\ Len(Outbound!Flushed(s)) = 0
  BY <1>3
<1> QED BY <1>1, <1>4, EmptySeq

LEMMA OutboundOpens ==
  ASSUME OutboundInv, NEW s \in 1 .. Len(v1), Outbound!Open(s)
  PROVE  OutboundInv'
<1>0. v1[s] \in Outbound!Socket /\ v1[s].state = "connecting" /\ UNCHANGED <<v2, v5>>
  BY OutboundTypes DEF Outbound!Open
<1>1. ASSUME NEW state \in {"open", "closing"}, v1' = [v1 EXCEPT ![s].state = state]
      PROVE  /\ v1' \in Seq(Outbound!Socket) /\ v1' # <<>> /\ v2' \in Nat
             /\ v1'[1].state = IF s = 1 THEN state ELSE v1[1].state
             /\ Outbound!OneUnderWay' /\ Outbound!ClosesOnce'
  <2> DEFINE next == [v1[s] EXCEPT !.state = state]
  <2>1. v1' = [v1 EXCEPT ![s] = next]
    BY <1>1
  <2>2. /\ next \in Outbound!Socket /\ next.state = state /\ next.listening = v1[s].listening
        /\ next.known = v1[s].known /\ next.closes = v1[s].closes
    BY <1>0 DEF Outbound!Socket, Outbound!Live
  <2>3. next.state \in Outbound!Live /\ v1[s].state \in Outbound!Live
    BY <1>0, <2>2 DEF Outbound!Live
  <2> HIDE DEF next
  <2>4. v2' \in {v2, v2 + 1}
    BY <1>0
  <2>5. /\ v1' \in Seq(Outbound!Socket) /\ v1' # <<>> /\ v2' \in Nat
        /\ v1'[1] = IF s = 1 THEN next ELSE v1[1]
        /\ Outbound!OneUnderWay' /\ Outbound!ClosesOnce'
    BY <1>0, <2>1, <2>2, <2>3, <2>4, OutboundSocket
  <2> QED BY <2>2, <2>5
<1>2. v5' \in 0 .. MaxFrames
  BY <1>0 DEF OutboundInv, Outbound!TypeOK
<1>3. PICK state \in {"open", "closing"} :
        /\ v1' = [v1 EXCEPT ![s].state = state]
        /\ IF state = "open" THEN v4' = v4 \o Outbound!Flushed(s) ELSE v4' = v4
        /\ Outbound!Settle(Outbound!Waiting(s), IF state = "open" THEN "resolved" ELSE "rejected")
  <2>1. CASE v1' = [v1 EXCEPT ![s].state = "open"] /\ v4' = v4 \o Outbound!Flushed(s)
             /\ Outbound!Settle(Outbound!Waiting(s), "resolved")
    BY <2>1
  <2>2. CASE v1' = [v1 EXCEPT ![s].state = "closing"] /\ v4' = v4
             /\ Outbound!Settle(Outbound!Waiting(s), "rejected")
    BY <2>2
  <2> QED BY <2>1, <2>2 DEF Outbound!Open
<1>4. CASE s # 1
  <2>1. Outbound!Waiting(s) = {} /\ Outbound!Flushed(s) = <<>>
    BY <1>4, OutboundNoneFlushed
  <2>2. v4' = v4
    BY <1>3, <2>1, OutboundTypes, ConcatEmptySeq
  <2>3. v3' = v3
    <3>1. v3' = [m \in DOMAIN v3 |-> v3[m]]
      BY <1>3, <2>1 DEF Outbound!Settle
    <3> QED BY <3>1, OutboundTypes
  <2> QED BY <1>1, <1>2, <1>3, <1>4, <2>2, <2>3, OutboundQuiet
<1>5. CASE s = 1
  <2> DEFINE how == IF state = "open" THEN "resolved" ELSE "rejected"
             Settled(m) == IF v3[m].state = "late" THEN "rejected" ELSE how
  <2>0. v1 # <<>> /\ v1[1].state = "connecting" /\ Len(v3) \in Nat /\ DOMAIN v3 = 1 .. Len(v3)
        /\ v4 = <<>>
    BY <1>0, <1>5, OutboundTypes, EmptySeq DEF OutboundInv, Outbound!FlushesOnce, Outbound!client
  <2>1. Outbound!Waiting(1) = 1 .. Len(v3) /\ Outbound!Flushed(1) = [i \in 1 .. Len(v3) |-> i]
    BY <2>0, OutboundFlushed
  <2>2. v3' = [m \in 1 .. Len(v3) |-> [v3[m] EXCEPT !.state = Settled(m)]]
    BY <1>3, <1>5, <2>0, <2>1 DEF Outbound!Settle
  <2>3. \A m \in 1 .. Len(v3) :
          /\ [v3[m] EXCEPT !.state = Settled(m)] \in Outbound!SentMessage
          /\ [v3[m] EXCEPT !.state = Settled(m)].state = Settled(m)
    BY OutboundTypes DEF Outbound!SentMessage
  <2>4. /\ v3' \in Seq(Outbound!SentMessage) /\ Len(v3') = Len(v3) /\ DOMAIN v3' = 1 .. Len(v3)
        /\ \A m \in 1 .. Len(v3) : v3'[m].state = Settled(m)
    <3> HIDE DEF Settled
    <3>1. v3' \in [1 .. Len(v3) -> Outbound!SentMessage]
      BY <2>2, <2>3
    <3>2. \A m \in 1 .. Len(v3) : v3'[m].state = Settled(m)
      BY <2>2, <2>3
    <3> QED BY <2>0, <3>1, <3>2
  <2>5. CASE state = "open"
    <3>1. Outbound!Flushed(1) \in Seq(1 .. MaxSends) /\ Len(Outbound!Flushed(1)) = Len(v3)
      BY <2>0, <2>1, OutboundTypes
    <3>2. v4' = Outbound!Flushed(1)
      BY <1>3, <1>5, <2>0, <2>5, <3>1, ConcatEmptySeq
    <3>3. DOMAIN v4' = 1 .. Len(v3) /\ \A i \in 1 .. Len(v3) : v4'[i] = i
      BY <2>1, <3>2
    <3>4. Outbound!TypeOK'
      BY <1>1, <1>2, <1>3, <2>4, <3>1, <3>2, OutboundTypes DEF Outbound!TypeOK
    <3>5. Outbound!FlushesOnce'
      BY <1>1, <1>3, <1>5, <2>0, <2>4, <2>5, <3>3 DEF Outbound!FlushesOnce, Outbound!client
    <3>6. Outbound!SendsAreOrdered'
      BY <2>0, <2>4, <3>3 DEF Outbound!SendsAreOrdered
    <3> QED BY <1>1, <1>3, <3>4, <3>5, <3>6 DEF OutboundInv
  <2>6. CASE state = "closing"
    <3>1. v4' = v4
      BY <1>3, <2>6
    <3>2. \A m \in 1 .. Len(v3) : v3'[m].state = "rejected"
      BY <2>4, <2>6
    <3>3. Outbound!TypeOK'
      BY <1>1, <1>2, <1>3, <2>4, <3>1, OutboundTypes DEF Outbound!TypeOK
    <3>4. Outbound!FlushesOnce'
      BY <1>1, <1>3, <1>5, <2>4, <2>6, <3>1 DEF OutboundInv, Outbound!FlushesOnce, Outbound!client
    <3>5. Outbound!SendsAreOrdered'
      BY <2>4, <3>1, <3>2 DEF OutboundInv, Outbound!SendsAreOrdered
    <3> QED BY <1>1, <1>3, <3>3, <3>4, <3>5 DEF OutboundInv
  <2> QED BY <2>5, <2>6
<1> QED BY <1>4, <1>5

(* The host sends: at once, not at all, or when the client opens. *)
LEMMA OutboundSends ==
  ASSUME OutboundInv, Outbound!Send
  PROVE  OutboundInv'
<1> DEFINE n == Len(v3) + 1
<1>0. /\ v1 # <<>> /\ UNCHANGED <<v1, v2, v5>> /\ Len(v3) \in Nat /\ n <= MaxSends
      /\ n \in 1 .. MaxSends
  BY OutboundTypes DEF Outbound!Send
<1>1. PICK state \in {"waiting", "resolved", "rejected"} :
        /\ v3' = Append(v3, [socket |-> 1, state |-> state])
        /\ IF state = "resolved" THEN v4' = Append(v4, n) ELSE v4' = v4
        /\ v1[1].state = "connecting" => state = "waiting"
  BY DEF Outbound!Send, Outbound!CanSend, Outbound!client
<1>2. [socket |-> 1, state |-> state] \in Outbound!SentMessage
  BY DEF Outbound!SentMessage, Outbound!client
<1>3. /\ v3' \in Seq(Outbound!SentMessage) /\ Len(v3') = n /\ DOMAIN v3' = 1 .. n
      /\ \A m \in 1 .. Len(v3) : v3'[m] = v3[m]
      /\ v3'[n].state = state
  <2>1. /\ v3' \in Seq(Outbound!SentMessage) /\ Len(v3') = n
        /\ \A m \in 1 .. Len(v3) : v3'[m] = v3[m]
        /\ v3'[n] = [socket |-> 1, state |-> state]
    BY <1>1, <1>2, OutboundTypes, AppendProperties
  <2> QED BY <2>1, LenProperties
<1>4. \A m \in 1 .. n : m \in 1 .. Len(v3) \/ m = n
  BY <1>0
<1>5. \A i \in 1 .. Len(v4) : v4[i] <= Len(v3) /\ v4[i] \in Nat
  BY OutboundTypes DEF OutboundInv, Outbound!FlushesOnce
<1>6. /\ \A i, j \in 1 .. Len(v4) : i < j => v4[i] < v4[j]
      /\ \A m \in 1 .. Len(v3) : v3[m].state = "resolved" => \E i \in 1 .. Len(v4) : v4[i] = m
  BY OutboundTypes DEF OutboundInv, Outbound!SendsAreOrdered
<1>7. v1[1].state = "connecting" =>
        v4 = <<>> /\ \A m \in 1 .. Len(v3) : v3[m].state \in {"waiting", "late"}
  BY <1>0, OutboundTypes DEF OutboundInv, Outbound!FlushesOnce, Outbound!client
<1> HIDE DEF n
<1>8. CASE state = "resolved"
  <2>1. /\ v4' \in Seq(1 .. MaxSends) /\ Len(v4') = Len(v4) + 1 /\ DOMAIN v4' = 1 .. Len(v4) + 1
        /\ \A i \in 1 .. Len(v4) : v4'[i] = v4[i]
        /\ v4'[Len(v4) + 1] = n
    <3>1. /\ v4' \in Seq(1 .. MaxSends) /\ Len(v4') = Len(v4) + 1
          /\ \A i \in 1 .. Len(v4) : v4'[i] = v4[i]
          /\ v4'[Len(v4) + 1] = n
      <4>1. v4' = Append(v4, n)
        BY <1>1, <1>8
      <4>2. v4 \in Seq(1 .. MaxSends) /\ n \in 1 .. MaxSends
        BY <1>0, OutboundTypes
      <4> QED BY <4>1, <4>2, AppendProperties
    <3> QED BY <3>1, LenProperties
  <2>2. Len(v4) \in Nat /\ \A i \in 1 .. Len(v4) + 1 : i \in 1 .. Len(v4) \/ i = Len(v4) + 1
    BY OutboundTypes
  <2>3. \A i \in 1 .. Len(v4) : v4[i] < n /\ v4[i] <= n
    BY <1>0, <1>5 DEF n
  <2>4. Outbound!TypeOK'
    BY <1>0, <1>3, <2>1 DEF OutboundInv, Outbound!TypeOK
  <2>5. Outbound!FlushesOnce'
    BY <1>0, <1>1, <1>3, <1>8, <2>1, <2>2, <2>3 DEF Outbound!FlushesOnce, Outbound!client
  <2>6. \A i, j \in 1 .. Len(v4) + 1 : i < j => v4'[i] < v4'[j]
    BY <1>6, <2>1, <2>2, <2>3
  <2>7. \A m \in 1 .. n : v3'[m].state = "resolved" => \E i \in 1 .. Len(v4) + 1 : v4'[i] = m
    <3> TAKE m \in 1 .. n
    <3> HAVE v3'[m].state = "resolved"
    <3>1. CASE m = n
      BY <2>1, <2>2, <3>1
    <3>2. CASE m \in 1 .. Len(v3)
      <4>1. PICK i \in 1 .. Len(v4) : v4[i] = m
        BY <1>3, <1>6, <3>2
      <4>2. i \in 1 .. Len(v4) + 1 /\ v4'[i] = m
        BY <2>1, <2>2, <4>1
      <4> QED BY <4>2
    <3> QED BY <1>4, <3>1, <3>2
  <2>8. Outbound!SendsAreOrdered'
    BY <1>3, <2>1, <2>6, <2>7 DEF Outbound!SendsAreOrdered
  <2>9. Outbound!OneUnderWay' /\ Outbound!ClosesOnce'
    BY <1>0 DEF OutboundInv, Outbound!OneUnderWay, Outbound!ClosesOnce, Outbound!Opened
  <2> QED BY <2>4, <2>5, <2>8, <2>9 DEF OutboundInv
<1>9. CASE state # "resolved"
  <2>1. v4' = v4
    BY <1>1, <1>9
  <2>2. Outbound!TypeOK'
    BY <1>0, <1>3, <2>1 DEF OutboundInv, Outbound!TypeOK
  <2>3. \A i \in 1 .. Len(v4) : v4[i] <= n
    BY <1>0, <1>5 DEF n
  <2>4. Outbound!FlushesOnce'
    BY <1>0, <1>1, <1>3, <1>4, <1>7, <2>1, <2>3, OutboundTypes
    DEF Outbound!FlushesOnce, Outbound!client
  <2>5. Outbound!SendsAreOrdered'
    BY <1>3, <1>4, <1>6, <1>9, <2>1, OutboundTypes DEF Outbound!SendsAreOrdered
  <2>6. Outbound!OneUnderWay' /\ Outbound!ClosesOnce'
    BY <1>0 DEF OutboundInv, Outbound!OneUnderWay, Outbound!ClosesOnce, Outbound!Opened
  <2> QED BY <2>2, <2>4, <2>5, <2>6 DEF OutboundInv
<1> QED BY <1>8, <1>9

LEMMA OutboundTimesOut ==
  ASSUME OutboundInv, NEW m \in 1 .. Len(v3), Outbound!Timeout(m)
  PROVE  OutboundInv'
<1> DEFINE late == [v3[m] EXCEPT !.state = "late"]
<1>0. /\ v3[m] \in Outbound!SentMessage /\ v3[m].state = "waiting"
      /\ v3' = [v3 EXCEPT ![m] = late] /\ UNCHANGED <<v1, v2, v4, v5>>
  BY OutboundTypes DEF Outbound!Timeout
<1>1. late \in Outbound!SentMessage /\ late.state = "late"
  BY <1>0 DEF Outbound!SentMessage
<1> HIDE DEF late
<1>2. /\ v3' \in Seq(Outbound!SentMessage) /\ Len(v3') = Len(v3) /\ DOMAIN v3' = DOMAIN v3
      /\ \A k \in 1 .. Len(v3) : v3'[k] = IF k = m THEN late ELSE v3[k]
  BY <1>0, <1>1, OutboundTypes, ExceptSeq
<1>3. Outbound!TypeOK'
  BY <1>0, <1>2 DEF OutboundInv, Outbound!TypeOK
<1>4. Outbound!FlushesOnce'
  <2>1. \A i \in DOMAIN v4 : v4[i] <= Len(v3')
    BY <1>2 DEF OutboundInv, Outbound!FlushesOnce
  <2>2. v1 # <<>>
    BY OutboundTypes, EmptySeq DEF OutboundInv, Outbound!FlushesOnce
  <2>3. v1[1].state = "connecting" =>
          v4 = <<>> /\ \A k \in DOMAIN v3' : v3'[k].state \in {"waiting", "late"}
    BY <1>1, <1>2, <2>2, OutboundTypes DEF OutboundInv, Outbound!FlushesOnce, Outbound!client
  <2> QED BY <1>0, <2>1, <2>2, <2>3 DEF Outbound!FlushesOnce, Outbound!client
<1>5. Outbound!SendsAreOrdered'
  <2>1. \A k \in DOMAIN v3' : v3'[k].state = "resolved" => v3[k].state = "resolved"
    BY <1>1, <1>2, OutboundTypes
  <2> QED BY <1>0, <1>2, <2>1 DEF OutboundInv, Outbound!SendsAreOrdered
<1>6. Outbound!OneUnderWay' /\ Outbound!ClosesOnce'
  BY <1>0 DEF OutboundInv, Outbound!OneUnderWay, Outbound!ClosesOnce, Outbound!Opened
<1> QED BY <1>3, <1>4, <1>5, <1>6 DEF OutboundInv

LEMMA OutboundInvStep == OutboundInv /\ Outbound!Next => OutboundInv'
<1> SUFFICES ASSUME OutboundInv, Outbound!Next
             PROVE  OutboundInv'
  OBVIOUS
<1>0. /\ Outbound!Opened = 1 .. Len(v1) /\ DOMAIN v3 = 1 .. Len(v3)
      /\ \A s \in 1 .. Len(v1) : v1[s] \in Outbound!Socket
      /\ v2 \in Nat /\ v5 \in 0 .. MaxFrames /\ MaxFrames \in Nat
  BY OutboundTypes, BoundsAreNumbers DEF OutboundInv, Outbound!TypeOK
(* A live socket that stays live. *)
<1>1. ASSUME NEW s \in 1 .. Len(v1), NEW state \in {"open", "closing"}, NEW heard \in Nat,
             v1[s].state \in Outbound!Live,
             v1' = [v1 EXCEPT ![s] = [v1[s] EXCEPT !.state = state, !.heard = heard]],
             UNCHANGED <<v2, v3, v4>>, v5' \in 0 .. MaxFrames
      PROVE  OutboundInv'
  <2> DEFINE next == [v1[s] EXCEPT !.state = state, !.heard = heard]
  <2>1. /\ next \in Outbound!Socket /\ next.state = state /\ next.listening = v1[s].listening
        /\ next.known = v1[s].known /\ next.closes = v1[s].closes
    BY <1>0 DEF Outbound!Socket, Outbound!Live
  <2>2. next.state \in Outbound!Live
    BY <2>1 DEF Outbound!Live
  <2>3. v1' = [v1 EXCEPT ![s] = next]
    BY <1>1
  <2> HIDE DEF next
  <2>4. v2' \in {v2, v2 + 1}
    BY <1>1
  <2>5. /\ v1' \in Seq(Outbound!Socket) /\ v1' # <<>> /\ v2' \in Nat
        /\ v1'[1] = IF s = 1 THEN next ELSE v1[1]
        /\ Outbound!OneUnderWay' /\ Outbound!ClosesOnce'
    BY <1>1, <2>1, <2>2, <2>3, <2>4, OutboundSocket
  <2>6. v1'[1].state = "connecting" => v1[1].state = "connecting"
    BY <2>1, <2>5
  <2> QED BY <1>1, <2>5, <2>6, OutboundQuiet
(* One that is closing, with what it had heard. *)
<1>2. ASSUME NEW s \in 1 .. Len(v1), v1[s].state \in Outbound!Live,
             v1' = [v1 EXCEPT ![s].state = "closing"],
             UNCHANGED <<v2, v3, v4>>, v5' \in 0 .. MaxFrames
      PROVE  OutboundInv'
  <2>1. v1[s].heard \in Nat /\ v1' = [v1 EXCEPT ![s] = [v1[s] EXCEPT !.state = "closing", !.heard = v1[s].heard]]
    BY <1>0, <1>2, OutboundTypes DEF Outbound!Socket
  <2> QED BY <1>1, <1>2, <2>1
<1>3. CASE Outbound!HostConnects
  <2>1. v1 = <<>> /\ Outbound!Connect /\ UNCHANGED <<v2, v3, v4, v5>>
    BY <1>3 DEF Outbound!HostConnects
  <2>2. /\ v1' \in Seq(Outbound!Socket) /\ v1' # <<>> /\ v2' \in Nat
        /\ Outbound!OneUnderWay' /\ Outbound!ClosesOnce'
    BY <2>1, OutboundConnect
  <2> QED BY <1>0, <2>1, <2>2, OutboundQuiet
<1>4. CASE Outbound!Reconnect
  <2>1. v2 > 0 /\ v2' = v2 - 1 /\ Outbound!Connect /\ UNCHANGED <<v3, v4, v5>>
    BY <1>4 DEF Outbound!Reconnect
  <2>2. /\ v1' \in Seq(Outbound!Socket) /\ v1' # <<>> /\ v2' \in Nat
        /\ v1 # <<>> => v1'[1] = v1[1]
        /\ Outbound!OneUnderWay' /\ Outbound!ClosesOnce'
    BY <2>1, OutboundConnect
  <2> QED BY <1>0, <2>1, <2>2, OutboundQuiet
<1>5. CASE Outbound!Close
  <2>1. 1 \in 1 .. Len(v1) /\ UNCHANGED <<v3, v4, v5>>
    BY <1>5, OutboundTypes DEF Outbound!Close
  <2>2. CASE v1[1].state = "closed"
    BY <1>5, <2>1, <2>2, OutboundClosed DEF Outbound!Close, Outbound!client
  <2>3. CASE v1[1].state # "closed"
    <3>1. v1[1].state \in Outbound!Live
      BY <1>0, <2>1, <2>3 DEF Outbound!Socket
    <3>2. v1' = [v1 EXCEPT ![1].state = "closing"] /\ UNCHANGED v2
      BY <1>5, <2>3 DEF Outbound!Close, Outbound!client
    <3> QED BY <1>0, <1>2, <2>1, <3>1, <3>2
  <2> QED BY <2>2, <2>3
<1>6. ASSUME NEW s \in 1 .. Len(v1), Outbound!Error(s)
      PROVE  OutboundInv'
  <2>1. v1[s].state \in Outbound!Live
    BY <1>6 DEF Outbound!Error, Outbound!Live
  <2> QED BY <1>0, <1>2, <1>6, <2>1 DEF Outbound!Error
<1>7. ASSUME NEW s \in 1 .. Len(v1), Outbound!Message(s)
      PROVE  OutboundInv'
  <2>1. /\ v1[s].state \in {"open", "closing"} /\ v5' \in 0 .. MaxFrames
        /\ UNCHANGED <<v2, v3, v4>>
    BY <1>0, <1>7 DEF Outbound!Message
  <2>2. v1[s].state \in Outbound!Live /\ v1[s].heard \in Nat
    BY <1>0, <2>1 DEF Outbound!Live, Outbound!Socket
  <2>3. CASE v1' = [v1 EXCEPT ![s].heard = @ + 1]
    <3>1. v1' = [v1 EXCEPT ![s] = [v1[s] EXCEPT !.state = v1[s].state, !.heard = v1[s].heard + 1]]
      BY <1>0, <2>3, OutboundTypes DEF Outbound!Socket
    <3>2. v1[s].heard + 1 \in Nat
      BY <2>2
    <3> QED BY <1>1, <2>1, <2>2, <3>1, <3>2
  <2>4. CASE v1' = [v1 EXCEPT ![s].state = "closing"]
    BY <1>2, <2>1, <2>2, <2>4
  <2>5. CASE UNCHANGED v1
    <3>1. v1' = [v1 EXCEPT ![s] = [v1[s] EXCEPT !.state = v1[s].state, !.heard = v1[s].heard]]
      <4>1. [v1[s] EXCEPT !.state = v1[s].state, !.heard = v1[s].heard] = v1[s]
        BY <1>0 DEF Outbound!Socket
      <4>2. [v1 EXCEPT ![s] = v1[s]] = v1
        BY OutboundTypes
      <4> QED BY <2>5, <4>1, <4>2
    <3> QED BY <1>1, <2>1, <2>2, <3>1
  <2> QED BY <1>7, <2>3, <2>4, <2>5 DEF Outbound!Message
<1>8. ASSUME NEW s \in 1 .. Len(v1), Outbound!CloseEvent(s)
      PROVE  OutboundInv'
  BY <1>8, OutboundClosed DEF Outbound!CloseEvent
<1> QED BY <1>0, <1>3, <1>4, <1>5, <1>6, <1>7, <1>8, OutboundSends, OutboundOpens, OutboundTimesOut
        DEF Outbound!Next

LEMMA OutboundIsKept ==
  (part = "outbound" => OutboundInv) /\ [Next]_<<part, v1, v2, v3, v4, v5, v6, v7, v8, v9, v10>>
    => (part = "outbound" => OutboundInv)'
<1> SUFFICES ASSUME part = "outbound" => OutboundInv,
                    [Next]_<<part, v1, v2, v3, v4, v5, v6, v7, v8, v9, v10>>, part' = "outbound"
             PROVE  OutboundInv'
  OBVIOUS
<1>1. part = "outbound" /\ (Outbound!Next \/ UNCHANGED <<v1, v2, v3, v4, v5>>)
  BY DEF Next, LogsStep, AuditStep, ChartsStep, CardsStep, OutboundStep, UptimeStep, SettingsStep,
         TokensStep, SocketsStep
<1>2. CASE UNCHANGED <<v1, v2, v3, v4, v5>>
  BY <1>1, <1>2 DEF OutboundInv, Outbound!TypeOK, Outbound!OneUnderWay, Outbound!ClosesOnce,
     Outbound!FlushesOnce, Outbound!SendsAreOrdered, Outbound!Opened
<1> QED BY <1>1, <1>2, OutboundInvStep

LEMMA OutboundStarts == Init => (part = "outbound" => OutboundInv)
BY OutboundInvInit DEF Init

LEMMA OutboundInvSuffices == OutboundInv => Outbound!OneConnection
<1> SUFFICES ASSUME OutboundInv
             PROVE  Outbound!OneConnection
  OBVIOUS
<1> DEFINE live == {s \in Outbound!Opened : v1[s].state \in Outbound!Live}
<1>1. \A S : Outbound!Cardinality(S) = Cardinality(S)
  BY DEF Outbound!Cardinality, Cardinality
<1>2. v2 \in Nat /\ v2 <= 1
  BY OutboundTypes DEF OutboundInv, Outbound!OneUnderWay
<1>3. CASE live = {}
  <2>1. Outbound!Cardinality(live) = 0
    BY <1>1, <1>3, FS_EmptySet
  <2> QED BY <1>2, <2>1 DEF OutboundInv, Outbound!OneConnection, Outbound!ClosesOnce
<1>4. CASE live # {}
  <2>1. PICK s \in live : live = {s}
    BY <1>4 DEF OutboundInv, Outbound!OneUnderWay
  <2>2. Cardinality({s}) = 1
    BY FS_Singleton
  <2>3. Outbound!Cardinality(live) = 1
    BY <1>1, <2>1, <2>2
  <2>4. v2 = 0
    BY <2>1 DEF OutboundInv, Outbound!OneUnderWay
  <2> QED BY <2>3, <2>4 DEF OutboundInv, Outbound!OneConnection, Outbound!ClosesOnce
<1> QED BY <1>3, <1>4

(* An outbound client has one connection or one reconnection under way,    *)
(* however often it is closed and whatever the server does; its onClose is *)
(* called once for a socket, and what was sent arrives once and in order.  *)
(* (WebsocketsClients)                                                     *)
THEOREM ClientsSendInOrder == Spec => []ClientsKeepOrder
<1>1. (part = "outbound" => OutboundInv) => ClientsKeepOrder
  BY OutboundInvSuffices DEF OutboundInv, ClientsKeepOrder
<1> QED BY <1>1, OutboundStarts, OutboundIsKept, PTL DEF Spec

-----------------------------------------------------------------------------
(* Sockets: link is v1, auth v2, clients v3, clientsToTerminate v4, peer   *)
(* v5, heartbeat v6 and guard v7                                           *)

(* MarkedAwaitsPong says nothing of a socket that is marked but no client: *)
(* were it added then, it would be a marked client with no ping.           *)
SocketsInv == Ws!TypeOK /\ Ws!OnceAuthenticated /\ Ws!MarkedAwaitsPong

LEMMA SocketsInvInit == Ws!Init => SocketsInv
BY DEF Ws!Init, SocketsInv, Ws!TypeOK, Ws!OnceAuthenticated, Ws!MarkedAwaitsPong

LEMMA SocketsInvStep == SocketsInv /\ Ws!Next => SocketsInv'
<1> SUFFICES ASSUME SocketsInv, Ws!Next
             PROVE  SocketsInv'
  OBVIOUS
<1> USE DEF Ws!TypeOK, SocketsInv, Ws!OnceAuthenticated, Ws!MarkedAwaitsPong
<1>1. CASE Ws!CheckClients
  BY <1>1 DEF Ws!CheckClients, Ws!Closing
<1>2. ASSUME NEW s \in Sockets, Ws!HandleConnection(s)
      PROVE  SocketsInv'
  BY <1>2 DEF Ws!HandleConnection
<1>3. ASSUME NEW s \in Sockets, Ws!HandleDisconnect(s) \/ Ws!FallsSilent(s)
      PROVE  SocketsInv'
  BY <1>3 DEF Ws!HandleDisconnect, Ws!FallsSilent
<1>4. ASSUME NEW s \in Sockets, Ws!Authenticated(s)
      PROVE  SocketsInv'
  BY <1>4 DEF Ws!Authenticated
<1>5. ASSUME NEW s \in Sockets, Ws!Rejected(s) \/ Ws!MiddlewareFailed(s)
      PROVE  SocketsInv'
  BY <1>5 DEF Ws!Rejected, Ws!MiddlewareFailed, Ws!Closing
<1>6. ASSUME NEW s \in Sockets, Ws!Message(s) \/ Ws!CanActivate(s)
      PROVE  SocketsInv'
  BY <1>6 DEF Ws!Message, Ws!CanActivate, Ws!Closing
<1>7. ASSUME NEW s \in Sockets, Ws!PeerAnswers(s) \/ Ws!Pong(s)
      PROVE  SocketsInv'
  BY <1>7 DEF Ws!PeerAnswers, Ws!Pong
<1> QED
  BY <1>1, <1>2, <1>3, <1>4, <1>5, <1>6, <1>7 DEF Ws!Next

LEMMA SocketsAreKept ==
  (part = "sockets" => SocketsInv) /\ [Next]_<<part, v1, v2, v3, v4, v5, v6, v7, v8, v9, v10>>
    => (part = "sockets" => SocketsInv)'
<1> SUFFICES ASSUME part = "sockets" => SocketsInv,
                    [Next]_<<part, v1, v2, v3, v4, v5, v6, v7, v8, v9, v10>>, part' = "sockets"
             PROVE  SocketsInv'
  OBVIOUS
<1>1. part = "sockets" /\ (Ws!Next \/ UNCHANGED <<v1, v2, v3, v4, v5, v6, v7>>)
  BY DEF Next, LogsStep, AuditStep, ChartsStep, CardsStep, OutboundStep, UptimeStep, SettingsStep,
         TokensStep, SocketsStep
<1>2. CASE UNCHANGED <<v1, v2, v3, v4, v5, v6, v7>>
  BY <1>1, <1>2 DEF SocketsInv, Ws!TypeOK, Ws!OnceAuthenticated, Ws!MarkedAwaitsPong
<1> QED BY <1>1, <1>2, SocketsInvStep

LEMMA SocketsStart == Init => (part = "sockets" => SocketsInv)
BY SocketsInvInit DEF Init

(* For any number of sockets: one that answered since the last check is    *)
(* not terminated by the next.  (WsAuthService)                            *)
THEOREM HeartbeatIsFair == Spec => []HeartbeatsAreFair
<1>1. (part = "sockets" => SocketsInv) => HeartbeatsAreFair
  BY DEF SocketsInv, HeartbeatsAreFair
<1> QED BY <1>1, SocketsStart, SocketsAreKept, PTL DEF Spec

-----------------------------------------------------------------------------
(* Charts: now is v1, rows v2, page v3, range v4, pending v5, requests v6, *)
(* shown v7, clicked v8, stale v9 and purged v10                           *)

(* The lemmas about sums and intervals, which hold for any statistics. *)
Sums == INSTANCE StatisticsProofs WITH
  Providers <- {}, Users <- {}, TComplexTarget <- {}, Targets <- {}, TargetIds <- {}, Jobs <- {},
  Week <- 1, Day <- 1, Units <- <<1, 1, 1, 2, 4>>, targetBars <- 1, Offsets <- {}, MaxTime <- 0,
  MaxIncrements <- 0, MaxFaults <- 0,
  now <- 0, up <- FALSE, memory <- {}, job <- {}, table <- {}, left <- {}

LEMMA SumsAssumption == Sums!ConstantsAssumption
<1>1. Sums!IsFiniteSet({})
  BY FS_EmptySet DEF IsFiniteSet, Sums!IsFiniteSet
<1> QED BY <1>1 DEF Sums!ConstantsAssumption

LEMMA ChartsCounts ==
  /\ \A S : Sums!IsFiniteSet(S) <=> Charts!IsFiniteSet(S)
  /\ \A f, S : Charts!SumFunctionOnSet(f, S) = Sums!SumFunctionOnSet(f, S)
  /\ \A f : Charts!SumFunction(f) = Sums!SumFunctionOnSet(f, DOMAIN f)
<1>1. \A S : Sums!IsFiniteSet(S) <=> Charts!IsFiniteSet(S)
  BY DEF Sums!IsFiniteSet, Charts!IsFiniteSet
<1>2. \A f, S : Charts!SumFunctionOnSet(f, S) = Sums!SumFunctionOnSet(f, S)
  BY DEF Charts!SumFunctionOnSet, Charts!FoldFunctionOnSet, Charts!MapThenFoldSet,
         Sums!SumFunctionOnSet, Sums!FoldFunctionOnSet, Sums!MapThenFoldSet
<1>3. \A f : Charts!SumFunction(f) = Charts!SumFunctionOnSet(f, DOMAIN f)
  BY DEF Charts!SumFunction, Charts!SumFunctionOnSet, Charts!FoldFunction
<1> QED BY <1>1, <1>2, <1>3

(* The units and timezones that MCServices gives the timelines. *)
Units == {1, 2, 4}
ShortUnits == {1, 2}
Zones == {[before |-> 0, after |-> 0], [before |-> 1, after |-> 2]}

LEMMA ChartsUnits ==
  /\ DOMAIN <<1, 1, 1, 2, 4>> = 1 .. 5 /\ Len(<<1, 1, 1, 2, 4>>) = 5
  /\ \A i \in 1 .. 5 : <<1, 1, 1, 2, 4>>[i] \in Units
  /\ \A u \in Units : u \in Nat /\ u > 0
  /\ \A u \in ShortUnits : u \in Units /\ u \in Nat /\ u > 0 /\ u # 4
  /\ \A u \in Units : u # 4 => u \in ShortUnits
BY DEF Units, ShortUnits

(* A week is two days of two units. *)
LEMMA ChartsWeek ==
  /\ Charts!AWeek = 4 /\ \A u : Charts!Sunday(u) = IF u = 4 THEN 2 ELSE 0
  /\ Sums!AWeek = 4 /\ \A u : Sums!Sunday(u) = IF u = 4 THEN 2 ELSE 0
<1>1. Len(<<1, 1, 1, 2, 4>>) = 5 /\ <<1, 1, 1, 2, 4>>[5] = 4 /\ <<1, 1, 1, 2, 4>>[4] = 2
  OBVIOUS
<1>2. Charts!AWeek = 4 /\ Sums!AWeek = 4
  BY <1>1 DEF Charts!AWeek, Sums!AWeek
<1> QED BY <1>1, <1>2 DEF Charts!Sunday, Sums!Sunday

LEMMA ChartsDivided ==
  ASSUME NEW n \in Int, NEW u \in Units
  PROVE  \E p \in Int : n % u \in Int /\ n - (n % u) = u * p /\ u * p \in Int /\ u * p <= n /\ n < (u * p) + u
<1>1. CASE u = 1
  BY <1>1
<1>2. CASE u = 2
  BY <1>2
<1>3. CASE u = 4
  BY <1>3
<1> QED BY <1>1, <1>2, <1>3 DEF Units

LEMMA ChartsOffset ==
  ASSUME NEW zone \in Zones, NEW t \in Int
  PROVE  /\ Charts!Offset(zone, t) \in Int
         /\ \/ Charts!Offset(zone, t) = 0 /\ zone = [before |-> 0, after |-> 0]
            \/ Charts!Offset(zone, t) = 1 /\ t < 2 /\ zone = [before |-> 1, after |-> 2]
            \/ Charts!Offset(zone, t) = 2 /\ t >= 2 /\ zone = [before |-> 1, after |-> 2]
BY DEF Charts!Offset, Zones

LEMMA ChartsStarted ==
  ASSUME NEW zone \in Zones, NEW t \in Int, NEW u \in Units, NEW shift \in Int
  PROVE  \E p \in Int :
           /\ u * p \in Int
           /\ u * p <= t + Charts!Offset(zone, t) + shift /\ t + Charts!Offset(zone, t) + shift < (u * p) + u
           /\ Charts!Started(t, u, zone, shift) =
                (u * p) - shift - Charts!Offset(zone, (u * p) - shift - Charts!Offset(zone, t))
           /\ Sums!DateTrunc(t, u, Charts!Offset(zone, t) + shift) = (u * p) - shift - Charts!Offset(zone, t)
<1>1. PICK n \in Int : n = t + Charts!Offset(zone, t) + shift
  BY ChartsOffset
<1>2. PICK p \in Int : n - (n % u) = u * p /\ u * p \in Int /\ u * p <= n /\ n < (u * p) + u
                       /\ n % u \in Int
  BY ChartsDivided
<1>o. PICK o \in Int : o = Charts!Offset(zone, t)
  BY ChartsOffset
<1>a. (t + o) - (n % u) = (u * p) - shift /\ n = (t + o) + shift /\ n = t + (o + shift)
  BY <1>1, <1>2, <1>o
<1>3. Charts!Started(t, u, zone, shift) =
        (u * p) - shift - Charts!Offset(zone, (u * p) - shift - Charts!Offset(zone, t))
  BY <1>o, <1>a DEF Charts!Started
<1>4. Sums!DateTrunc(t, u, o + shift) = t - (n % u)
  BY <1>a DEF Sums!DateTrunc
<1>5. t - (n % u) = (u * p) - shift - o
  BY <1>a, <1>2
<1> QED BY <1>1, <1>2, <1>3, <1>4, <1>5, <1>o

LEMMA ChartsUnitStart ==
  ASSUME NEW zone \in Zones, NEW t \in Int, NEW u \in ShortUnits
  PROVE  \E p \in Int :
           /\ u * p \in Int
           /\ u * p <= t + Charts!Offset(zone, t) /\ t + Charts!Offset(zone, t) < (u * p) + u
           /\ Charts!StartOf(t, u, zone) = (u * p) - Charts!Offset(zone, (u * p) - Charts!Offset(zone, t))
           /\ Sums!StartOf(t, u, Charts!Offset(zone, t)) = (u * p) - Charts!Offset(zone, t)
<1>1. PICK o \in Int : o = Charts!Offset(zone, t)
  BY ChartsOffset
<1>2. u \in Units /\ Charts!Sunday(u) = 0 /\ Sums!Sunday(u) = 0
  BY ChartsUnits, ChartsWeek
<1>0. PICK shift \in Int : shift = 0
  OBVIOUS
<1>3. PICK p \in Int :
           /\ u * p \in Int
           /\ u * p <= t + Charts!Offset(zone, t) + shift /\ t + Charts!Offset(zone, t) + shift < (u * p) + u
           /\ Charts!Started(t, u, zone, shift) =
                (u * p) - shift - Charts!Offset(zone, (u * p) - shift - Charts!Offset(zone, t))
           /\ Sums!DateTrunc(t, u, Charts!Offset(zone, t) + shift) = (u * p) - shift - Charts!Offset(zone, t)
  BY <1>2, ChartsStarted, Zenon
<1>4. (u * p) - shift = u * p /\ t + o + shift = t + o
  BY <1>0, <1>3
<1>5. Sums!StartOf(t, u, o) = Sums!DateTrunc(t, u, o + shift)
  BY <1>0, <1>2 DEF Sums!StartOf
<1>6. Charts!StartOf(t, u, zone) = Charts!Started(t, u, zone, shift)
  BY <1>0, <1>2 DEF Charts!StartOf
<1> QED BY <1>1, <1>3, <1>4, <1>5, <1>6

LEMMA ChartsShortStart ==
  ASSUME NEW zone \in Zones, NEW t \in Int, NEW u \in ShortUnits
  PROVE  Charts!DateTrunc(t, u, zone) = Charts!StartOf(t, u, zone)
BY ChartsUnits, ChartsWeek DEF Charts!DateTrunc, Charts!StartOf

(* The week that a bar starts is never the week of a row. *)
LEMMA ChartsWeeksDiffer ==
  ASSUME NEW zone \in Zones, NEW s \in Int, NEW t \in Int, NEW time \in Int,
         (time - Charts!StartOf(s, 4, zone)) % 4 = 0
  PROVE  Charts!DateTrunc(t, 4, zone) # time
<1>1. PICK u \in Units, shift \in Int, none \in Int : u = 4 /\ shift = 2 /\ none = 0 /\ Charts!Sunday(4) = 2
  BY ChartsWeek DEF Units
<1>2. PICK p \in Int :
           /\ u * p \in Int
           /\ u * p <= s + Charts!Offset(zone, s) + shift /\ s + Charts!Offset(zone, s) + shift < (u * p) + u
           /\ Charts!Started(s, u, zone, shift) =
                (u * p) - shift - Charts!Offset(zone, (u * p) - shift - Charts!Offset(zone, s))
           /\ Sums!DateTrunc(s, u, Charts!Offset(zone, s) + shift) = (u * p) - shift - Charts!Offset(zone, s)
  BY ChartsStarted, Zenon
<1>3. PICK q \in Int :
           /\ u * q \in Int
           /\ u * q <= t + Charts!Offset(zone, t) + none /\ t + Charts!Offset(zone, t) + none < (u * q) + u
           /\ Charts!Started(t, u, zone, none) =
                (u * q) - none - Charts!Offset(zone, (u * q) - none - Charts!Offset(zone, t))
           /\ Sums!DateTrunc(t, u, Charts!Offset(zone, t) + none) = (u * q) - none - Charts!Offset(zone, t)
  BY ChartsStarted, Zenon
<1>4. PICK a \in Int : a = Charts!Offset(zone, (u * p) - shift - Charts!Offset(zone, s)) /\ (zone.before = 0 => a = 0)
                       /\ (zone.before = 1 => a \in 1 .. 2)
  BY <1>1, <1>2, ChartsOffset
<1>5. PICK b \in Int : b = Charts!Offset(zone, (u * q) - none - Charts!Offset(zone, t)) /\ (zone.before = 0 => b = 0)
                       /\ (zone.before = 1 => b \in 1 .. 2)
  BY <1>1, <1>3, ChartsOffset
<1>6. zone.before \in {0, 1}
  BY DEF Zones
<1>7. Charts!StartOf(s, 4, zone) = (u * p) - shift - a
  BY <1>1, <1>2, <1>4 DEF Charts!StartOf
<1>8. Charts!DateTrunc(t, 4, zone) = (u * q) - b
  BY <1>1, <1>3, <1>5 DEF Charts!DateTrunc
<1> QED BY <1>1, <1>4, <1>5, <1>6, <1>7, <1>8

(* Multiples of a unit are one, or all even. *)
LEMMA ChartsMultiples ==
  ASSUME NEW u \in ShortUnits, NEW p \in Int
  PROVE  u # 1 => u * p # 3
BY DEF ShortUnits

(* Where the offset is the same at the start of the first bar and at the   *)
(* end, one offset does for every time between.                            *)
LEMMA ChartsOneOffset ==
  ASSUME NEW zone \in Zones, NEW s \in Int, NEW e \in Int, s <= e, NEW u \in ShortUnits,
         Charts!Offset(zone, Charts!StartOf(s, u, zone)) = Charts!Offset(zone, e)
  PROVE  \E o \in Int : \A t \in Int :
           s <= t /\ t <= e => Charts!StartOf(t, u, zone) = Sums!StartOf(t, u, o)
<1>0. Charts!Offset(zone, e) \in Int
  BY ChartsOffset
<1> SUFFICES ASSUME NEW t \in Int, s <= t, t <= e
             PROVE  Charts!StartOf(t, u, zone) = Sums!StartOf(t, u, Charts!Offset(zone, e))
  BY <1>0
<1>u. u \in Nat /\ u > 0
  BY ChartsUnits
<1>1. PICK p \in Int :
           /\ u * p \in Int
           /\ u * p <= t + Charts!Offset(zone, t) /\ t + Charts!Offset(zone, t) < (u * p) + u
           /\ Charts!StartOf(t, u, zone) = (u * p) - Charts!Offset(zone, (u * p) - Charts!Offset(zone, t))
           /\ Sums!StartOf(t, u, Charts!Offset(zone, t)) = (u * p) - Charts!Offset(zone, t)
  BY ChartsUnitStart, Zenon
<1>2. PICK q \in Int :
           /\ u * q \in Int
           /\ u * q <= s + Charts!Offset(zone, s) /\ s + Charts!Offset(zone, s) < (u * q) + u
           /\ Charts!StartOf(s, u, zone) = (u * q) - Charts!Offset(zone, (u * q) - Charts!Offset(zone, s))
           /\ Sums!StartOf(s, u, Charts!Offset(zone, s)) = (u * q) - Charts!Offset(zone, s)
  BY ChartsUnitStart, Zenon
<1>3. SUFFICES /\ Charts!Offset(zone, t) = Charts!Offset(zone, e)
               /\ Charts!Offset(zone, (u * p) - Charts!Offset(zone, t)) = Charts!Offset(zone, e)
  BY <1>1
<1>4. PICK P \in Int, Q \in Int : P = u * p /\ Q = u * q
  BY <1>1, <1>2
<1>5. CASE zone = [before |-> 0, after |-> 0]
  BY <1>5 DEF Charts!Offset
<1>6. CASE zone = [before |-> 1, after |-> 2] /\ e < 2
  BY <1>1, <1>4, <1>6 DEF Charts!Offset
<1>7. CASE zone = [before |-> 1, after |-> 2] /\ e >= 2
  <2>1. Charts!StartOf(s, u, zone) >= 2
    BY <1>2, <1>4, <1>7, ChartsOffset DEF Charts!Offset
  <2>2. s >= 2 /\ Charts!Offset(zone, s) = 2
    BY <1>2, <1>4, <1>7, <2>1 DEF Charts!Offset
  <2>3. Q >= 4
    <3>1. Q >= 3
      BY <1>2, <1>4, <1>7, <2>1, <2>2 DEF Charts!Offset
    <3>2. Q # 3
      BY <1>2, <1>4, <2>2, ChartsMultiples
    <3> QED BY <3>1, <3>2
  <2>4. t >= 2 /\ Charts!Offset(zone, t) = 2
    BY <1>7, <2>2 DEF Charts!Offset
  <2>5. P >= Q
    <3>1. (u * p) + u = u * (p + 1) /\ u * (p + 1) \in Int
      BY <1>u, <1>1
    <3>2. u * q < u * (p + 1)
      BY <1>1, <1>2, <2>2, <2>4, <3>1
    <3>3. p + 1 <= q <=> u * (p + 1) <= u * q
      BY <1>u, SumsAssumption, Sums!Multiplied
    <3>4. q <= p
      BY <1>2, <3>1, <3>2, <3>3
    <3>5. q <= p <=> u * q <= u * p
      BY <1>u, SumsAssumption, Sums!Multiplied
    <3> QED BY <1>4, <3>4, <3>5
  <2>6. P - 2 >= 2
    BY <2>3, <2>5
  <2> QED BY <1>4, <1>7, <2>4, <2>6 DEF Charts!Offset
<1> QED BY <1>5, <1>6, <1>7 DEF Zones

ChartsUnit(s, e) == <<1, 1, 1, 2, 4>>[Charts!DetermineInterval(s, e)]

LEMMA ChartsUnitType ==
  ASSUME NEW s \in Int, NEW e \in Int
  PROVE  /\ ChartsUnit(s, e) \in Units
         /\ e - s \in Units => ChartsUnit(s, e) = e - s
<1> DEFINE fits == {i \in 1 .. 5 : e - s <= <<1, 1, 1, 2, 4>>[i]}
<1>0. fits = {i \in DOMAIN <<1, 1, 1, 2, 4>> : e - s <= 1 * <<1, 1, 1, 2, 4>>[i]}
  <2>1. \A i \in 1 .. 5 : 1 * <<1, 1, 1, 2, 4>>[i] = <<1, 1, 1, 2, 4>>[i]
    BY ChartsUnits
  <2> QED BY <2>1, ChartsUnits
<1>1. Charts!DetermineInterval(s, e) = IF fits = {} THEN 5 ELSE Charts!Min(fits)
  BY <1>0, ChartsUnits, Zenon DEF Charts!DetermineInterval
<1>2. CASE fits = {}
  BY <1>1, <1>2 DEF ChartsUnit, Units
<1>3. CASE fits # {}
  <2>1. PICK k \in fits : \A i \in fits : k <= i
    <3>1. fits \in SUBSET Nat
      OBVIOUS
    <3>2. PICK m \in fits : \A i \in fits : ~(i < m)
      <4> HIDE DEF fits
      <4> QED BY <1>3, <3>1, SumsAssumption, Sums!SmallestNat
    <3> QED BY <3>1, <3>2
  <2>2. Charts!Min(fits) \in fits /\ \A i \in fits : Charts!Min(fits) <= i
    BY <2>1 DEF Charts!Min
  <2>3. Charts!DetermineInterval(s, e) \in fits /\ \A i \in fits : Charts!DetermineInterval(s, e) <= i
    BY <1>1, <1>3, <2>2
  <2>4. PICK n \in 1 .. 5 : n = Charts!DetermineInterval(s, e) /\ e - s <= <<1, 1, 1, 2, 4>>[n]
                            /\ \A i \in 1 .. 5 : e - s <= <<1, 1, 1, 2, 4>>[i] => n <= i
    BY <2>3
  <2>5. n \in {1, 2, 3, 4, 5} /\ {1, 2, 3, 4, 5} = 1 .. 5
    BY <2>4
  <2>6. ChartsUnit(s, e) = <<1, 1, 1, 2, 4>>[n]
    BY <2>4 DEF ChartsUnit
  <2>7. ASSUME e - s \in Units
        PROVE  <<1, 1, 1, 2, 4>>[n] = e - s
    BY <2>4, <2>5, <2>7 DEF Units
  <2> QED BY <2>5, <2>6, <2>7 DEF Units
<1> QED BY <1>2, <1>3

LEMMA ChartsRange == Charts!Range(<<1, 1, 1, 2, 4>>) = Units
<1>1. DOMAIN <<1, 1, 1, 2, 4>> = {1, 2, 3, 4, 5}
  OBVIOUS
<1> QED BY <1>1 DEF Charts!Range, Units

LEMMA ChartsNone == None \notin Int
BY ConstantsAssumption

LEMMA ChartsRows ==
  ASSUME v2 \in [Charts!Instants -> Nat], NEW T \in SUBSET Charts!Instants
  PROVE  Sums!IsFiniteSet(T) /\ (\A t \in T : v2[t] \in Nat /\ v2[t] \in Int) /\ T \subseteq Int
<1>1. MaxTime \in Nat
  BY ConstantsAssumption
<1>2. IsFiniteSet(T)
  <2>1. IsFiniteSet(0 .. MaxTime) /\ T \subseteq 0 .. MaxTime
    BY <1>1, FS_Interval DEF Charts!Instants
  <2> QED BY <2>1, FS_Subset
<1>3. Sums!IsFiniteSet(T)
  BY <1>2 DEF IsFiniteSet, Sums!IsFiniteSet
<1> QED BY <1>1, <1>3 DEF Charts!Instants

ChartsBars(s, e, zone) ==
  Charts!Series(Charts!StartOf(s, ChartsUnit(s, e), zone), Charts!StartOf(e, ChartsUnit(s, e), zone), ChartsUnit(s, e))

LEMMA ChartsTimeline ==
  ASSUME NEW s \in Int, NEW e \in Int, NEW zone
  PROVE  Charts!GetTimeline([from |-> s, to |-> e], zone) =
           [time \in ChartsBars(s, e, zone) |-> Charts!Bar(time, ChartsUnit(s, e), zone, s, e)]
BY ChartsNone DEF Charts!GetTimeline, ChartsUnit, ChartsBars

LEMMA ChartsBarsAreFinite ==
  ASSUME NEW zone \in Zones, NEW s \in Int, NEW e \in Int
  PROVE  Sums!IsFiniteSet(ChartsBars(s, e, zone)) /\ ChartsBars(s, e, zone) \subseteq Int
<1>1. ASSUME NEW t \in Int
      PROVE  Charts!StartOf(t, ChartsUnit(s, e), zone) \in Int
  <2>1. ChartsUnit(s, e) \in Units
    BY ChartsUnitType
  <2>2. PICK u \in Units : u = ChartsUnit(s, e)
    BY <2>1
  <2>0. PICK shift \in Int : shift = Charts!Sunday(u)
    BY ChartsWeek
  <2>3. PICK p \in Int :
           /\ u * p \in Int
           /\ u * p <= t + Charts!Offset(zone, t) + shift /\ t + Charts!Offset(zone, t) + shift < (u * p) + u
           /\ Charts!Started(t, u, zone, shift) =
                (u * p) - shift - Charts!Offset(zone, (u * p) - shift - Charts!Offset(zone, t))
           /\ Sums!DateTrunc(t, u, Charts!Offset(zone, t) + shift) = (u * p) - shift - Charts!Offset(zone, t)
    BY ChartsStarted, Zenon
  <2>4. \A n \in Int : Charts!Offset(zone, n) \in Int
    BY ChartsOffset
  <2> QED BY <2>0, <2>2, <2>3, <2>4 DEF Charts!StartOf
<1>2. PICK a \in Int, b \in Int : a = Charts!StartOf(s, ChartsUnit(s, e), zone)
                               /\ b = Charts!StartOf(e, ChartsUnit(s, e), zone)
  BY <1>1
<1>3. ChartsBars(s, e, zone) \subseteq a .. b
  BY <1>2 DEF ChartsBars, Charts!Series
<1>4. IsFiniteSet(ChartsBars(s, e, zone))
  BY <1>3, FS_Interval, FS_Subset
<1>5. Sums!IsFiniteSet(ChartsBars(s, e, zone))
  BY <1>4 DEF IsFiniteSet, Sums!IsFiniteSet
<1> QED BY <1>3, <1>5

(* The bars of a range within one offset add up. *)
LEMMA ChartsSums ==
  ASSUME v2 \in [Charts!Instants -> Nat], NEW zone \in Zones,
         NEW s \in Int, NEW e \in Int, s <= e, ChartsUnit(s, e) # 4,
         Charts!Offset(zone, Charts!StartOf(s, ChartsUnit(s, e), zone)) = Charts!Offset(zone, e)
  PROVE  Charts!Total(Charts!GetTimeline([from |-> s, to |-> e], zone)) = Charts!Count(Charts!Between(s, e))
<1>u. PICK u \in ShortUnits : u = ChartsUnit(s, e)
  BY ChartsUnits, ChartsUnitType
<1>v. u \in Nat /\ u > 0
  BY ChartsUnits
<1>o. PICK o \in Int : \A t \in Int :
        s <= t /\ t <= e => Charts!StartOf(t, u, zone) = Sums!StartOf(t, u, o)
  <2>1. Charts!Offset(zone, Charts!StartOf(s, u, zone)) = Charts!Offset(zone, e)
    BY <1>u
  <2> HIDE DEF ChartsUnit
  <2> QED BY <2>1, ChartsOneOffset
<1> DEFINE B == ChartsBars(s, e, zone)
           S == Charts!Between(s, e)
<1>1. Charts!Total(Charts!GetTimeline([from |-> s, to |-> e], zone)) =
        Sums!SumFunctionOnSet([time \in B |-> Charts!Bar(time, u, zone, s, e).records], B)
  <2>1. PICK g : g = Charts!GetTimeline([from |-> s, to |-> e], zone)
    OBVIOUS
  <2>2. g = [time \in B |-> Charts!Bar(time, u, zone, s, e)]
    BY <1>u, <2>1, ChartsTimeline
  <2>3. [time \in DOMAIN g |-> g[time].records] = [time \in B |-> Charts!Bar(time, u, zone, s, e).records]
    BY <2>2
  <2>4. Charts!Total(g) = Charts!SumFunction([time \in DOMAIN g |-> g[time].records])
    BY DEF Charts!Total
  <2> HIDE DEF B
  <2>5. PICK h : h = [time \in B |-> Charts!Bar(time, u, zone, s, e).records]
    OBVIOUS
  <2>6. Charts!SumFunction(h) = Sums!SumFunctionOnSet(h, DOMAIN h) /\ DOMAIN h = B
    BY <2>5, ChartsCounts
  <2> QED BY <2>1, <2>3, <2>4, <2>5, <2>6
<1>2. S \in SUBSET Charts!Instants /\ S \subseteq Int /\ \A t \in S : s <= t /\ t <= e
  BY ConstantsAssumption DEF Charts!Between, Charts!Instants
<1>3. PICK f : f = v2
  OBVIOUS
<1>4. PICK own : own = [t \in S |-> Charts!StartOf(t, u, zone)]
  OBVIOUS
<1>5. PICK h : h = [time \in B |-> Charts!Bar(time, u, zone, s, e).records]
  OBVIOUS
<1>6. Sums!IsFiniteSet(S) /\ \A t \in S : f[t] \in Int
  BY <1>2, <1>3, ChartsRows
<1>7. Sums!IsFiniteSet(B)
  BY ChartsBarsAreFinite
<1>8. ASSUME NEW t \in S
      PROVE  own[t] \in B
  <2>1. t \in Int /\ s <= t /\ t <= e
    BY <1>2
  <2>2. Sums!StartOf(t, u, o) \in Sums!TimeSeries(s, e, u, o)
    BY <1>v, <2>1, SumsAssumption, Sums!BarsCover
  <2>3. Sums!TimeSeries(s, e, u, o) = B
    BY <1>u, <1>o DEF Sums!TimeSeries, ChartsBars, Charts!Series
  <2> QED BY <1>o, <1>4, <2>1, <2>2, <2>3
<1>9. ASSUME NEW time \in B
      PROVE  h[time] = Sums!SumFunctionOnSet(f, {t \in S : own[t] = time})
  <2>1. {t \in S : own[t] = time} = {t \in S : Charts!DateTrunc(t, u, zone) = time}
    BY <1>2, <1>4, ChartsShortStart
  <2>2. h[time] = Charts!SumFunctionOnSet(f, {t \in S : Charts!DateTrunc(t, u, zone) = time})
    BY <1>3, <1>5 DEF Charts!Bar, Charts!Count
  <2> HIDE DEF S
  <2> QED BY <2>1, <2>2, ChartsCounts
<1>10. Charts!Count(S) = Sums!SumFunctionOnSet(f, S)
  BY <1>3, ChartsCounts DEF Charts!Count
<1> HIDE DEF B, S
<1>a. PICK cut : cut = [time \in B |-> {t \in S : own[t] = time}]
  OBVIOUS
<1>b. /\ \A t \in S : own[t] \in B
      /\ \A time \in B : cut[time] \subseteq S /\ \A t \in S : t \in cut[time] <=> own[t] = time
      /\ \A time \in B : h[time] = Sums!SumFunctionOnSet(f, cut[time])
  BY <1>8, <1>9, <1>a
<1>11. Sums!SumFunctionOnSet(h, B) = Sums!SumFunctionOnSet(f, S)
  BY <1>6, <1>7, <1>b, SumsAssumption, Sums!SumOfParts
<1> QED BY <1>1, <1>5, <1>10, <1>11 DEF B, S

(* The bars of weeks count nothing. *)
LEMMA ChartsWeekIsEmpty ==
  ASSUME NEW zone \in Zones, NEW s \in Int, NEW e \in Int, NEW time \in ChartsBars(s, e, zone), ChartsUnit(s, e) = 4
  PROVE  Charts!Bar(time, 4, zone, s, e).records = 0
<1>1. time \in Int /\ (time - Charts!StartOf(s, 4, zone)) % 4 = 0
  BY ChartsBarsAreFinite DEF ChartsBars, Charts!Series
<1>2. {t \in Charts!Between(s, e) : Charts!DateTrunc(t, 4, zone) = time} = {}
  <2>1. \A t \in Charts!Between(s, e) : t \in Int
    BY ConstantsAssumption DEF Charts!Between, Charts!Instants
  <2> QED BY <1>1, <2>1, ChartsWeeksDiffer
<1>3. PICK f : f = v2
  OBVIOUS
<1>4. Charts!SumFunctionOnSet(f, {}) = 0
  BY SumsAssumption, Sums!SumOfNone, ChartsCounts
<1> QED BY <1>2, <1>3, <1>4 DEF Charts!Bar, Charts!Count

LEMMA ChartsWeeksTotal ==
  ASSUME NEW zone \in Zones, NEW s \in Int, NEW e \in Int, ChartsUnit(s, e) = 4
  PROVE  Charts!Total(Charts!GetTimeline([from |-> s, to |-> e], zone)) = 0
<1>1. PICK B : B = ChartsBars(s, e, zone)
  OBVIOUS
<1>2. PICK g : g = Charts!GetTimeline([from |-> s, to |-> e], zone)
  OBVIOUS
<1>3. g = [time \in B |-> Charts!Bar(time, 4, zone, s, e)]
  BY <1>1, <1>2, ChartsTimeline
<1>4. PICK h : h = [time \in DOMAIN g |-> g[time].records]
  OBVIOUS
<1>5. DOMAIN h = B /\ \A time \in B : h[time] = 0
  BY <1>1, <1>3, <1>4, ChartsWeekIsEmpty
<1>6. Sums!IsFiniteSet(B)
  BY <1>1, ChartsBarsAreFinite
<1>7. Sums!SumFunctionOnSet(h, B) = 0
  BY <1>5, <1>6, SumsAssumption, Sums!SumOfZeros
<1>8. Charts!SumFunction(h) = 0
  BY <1>5, <1>7, ChartsCounts
<1> QED BY <1>2, <1>4, <1>8 DEF Charts!Total

(* A time counted in a bar is between its ends, if one offset does. *)
LEMMA ChartsInBar ==
  ASSUME v3.zone \in Zones, NEW t \in Int, NEW u \in ShortUnits, NEW start \in Int,
         Charts!DateTrunc(t, u, v3.zone) = start, Charts!Steady(start - 2, start + u)
  PROVE  start <= t /\ t <= start + u
<1>1. PICK zone \in Zones : zone = v3.zone
  OBVIOUS
<1>2. PICK p \in Int :
        /\ u * p \in Int
        /\ u * p <= t + Charts!Offset(zone, t) /\ t + Charts!Offset(zone, t) < (u * p) + u
        /\ Charts!StartOf(t, u, zone) = (u * p) - Charts!Offset(zone, (u * p) - Charts!Offset(zone, t))
        /\ Sums!StartOf(t, u, Charts!Offset(zone, t)) = (u * p) - Charts!Offset(zone, t)
  BY ChartsUnitStart, Zenon
<1>3. PICK P \in Int : P = u * p
  BY <1>2
<1>4. Charts!Offset(zone, start - 2) = Charts!Offset(zone, start + u)
  BY <1>1 DEF Charts!Steady
<1>5. u \in Nat /\ u > 0
  BY ChartsUnits
<1>6. P <= t + Charts!Offset(zone, t) /\ t + Charts!Offset(zone, t) < P + u
      /\ start = P - Charts!Offset(zone, P - Charts!Offset(zone, t))
  BY <1>1, <1>2, <1>3, ChartsShortStart
<1>7. CASE zone = [before |-> 0, after |-> 0]
  BY <1>5, <1>6, <1>7 DEF Charts!Offset
<1>8. CASE zone = [before |-> 1, after |-> 2]
  BY <1>4, <1>5, <1>6, <1>8 DEF Charts!Offset
<1> QED BY <1>7, <1>8 DEF Zones

(* A range as long as a bar, and cut where one is, starts within the offset*)
(* that holds at its end.                                                  *)
LEMMA ChartsZoom ==
  ASSUME v3.zone \in Zones, NEW start, NEW end,
         Charts!IsBar(start, end), Charts!Steady(start - 2, end), end # start + 4
  PROVE  /\ ChartsUnit(start, end) # 4
         /\ start \in Int /\ end \in Int /\ start <= end
         /\ Charts!Offset(v3.zone, Charts!StartOf(start, ChartsUnit(start, end), v3.zone)) = Charts!Offset(v3.zone, end)
<1>1. PICK zone \in Zones : zone = v3.zone
  OBVIOUS
<1>2. PICK u \in ShortUnits :
        /\ start \in Int /\ end = start + u
        /\ (start + zone.before) % u = 0 \/ (start + zone.after) % u = 0
  <2>1. PICK u \in Units, o \in {zone.before, zone.after} :
          start \in Int /\ end = start + u /\ (start + o + Charts!Sunday(u)) % u = 0
    BY <1>1, ChartsRange DEF Charts!IsBar
  <2>2. u \in ShortUnits /\ Charts!Sunday(u) = 0
    BY <2>1, ChartsUnits, ChartsWeek
  <2>3. o \in Int
    BY <1>1 DEF Zones
  <2>4. (start + o) % u = 0
    BY <2>1, <2>2, <2>3
  <2> QED BY <2>1, <2>2, <2>4
<1>3. u \in Nat /\ u > 0 /\ end \in Int /\ end - start = u
  BY <1>2, ChartsUnits
<1>4. ChartsUnit(start, end) = u /\ u # 4
  BY <1>2, <1>3, ChartsUnits, ChartsUnitType
<1>5. PICK p \in Int :
        /\ u * p \in Int
        /\ u * p <= start + Charts!Offset(zone, start) /\ start + Charts!Offset(zone, start) < (u * p) + u
        /\ Charts!StartOf(start, u, zone) = (u * p) - Charts!Offset(zone, (u * p) - Charts!Offset(zone, start))
        /\ Sums!StartOf(start, u, Charts!Offset(zone, start)) = (u * p) - Charts!Offset(zone, start)
  BY <1>2, ChartsUnitStart, Zenon
<1>6. PICK P \in Int : P = u * p
  BY <1>5
<1>7. Charts!Offset(zone, start - 2) = Charts!Offset(zone, end)
  BY <1>1 DEF Charts!Steady
<1>8. P <= start + Charts!Offset(zone, start) /\ start + Charts!Offset(zone, start) < P + u
      /\ Charts!StartOf(start, u, zone) = P - Charts!Offset(zone, P - Charts!Offset(zone, start))
  BY <1>5, <1>6
<1> SUFFICES Charts!Offset(zone, Charts!StartOf(start, u, zone)) = Charts!Offset(zone, end)
  BY <1>1, <1>2, <1>3, <1>4
<1>9. CASE zone = [before |-> 0, after |-> 0]
  BY <1>2, <1>3, <1>8, <1>9 DEF Charts!Offset
<1>10. CASE zone = [before |-> 1, after |-> 2] /\ end < 2
  BY <1>2, <1>3, <1>8, <1>10 DEF Charts!Offset
<1>11. CASE zone = [before |-> 1, after |-> 2] /\ end >= 2
  <2>1. start >= 4
    BY <1>2, <1>3, <1>7, <1>11 DEF Charts!Offset
  <2>2. P >= start + 1
    <3>1. (start + 1) % u = 0 \/ (start + 2) % u = 0
      BY <1>2, <1>11
    <3>2. P = (start + 2) - ((start + 2) % u)
      <4>1. Sums!StartOf(start, u, 2) = P - 2
        BY <1>5, <1>6, <1>11, <2>1, <1>2 DEF Charts!Offset
      <4>2. (start + 2) % u \in Int
        <5>1. PICK n \in Int : n = start + 2
          BY <1>2
        <5>2. n % u \in Int
          BY ChartsUnits, ChartsDivided
        <5> QED BY <5>1, <5>2
      <4>3. Sums!Sunday(u) = 0
        BY ChartsUnits, ChartsWeek
      <4> QED BY <1>2, <4>1, <4>2, <4>3 DEF Sums!StartOf, Sums!DateTrunc
    <3>3. CASE u = 1
      BY <1>2, <3>2, <3>3
    <3>4. CASE u = 2
      BY <1>2, <3>1, <3>2, <3>4
    <3> QED BY <3>3, <3>4 DEF ShortUnits
  <2> QED BY <1>2, <1>3, <1>8, <1>11, <2>1, <2>2 DEF Charts!Offset
<1> QED BY <1>3, <1>9, <1>10, <1>11 DEF Zones

ChartsInv ==
  Charts!TypeOK /\ Charts!BarsHold /\ Charts!ClickedHolds /\ Charts!CurrentIsAsked /\ Charts!ZoomKeepsRecords

LEMMA ChartsTypes ==
  ASSUME Charts!TypeOK
  PROVE  /\ v1 \in 0 .. MaxTime /\ v1 \in Int /\ v2 \in [Charts!Instants -> Nat]
         /\ v3.zone \in Zones /\ v9 \in BOOLEAN /\ v10 \in BOOLEAN
         /\ v4 \in Charts!Spans /\ v5 \subseteq [range : Charts!Spans, current : BOOLEAN]
         /\ v3 \in [name : {"eventLogs", "quotes", "connections", "cards"}, zone : Zones]
BY ConstantsAssumption DEF Charts!TypeOK, Charts!Instants, Zones

LEMMA ChartsInvInit == Charts!Init => ChartsInv
<1> SUFFICES ASSUME Charts!Init
             PROVE  ChartsInv
  OBVIOUS
<1>1. Charts!TypeOK
  <2>1. v1 \in Charts!Instants /\ v2 \in [Charts!Instants -> Nat]
    BY ConstantsAssumption DEF Charts!Init, Charts!Instants
  <2>2. v4 \in Charts!Spans
    BY DEF Charts!Init, Charts!Everything, Charts!Spans
  <2>3. v5 \subseteq [range : Charts!Spans, current : BOOLEAN]
    BY <2>2 DEF Charts!Init
  <2> QED BY <2>1, <2>2, <2>3 DEF Charts!Init, Charts!TypeOK
<1>2. Charts!BarsHold /\ Charts!ClickedHolds /\ Charts!CurrentIsAsked /\ Charts!ZoomKeepsRecords
  BY DEF Charts!Init, Charts!BarsHold, Charts!ClickedHolds, Charts!CurrentIsAsked, Charts!ZoomKeepsRecords
<1> QED BY <1>1, <1>2 DEF ChartsInv

LEMMA ChartsCountGrows ==
  ASSUME NEW f \in [Charts!Instants -> Nat], NEW g \in [Charts!Instants -> Nat],
         NEW S \in SUBSET Charts!Instants, NEW T \in SUBSET S, \A t \in T : f[t] <= g[t]
  PROVE  /\ Charts!SumFunctionOnSet(f, T) <= Charts!SumFunctionOnSet(g, S)
         /\ Charts!SumFunctionOnSet(f, T) \in Nat /\ Charts!SumFunctionOnSet(g, S) \in Nat
<1>1. IsFiniteSet(S) /\ IsFiniteSet(T)
  <2>1. MaxTime \in Nat
    BY ConstantsAssumption
  <2>2. IsFiniteSet(0 .. MaxTime) /\ S \subseteq 0 .. MaxTime
    BY <2>1, FS_Interval DEF Charts!Instants
  <2> QED BY <2>2, FS_Subset
<1>2. Sums!IsFiniteSet(S) /\ Sums!IsFiniteSet(T)
  BY <1>1 DEF IsFiniteSet, Sums!IsFiniteSet
<1>3. (\A t \in S : g[t] \in Nat) /\ (\A t \in T : f[t] \in Nat)
  OBVIOUS
<1>4. Sums!SumFunctionOnSet(f, T) <= Sums!SumFunctionOnSet(g, S)
  BY <1>2, <1>3, SumsAssumption, Sums!SumGrows
<1>5. Sums!SumFunctionOnSet(f, T) \in Nat /\ Sums!SumFunctionOnSet(g, S) \in Nat
  BY <1>2, <1>3, SumsAssumption, Sums!SumIsNat
<1> QED BY <1>4, <1>5, ChartsCounts

(* Each bar of an answer holds the rows it has counted. *)
LEMMA ChartsBarHolds ==
  ASSUME Charts!TypeOK, NEW s \in Int, NEW e \in Int, NEW time \in ChartsBars(s, e, v3.zone)
  PROVE  Charts!Holds(time, Charts!Bar(time, ChartsUnit(s, e), v3.zone, s, e).end,
                      Charts!Bar(time, ChartsUnit(s, e), v3.zone, s, e).records)
<1>1. PICK zone \in Zones : zone = v3.zone
  BY ChartsTypes
<1>2. PICK u \in Units : u = ChartsUnit(s, e)
  BY ChartsUnitType
<1>3. u \in Nat /\ u > 0 /\ time \in Int
  BY <1>1, <1>2, ChartsUnits, ChartsBarsAreFinite
<1>4. PICK bar : bar = Charts!Bar(time, u, zone, s, e)
  OBVIOUS
<1>5. bar.end = time + u
  BY <1>4 DEF Charts!Bar
<1>6. Charts!IsBar(time, time + u)
  <2>1. PICK shift \in Int : shift = Charts!Sunday(u) /\ shift \in {0, 2}
    BY ChartsWeek
  <2>2. PICK p \in Int :
          /\ u * p \in Int
          /\ u * p <= s + Charts!Offset(zone, s) + shift /\ s + Charts!Offset(zone, s) + shift < (u * p) + u
          /\ Charts!Started(s, u, zone, shift) =
               (u * p) - shift - Charts!Offset(zone, (u * p) - shift - Charts!Offset(zone, s))
          /\ Sums!DateTrunc(s, u, Charts!Offset(zone, s) + shift) = (u * p) - shift - Charts!Offset(zone, s)
    BY ChartsStarted, Zenon
  <2>3. PICK o \in Int : o = Charts!Offset(zone, (u * p) - shift - Charts!Offset(zone, s))
    BY <2>2, ChartsOffset
  <2>4. o \in {zone.before, zone.after}
    BY <2>3 DEF Charts!Offset
  <2>5. PICK P \in Int : P = u * p
    BY <2>2
  <2>6. (time - (P - shift - o)) % u = 0
    BY <1>1, <1>2, <2>1, <2>2, <2>3, <2>5 DEF ChartsBars, Charts!Series, Charts!StartOf
  <2>7. (time + o + shift) % u = 0
    <3>1. CASE u = 1
      BY <1>3, <2>1, <2>5, <2>6, <3>1
    <3>2. CASE u = 2
      BY <1>3, <2>1, <2>5, <2>6, <3>2
    <3>3. CASE u = 4
      BY <1>3, <2>1, <2>5, <2>6, <3>3
    <3> QED BY <3>1, <3>2, <3>3 DEF Units
  <2> QED BY <1>1, <1>3, <2>1, <2>4, <2>7, ChartsRange DEF Charts!IsBar
<1>7. PICK f \in [Charts!Instants -> Nat] : f = v2
  BY ChartsTypes
<1>8. PICK T : T = {t \in Charts!Between(s, e) : Charts!DateTrunc(t, u, zone) = time}
  OBVIOUS
<1>9. bar.records = Charts!SumFunctionOnSet(f, T)
  BY <1>4, <1>7, <1>8 DEF Charts!Bar, Charts!Count
<1>10. T \in SUBSET Charts!Instants /\ T \subseteq Int
  BY <1>8, ConstantsAssumption DEF Charts!Between, Charts!Instants
<1>11. \A t \in T : f[t] <= f[t]
  BY <1>10
<1>12. bar.records \in Nat
  BY <1>9, <1>10, <1>11, ChartsCountGrows
<1>w. u = 4 => bar.records = 0
  <2> SUFFICES ASSUME u = 4
               PROVE  bar.records = 0
    OBVIOUS
  <2>1. ChartsUnit(s, e) = 4 /\ time \in ChartsBars(s, e, zone)
    BY <1>1, <1>2
  <2>2. Charts!Bar(time, 4, zone, s, e).records = 0
    BY <2>1, ChartsWeekIsEmpty
  <2> QED BY <1>4, <2>2
<1>13. ASSUME Charts!Steady(time - 2, time + u), u \in ShortUnits
       PROVE  bar.records <= Charts!Count(Charts!Between(time, time + u))
  <2>1. PICK S : S = Charts!Between(time, time + u)
    OBVIOUS
  <2>2. ASSUME NEW t \in T
        PROVE  t \in S
    <3>1. t \in Int /\ t \in Charts!Instants /\ Charts!DateTrunc(t, u, v3.zone) = time
      BY <1>1, <1>8, <1>10
    <3>2. time <= t /\ t <= time + u
      BY <1>1, <1>3, <1>13, <3>1, ChartsInBar
    <3> QED BY <2>1, <3>1, <3>2 DEF Charts!Between
  <2>3. T \in SUBSET S /\ S \in SUBSET Charts!Instants
    BY <2>1, <2>2 DEF Charts!Between
  <2>4. Charts!SumFunctionOnSet(f, T) <= Charts!SumFunctionOnSet(f, S)
    BY <1>11, <2>3, ChartsCountGrows
  <2> QED BY <1>7, <1>9, <2>1, <2>4 DEF Charts!Count
<1>14. Charts!Steady(time - 2, time + u) => bar.records <= Charts!Count(Charts!Between(time, time + u))
  <2>1. CASE u = 4
    <3>1. PICK S : S = Charts!Between(time, time + u) /\ S \in SUBSET Charts!Instants
      BY DEF Charts!Between
    <3>2. Charts!SumFunctionOnSet(f, S) \in Nat
      <4>1. S \in SUBSET S /\ \A t \in S : f[t] <= f[t]
        BY <3>1, ConstantsAssumption DEF Charts!Instants
      <4> QED BY <3>1, <4>1, ChartsCountGrows
    <3> QED BY <1>w, <1>7, <2>1, <3>1, <3>2 DEF Charts!Count
  <2>2. CASE u # 4
    BY <1>13, <2>2, ChartsUnits
  <2> QED BY <2>1, <2>2
<1>15. time + u = time + Charts!AWeek => bar.records = 0
  BY <1>3, <1>w, ChartsWeek
<1> QED BY <1>1, <1>2, <1>4, <1>5, <1>6, <1>12, <1>14, <1>15 DEF Charts!Holds

(* What it has counted stays, unless rows are purged. *)
LEMMA ChartsHoldsStill ==
  ASSUME Charts!TypeOK, Charts!TypeOK', v3' = v3,
         v10' = TRUE \/ (v10' = v10 /\ \A t \in Charts!Instants : v2[t] <= v2'[t]),
         NEW start, NEW end, NEW records, Charts!Holds(start, end, records)
  PROVE  Charts!Holds(start, end, records)'
<1>1. Charts!IsBar(start, end)' /\ records \in Nat /\ (end = start + Charts!AWeek => records = 0)
  BY DEF Charts!Holds, Charts!IsBar
<1>2. Charts!Steady(start - 2, end)' <=> Charts!Steady(start - 2, end)
  BY DEF Charts!Steady
<1>3. CASE v10' = TRUE
  BY <1>1, <1>3 DEF Charts!Holds
<1>4. CASE v10' = v10 /\ \A t \in Charts!Instants : v2[t] <= v2'[t]
  <2>1. PICK f \in [Charts!Instants -> Nat], g \in [Charts!Instants -> Nat] : f = v2 /\ g = v2'
    BY ChartsTypes DEF Charts!TypeOK
  <2>2. PICK S : S = Charts!Between(start, end)
    OBVIOUS
  <2>3. S \in SUBSET Charts!Instants /\ S \in SUBSET S /\ \A t \in S : f[t] <= g[t]
    BY <1>4, <2>1, <2>2 DEF Charts!Between
  <2>4. /\ Charts!SumFunctionOnSet(f, S) <= Charts!SumFunctionOnSet(g, S)
        /\ Charts!SumFunctionOnSet(f, S) \in Nat /\ Charts!SumFunctionOnSet(g, S) \in Nat
    BY <2>3, ChartsCountGrows
  <2>5. /\ Charts!Count(Charts!Between(start, end)) = Charts!SumFunctionOnSet(f, S)
        /\ Charts!Count(Charts!Between(start, end))' = Charts!SumFunctionOnSet(g, S)
    BY <2>1, <2>2 DEF Charts!Count, Charts!Between
  <2> QED BY <1>1, <1>2, <1>4, <2>4, <2>5 DEF Charts!Holds
<1> QED BY <1>3, <1>4

LEMMA ChartsTotalIsNat ==
  ASSUME NEW bars, Charts!IsFiniteSet(DOMAIN bars), \A time \in DOMAIN bars : bars[time].records \in Nat
  PROVE  Charts!Total(bars) \in Nat
<1>1. PICK D, h : D = DOMAIN bars /\ h = [t \in DOMAIN bars |-> bars[t].records]
  OBVIOUS
<1>2. Sums!IsFiniteSet(D) /\ DOMAIN h = D /\ \A x \in D : h[x] \in Nat
  BY <1>1, ChartsCounts
<1>3. Sums!SumFunctionOnSet(h, D) \in Nat
  BY <1>2, SumsAssumption, Sums!SumIsNat
<1> QED BY <1>1, <1>2, <1>3, ChartsCounts DEF Charts!Total

(* No bar has more records than all of them. *)
LEMMA ChartsTotal ==
  ASSUME Charts!BarsHold, v7 # None, NEW time \in DOMAIN v7.bars
  PROVE  v7.bars[time].records <= Charts!Total(v7.bars)
<1>1. PICK bars : bars = v7.bars
  OBVIOUS
<1>2. PICK h : h = [t \in DOMAIN bars |-> bars[t].records]
  OBVIOUS
<1>3. \A t \in DOMAIN h : h[t] \in Nat
  BY <1>1, <1>2 DEF Charts!BarsHold, Charts!Holds
<1>4. PICK D : D = DOMAIN h
  OBVIOUS
<1>5. Sums!IsFiniteSet(D)
  BY <1>1, <1>2, <1>4, ChartsCounts DEF Charts!BarsHold
<1>6. Charts!Total(bars) = Sums!SumFunctionOnSet(h, D)
  BY <1>2, <1>4, ChartsCounts DEF Charts!Total
<1>7. Sums!SumFunctionOnSet(h, {time}) <= Sums!SumFunctionOnSet(h, D)
  <2>1. {time} \in SUBSET D /\ (\A x \in D : h[x] \in Nat) /\ \A x \in {time} : h[x] \in Nat /\ h[x] <= h[x]
    BY <1>1, <1>2, <1>3, <1>4
  <2> QED BY <1>5, <2>1, SumsAssumption, Sums!SumGrows
<1>8. Sums!SumFunctionOnSet(h, {time}) = h[time]
  <2>1. Sums!IsFiniteSet({time})
    <3>1. IsFiniteSet({time})
      BY FS_Singleton
    <3> QED BY <3>1 DEF IsFiniteSet, Sums!IsFiniteSet
  <2>2. \A x \in {time} : h[x] \in Int
    BY <1>1, <1>2, <1>3
  <2>3. PICK T : T = {time}
    OBVIOUS
  <2>4. Sums!SumFunctionOnSet(h, T) = h[time] + Sums!SumFunctionOnSet(h, T \ {time})
    BY <2>1, <2>2, <2>3, SumsAssumption, Sums!SumRemoves
  <2>5. T \ {time} = {}
    BY <2>3
  <2>6. Sums!SumFunctionOnSet(h, {}) = 0
    BY SumsAssumption, Sums!SumOfNone
  <2> QED BY <2>2, <2>3, <2>4, <2>5, <2>6
<1> QED BY <1>1, <1>2, <1>6, <1>7, <1>8

(* The range of a clicked bar that is asked for again has all its records. *)
LEMMA ChartsAnswerKeeps ==
  ASSUME Charts!TypeOK, ~v10, NEW start, NEW end, NEW records, Charts!Holds(start, end, records),
         Charts!Steady(start - 2, end)
  PROVE  records <= Charts!Total(Charts!GetTimeline([from |-> start, to |-> end], v3.zone))
<1>1. records <= Charts!Count(Charts!Between(start, end)) /\ Charts!IsBar(start, end)
  BY DEF Charts!Holds
<1>2. PICK zone \in Zones : zone = v3.zone
  BY ChartsTypes
<1>0. v2 \in [Charts!Instants -> Nat]
  BY ChartsTypes
<1>3. CASE end # start + 4
  <2>1. /\ ChartsUnit(start, end) # 4
        /\ start \in Int /\ end \in Int /\ start <= end
        /\ Charts!Offset(zone, Charts!StartOf(start, ChartsUnit(start, end), zone)) = Charts!Offset(zone, end)
    BY <1>1, <1>2, <1>3, ChartsZoom
  <2>2. Charts!Total(Charts!GetTimeline([from |-> start, to |-> end], zone)) = Charts!Count(Charts!Between(start, end))
    BY <1>0, <2>1, ChartsSums
  <2> QED BY <1>1, <1>2, <2>2
<1>4. CASE end = start + 4
  <2>1. records = 0 /\ start \in Int /\ end \in Int
    BY <1>1, <1>4, ChartsWeek DEF Charts!Holds, Charts!IsBar
  <2>2. PICK bars : bars = Charts!GetTimeline([from |-> start, to |-> end], zone)
    OBVIOUS
  <2>3. bars = [time \in ChartsBars(start, end, zone) |-> Charts!Bar(time, ChartsUnit(start, end), zone, start, end)]
    BY <2>1, <2>2, ChartsTimeline
  <2>4. \A time \in DOMAIN bars : bars[time].records \in Nat
    BY <1>2, <2>1, <2>3, ChartsBarHolds DEF Charts!Holds
  <2>5. Charts!IsFiniteSet(DOMAIN bars)
    BY <2>1, <2>3, ChartsBarsAreFinite, ChartsCounts
  <2> QED BY <1>2, <2>1, <2>2, <2>4, <2>5, ChartsTotalIsNat
<1> QED BY <1>3, <1>4

(* A timeline is one from some start to some end. *)
LEMMA ChartsSpan ==
  ASSUME Charts!TypeOK, NEW r \in Charts!Spans
  PROVE  \E s \in Int, e \in Int :
           /\ Charts!GetTimeline(r, v3.zone) =
                [time \in ChartsBars(s, e, v3.zone) |-> Charts!Bar(time, ChartsUnit(s, e), v3.zone, s, e)]
<1>1. r = [from |-> r.from, to |-> r.to] /\ r.from \in Int \cup {None} /\ r.to \in Int \cup {None}
  BY DEF Charts!Spans
<1>2. v1 \in Int
  BY ChartsTypes
<1>3. Charts!OldestLogDate \in Int
  <2> DEFINE dates == {t \in Charts!Instants : v2[t] > 0}
  <2>1. CASE dates = {}
    BY <2>1 DEF Charts!OldestLogDate
  <2>2. CASE dates # {}
    <3>1. dates \in SUBSET Nat
      BY ConstantsAssumption DEF Charts!Instants
    <3>2. \E t \in dates : \A d \in dates : ~(d < t)
      <4> HIDE DEF dates
      <4> QED BY <2>2, <3>1, SumsAssumption, Sums!SmallestNat
    <3>3. \E t \in dates : \A d \in dates : t <= d
      BY <3>1, <3>2
    <3>4. Charts!Min(dates) \in dates
      BY <3>3 DEF Charts!Min
    <3> QED BY <2>2, <3>1, <3>4 DEF Charts!OldestLogDate
  <2> QED BY <2>1, <2>2
<1>4. PICK s \in Int : s = IF r.from = None THEN Charts!OldestLogDate ELSE r.from
  BY <1>1, <1>3
<1>5. PICK e \in Int : e = IF r.to = None THEN v1 ELSE r.to
  BY <1>1, <1>2
<1>6. Charts!GetTimeline(r, v3.zone) =
        [time \in ChartsBars(s, e, v3.zone) |-> Charts!Bar(time, ChartsUnit(s, e), v3.zone, s, e)]
  BY <1>4, <1>5 DEF Charts!GetTimeline, ChartsUnit, ChartsBars
<1> QED BY <1>6

(* What is shown and clicked stays as it is, the rows may grow or go. *)
LEMMA ChartsRest ==
  ASSUME ChartsInv, Charts!TypeOK', v3' = v3, v7' = v7, v8' = v8, v9' = v9 \/ v9' = TRUE,
         v10' = TRUE \/ (v10' = v10 /\ \A t \in Charts!Instants : v2[t] <= v2'[t])
  PROVE  Charts!BarsHold' /\ Charts!ClickedHolds' /\ Charts!ZoomKeepsRecords'
<1>1. Charts!BarsHold'
  <2> SUFFICES ASSUME v7 # None
               PROVE  /\ Charts!IsFiniteSet(DOMAIN v7.bars)
                      /\ \A time \in DOMAIN v7.bars : Charts!Holds(time, v7.bars[time].end, v7.bars[time].records)'
    BY DEF Charts!BarsHold
  <2>1. PICK bars : bars = v7.bars
    OBVIOUS
  <2>2. \A time \in DOMAIN bars : Charts!Holds(time, bars[time].end, bars[time].records)
    BY <2>1 DEF ChartsInv, Charts!BarsHold
  <2>3. \A time \in DOMAIN bars : Charts!Holds(time, bars[time].end, bars[time].records)'
    BY <2>2, ChartsHoldsStill DEF ChartsInv
  <2> QED BY <2>1, <2>3 DEF ChartsInv, Charts!BarsHold
<1>2. Charts!ClickedHolds'
  <2> SUFFICES ASSUME v8 # None
               PROVE  Charts!Holds(v8.range.from, v8.range.to, v8.records)'
    BY DEF Charts!ClickedHolds
  <2>1. PICK start, end, records : start = v8.range.from /\ end = v8.range.to /\ records = v8.records
    OBVIOUS
  <2>2. Charts!Holds(start, end, records)
    BY <2>1 DEF ChartsInv, Charts!ClickedHolds
  <2>3. Charts!Holds(start, end, records)'
    BY <2>2, ChartsHoldsStill DEF ChartsInv
  <2> QED BY <2>1, <2>3
<1>3. Charts!ZoomKeepsRecords'
  BY DEF ChartsInv, Charts!ZoomKeepsRecords, Charts!Steady
<1> QED BY <1>1, <1>2, <1>3

LEMMA ChartsAsks ==
  ASSUME ChartsInv, NEW r \in Charts!Spans, Charts!SetRange(r)
  PROVE  /\ Charts!TypeOK' /\ Charts!CurrentIsAsked'
         /\ v3' = v3 /\ v7' = v7 /\ v9' = v9 /\ v10' = v10 /\ v2' = v2
<1>1. UNCHANGED <<v1, v2, v3, v7, v9, v10>> /\ v4' = r
  BY DEF Charts!SetRange
<1>2. CASE r = v4
  BY <1>1, <1>2 DEF ChartsInv, Charts!SetRange, Charts!TypeOK, Charts!CurrentIsAsked
<1>3. CASE r # v4
  <2>1. v5' = {[q EXCEPT !.current = FALSE] : q \in v5} \cup {[range |-> r, current |-> TRUE]}
    BY <1>3 DEF Charts!SetRange, Charts!Asked
  <2>2. \A q \in v5 : q \in [range : Charts!Spans, current : BOOLEAN]
    BY DEF ChartsInv, Charts!TypeOK
  <2>3. \A q \in v5 : /\ [q EXCEPT !.current = FALSE] \in [range : Charts!Spans, current : BOOLEAN]
                      /\ [q EXCEPT !.current = FALSE].current = FALSE
    BY <2>2
  <2>4. PICK new : new = [range |-> r, current |-> TRUE]
    OBVIOUS
  <2>5. new \in v5' /\ new.current /\ new.range = v4' /\ new \in [range : Charts!Spans, current : BOOLEAN]
    BY <1>1, <2>1, <2>4
  <2>6. v5' \subseteq [range : Charts!Spans, current : BOOLEAN]
    BY <2>1, <2>3, <2>4, <2>5
  <2>7. \A q \in v5' : q.current => q.range = v4'
    BY <2>1, <2>3, <2>4, <2>5
  <2>8. Charts!TypeOK'
    BY <1>1, <2>6 DEF ChartsInv, Charts!TypeOK, Charts!Instants
  <2>9. Charts!CurrentIsAsked'
    BY <2>5, <2>7 DEF Charts!CurrentIsAsked
  <2> QED BY <1>1, <2>8, <2>9
<1> QED BY <1>1, <1>2, <1>3

LEMMA ChartsChosen ==
  ASSUME ChartsInv, Charts!Choose
  PROVE  ChartsInv'
<1>1. PICK r \in {[from |-> d[1], to |-> d[2]] : d \in {<<0, 3>>}} \cup {Charts!Everything} : Charts!SetRange(r)
  BY DEF Charts!Choose
<1>2. r \in Charts!Spans
  BY DEF Charts!Everything, Charts!Spans
<1>3. /\ Charts!TypeOK' /\ Charts!CurrentIsAsked'
      /\ v3' = v3 /\ v7' = v7 /\ v9' = v9 /\ v10' = v10 /\ v2' = v2
  BY <1>1, <1>2, ChartsAsks
<1>4. v8' = None
  BY DEF Charts!Choose
<1>5. Charts!BarsHold'
  BY <1>3 DEF ChartsInv, Charts!BarsHold, Charts!Holds, Charts!IsBar, Charts!Steady, Charts!Count, Charts!Between
<1>6. Charts!ClickedHolds' /\ Charts!ZoomKeepsRecords'
  BY <1>4 DEF Charts!ClickedHolds, Charts!ZoomKeepsRecords
<1> QED BY <1>3, <1>5, <1>6 DEF ChartsInv

LEMMA ChartsClicked ==
  ASSUME ChartsInv, Charts!Click
  PROVE  ChartsInv'
<1>1. PICK time \in DOMAIN v7.bars :
        /\ Charts!SetRange([from |-> time, to |-> v7.bars[time].end])
        /\ v8' = [range |-> [from |-> time, to |-> v7.bars[time].end], records |-> v7.bars[time].records]
  BY DEF Charts!Click
<1>2. v7 # None
  BY DEF Charts!Click
<1>3. PICK end, records : end = v7.bars[time].end /\ records = v7.bars[time].records
  OBVIOUS
<1>4. Charts!Holds(time, end, records)
  BY <1>2, <1>3 DEF ChartsInv, Charts!BarsHold
<1>5. time \in Int /\ end \in Int
  <2>1. PICK u \in Units : time \in Int /\ end = time + u
    BY <1>4, ChartsRange DEF Charts!Holds, Charts!IsBar
  <2> QED BY <2>1, ChartsUnits
<1>6. [from |-> time, to |-> end] \in Charts!Spans
  BY <1>5 DEF Charts!Spans
<1>7. /\ Charts!TypeOK' /\ Charts!CurrentIsAsked'
      /\ v3' = v3 /\ v7' = v7 /\ v9' = v9 /\ v10' = v10 /\ v2' = v2
  BY <1>1, <1>3, <1>6, ChartsAsks
<1>8. Charts!BarsHold'
  BY <1>7 DEF ChartsInv, Charts!BarsHold, Charts!Holds, Charts!IsBar, Charts!Steady, Charts!Count, Charts!Between
<1>9. v8'.range.from = time /\ v8'.range.to = end /\ v8'.records = records
  BY <1>1, <1>3
<1>10. Charts!ClickedHolds'
  BY <1>4, <1>7, <1>9
     DEF Charts!ClickedHolds, Charts!Holds, Charts!IsBar, Charts!Steady, Charts!Count, Charts!Between
<1>11. records <= Charts!Total(v7.bars)
  BY <1>2, <1>3, ChartsTotal DEF ChartsInv
<1>12. Charts!Total(v7'.bars) = Charts!Total(v7.bars)
  BY <1>7
<1>13. Charts!ZoomKeepsRecords'
  <2>1. records \in Nat /\ Charts!Total(v7.bars) \in Int
    <3>1. Charts!IsFiniteSet(DOMAIN v7.bars) /\ \A t \in DOMAIN v7.bars : v7.bars[t].records \in Nat
      BY <1>2 DEF ChartsInv, Charts!BarsHold, Charts!Holds
    <3> QED BY <1>4, <3>1, ChartsTotalIsNat DEF Charts!Holds
  <2>2. Charts!Total(v7.bars)' >= v8'.records
    BY <1>7, <1>9, <1>11, <2>1 DEF Charts!Total
  <2> QED BY <2>2 DEF Charts!ZoomKeepsRecords
<1> QED BY <1>7, <1>8, <1>10, <1>13 DEF ChartsInv

LEMMA ChartsUpdated ==
  ASSUME ChartsInv, Charts!Update
  PROVE  ChartsInv'
<1>1. PICK r : r = [from |-> v1 - 2, to |-> v1]
  OBVIOUS
<1>2. r \in Charts!Spans
  BY <1>1, ChartsTypes DEF ChartsInv, Charts!Spans
<1>3. /\ Charts!TypeOK' /\ Charts!CurrentIsAsked'
      /\ v3' = v3 /\ v7' = v7 /\ v9' = v9 /\ v10' = v10 /\ v2' = v2
  BY <1>1, <1>2, ChartsAsks DEF Charts!Update
<1>4. v8' = v8
  BY DEF Charts!Update
<1>5. \A t \in Charts!Instants : v2[t] <= v2'[t]
  BY <1>3, ChartsTypes DEF ChartsInv
<1> QED BY <1>3, <1>4, <1>5, ChartsRest DEF ChartsInv

LEMMA ChartsAnswered ==
  ASSUME ChartsInv, NEW q \in v5, Charts!Answered(q)
  PROVE  ChartsInv'
<1>1. /\ UNCHANGED <<v1, v2, v3, v4, v6, v8, v10>> /\ v5' = v5 \ {q} /\ v9' = ~q.current
      /\ v7' = [range |-> q.range, bars |-> Charts!GetTimeline(q.range, v3.zone)]
  BY DEF Charts!Answered
<1>2. q.range \in Charts!Spans /\ q.current \in BOOLEAN /\ Charts!TypeOK
  BY DEF ChartsInv, Charts!TypeOK
<1>3. Charts!TypeOK'
  BY <1>1, <1>2 DEF Charts!TypeOK, Charts!Instants
<1>4. Charts!CurrentIsAsked'
  <2>1. \A p \in v5' : p.current => p.range = v4'
    BY <1>1 DEF ChartsInv, Charts!CurrentIsAsked
  <2>2. q.current => v7'.range = v4'
    BY <1>1 DEF ChartsInv, Charts!CurrentIsAsked
  <2> QED BY <1>1, <1>2, <2>1, <2>2 DEF Charts!CurrentIsAsked
<1>5. PICK bars : bars = Charts!GetTimeline(q.range, v3.zone)
  OBVIOUS
<1>6. PICK s \in Int, e \in Int :
        bars = [time \in ChartsBars(s, e, v3.zone) |-> Charts!Bar(time, ChartsUnit(s, e), v3.zone, s, e)]
  BY <1>2, <1>5, ChartsSpan
<1>7. Charts!IsFiniteSet(DOMAIN bars)
  BY <1>2, <1>6, ChartsBarsAreFinite, ChartsCounts, ChartsTypes
<1>8. \A time \in DOMAIN bars : Charts!Holds(time, bars[time].end, bars[time].records)
  BY <1>2, <1>6, ChartsBarHolds
<1>9. \A start, end, records : Charts!Holds(start, end, records) => Charts!Holds(start, end, records)'
  BY <1>1 DEF Charts!Holds, Charts!IsBar, Charts!Steady, Charts!Count, Charts!Between
<1>10. Charts!BarsHold'
  BY <1>1, <1>5, <1>7, <1>8, <1>9 DEF Charts!BarsHold
<1>11. Charts!ClickedHolds'
  <2>1. PICK start, end, records : start = v8.range.from /\ end = v8.range.to /\ records = v8.records
    OBVIOUS
  <2>2. v8 # None => Charts!Holds(start, end, records)'
    BY <1>9, <2>1 DEF ChartsInv, Charts!ClickedHolds
  <2> QED BY <1>1, <2>1, <2>2 DEF Charts!ClickedHolds
<1>12. Charts!ZoomKeepsRecords'
  <2> SUFFICES ASSUME v8 # None, q.range = v8.range, ~v10, Charts!Steady(v8.range.from - 2, v8.range.to)
               PROVE  Charts!Total(bars) >= v8.records
    BY <1>1, <1>5 DEF Charts!ZoomKeepsRecords, Charts!Steady, Charts!Total
  <2>1. PICK start, end, records : start = v8.range.from /\ end = v8.range.to /\ records = v8.records
    OBVIOUS
  <2>2. Charts!Holds(start, end, records) /\ Charts!Steady(start - 2, end)
    BY <2>1 DEF ChartsInv, Charts!ClickedHolds
  <2>3. q.range = [from |-> start, to |-> end]
    BY <1>2, <2>1 DEF Charts!Spans
  <2>4. records <= Charts!Total(bars)
    BY <1>2, <1>5, <2>2, <2>3, ChartsAnswerKeeps
  <2>5. records \in Nat /\ Charts!Total(bars) \in Int
    <3>1. /\ Charts!IsFiniteSet(DOMAIN bars) /\ \A time \in DOMAIN bars : bars[time].records \in Nat
      BY <1>7, <1>8 DEF Charts!Holds
    <3> QED BY <2>2, <3>1, ChartsTotalIsNat DEF Charts!Holds
  <2> QED BY <2>1, <2>4, <2>5
<1> QED BY <1>3, <1>4, <1>10, <1>11, <1>12 DEF ChartsInv

LEMMA ChartsFailed ==
  ASSUME ChartsInv, NEW q \in v5, NEW shown, Charts!Failed(q, shown),
         shown \in {v7, None} \/ shown = [range |-> q.range, bars |-> Charts!NoBars]
  PROVE  ChartsInv'
<1>1. /\ UNCHANGED <<v1, v2, v3, v4, v6, v8, v10>> /\ v5' = v5 \ {q} /\ v9' = TRUE /\ v7' = shown
  BY DEF Charts!Failed
<1>2. Charts!TypeOK'
  BY <1>1 DEF ChartsInv, Charts!TypeOK, Charts!Instants
<1>3. Charts!CurrentIsAsked'
  BY <1>1 DEF ChartsInv, Charts!CurrentIsAsked
<1>4. \A start, end, records : Charts!Holds(start, end, records) => Charts!Holds(start, end, records)'
  BY <1>1 DEF Charts!Holds, Charts!IsBar, Charts!Steady, Charts!Count, Charts!Between
<1>5. Charts!BarsHold'
  <2>1. CASE shown = None
    BY <1>1, <2>1 DEF Charts!BarsHold
  <2>2. CASE shown = v7
    <3>1. PICK bars : bars = v7.bars
      OBVIOUS
    <3>2. v7 # None => \A time \in DOMAIN bars : Charts!Holds(time, bars[time].end, bars[time].records)'
      BY <1>4, <3>1 DEF ChartsInv, Charts!BarsHold
    <3> QED BY <1>1, <2>2, <3>1, <3>2 DEF ChartsInv, Charts!BarsHold
  <2>3. CASE shown = [range |-> q.range, bars |-> Charts!NoBars]
    <3>1. DOMAIN v7'.bars = {}
      BY <1>1, <2>3 DEF Charts!NoBars
    <3>2. Charts!IsFiniteSet({})
      BY FS_EmptySet DEF IsFiniteSet, Charts!IsFiniteSet
    <3> QED BY <3>1, <3>2 DEF Charts!BarsHold
  <2> QED BY <2>1, <2>2, <2>3
<1>6. Charts!ClickedHolds'
  <2>1. PICK start, end, records : start = v8.range.from /\ end = v8.range.to /\ records = v8.records
    OBVIOUS
  <2>2. v8 # None => Charts!Holds(start, end, records)'
    BY <1>4, <2>1 DEF ChartsInv, Charts!ClickedHolds
  <2> QED BY <1>1, <2>1, <2>2 DEF Charts!ClickedHolds
<1>7. Charts!ZoomKeepsRecords'
  BY <1>1 DEF Charts!ZoomKeepsRecords
<1> QED BY <1>2, <1>3, <1>5, <1>6, <1>7 DEF ChartsInv

LEMMA ChartsOfTheTable ==
  ASSUME ChartsInv, Charts!Create \/ Charts!DeleteOldRows \/ Charts!Tick
  PROVE  ChartsInv'
<1>1. UNCHANGED <<v3, v4, v5, v6, v7, v8, v9>>
  BY DEF Charts!Create, Charts!DeleteOldRows, Charts!Tick, Charts!view
<1>2. /\ v1' \in Charts!Instants /\ v2' \in [Charts!Instants -> Nat] /\ v10' \in BOOLEAN
      /\ v10' = TRUE \/ (v10' = v10 /\ \A t \in Charts!Instants : v2[t] <= v2'[t])
  <2>1. /\ v1 \in Charts!Instants /\ v2 \in [Charts!Instants -> Nat] /\ v10 \in BOOLEAN
        /\ Charts!Instants = 0 .. MaxTime /\ MaxTime \in Nat
    BY ConstantsAssumption DEF ChartsInv, Charts!TypeOK, Charts!Instants
  <2>2. CASE Charts!Create
    <3>1. v2' = [v2 EXCEPT ![v1] = v2[v1] + 1] /\ v1' = v1 /\ v10' = v10
      BY <2>2 DEF Charts!Create
    <3> QED BY <2>1, <3>1
  <2>3. CASE Charts!DeleteOldRows
    <3>1. v2' = [t \in Charts!Instants |-> IF t <= v1 - 3 THEN 0 ELSE v2[t]] /\ v1' = v1 /\ v10' = TRUE
      BY <2>3 DEF Charts!DeleteOldRows
    <3> QED BY <2>1, <3>1
  <2>4. CASE Charts!Tick
    BY <2>1, <2>4 DEF Charts!Tick
  <2> QED BY <2>2, <2>3, <2>4
<1>3. Charts!TypeOK'
  BY <1>1, <1>2 DEF ChartsInv, Charts!TypeOK, Charts!Instants
<1>4. Charts!CurrentIsAsked'
  BY <1>1 DEF ChartsInv, Charts!CurrentIsAsked
<1> QED BY <1>1, <1>2, <1>3, <1>4, ChartsRest DEF ChartsInv

LEMMA ChartsInvStep == ChartsInv /\ Charts!Next => ChartsInv'
<1> SUFFICES ASSUME ChartsInv, Charts!Next
             PROVE  ChartsInv'
  OBVIOUS
<1>1. CASE Charts!Choose \/ Charts!Click \/ Charts!Update
  BY <1>1, ChartsChosen, ChartsClicked, ChartsUpdated
<1>2. CASE Charts!Create \/ Charts!DeleteOldRows \/ Charts!Tick
  BY <1>2, ChartsOfTheTable
<1>3. ASSUME NEW q \in v5, Charts!Answered(q)
      PROVE  ChartsInv'
  BY <1>3, ChartsAnswered
<1>4. ASSUME NEW q \in v5,
             Charts!EventLogsFail(q) \/ Charts!QuotesFail(q) \/ Charts!ConnectionsFail(q) \/ Charts!CardsFail(q)
      PROVE  ChartsInv'
  <2>1. \E shown : /\ Charts!Failed(q, shown)
                   /\ shown \in {v7, None} \/ shown = [range |-> q.range, bars |-> Charts!NoBars]
    BY <1>4 DEF Charts!EventLogsFail, Charts!QuotesFail, Charts!ConnectionsFail, Charts!CardsFail
  <2> QED BY <2>1, ChartsFailed
<1> QED BY <1>1, <1>2, <1>3, <1>4 DEF Charts!Next

LEMMA ChartsAreKept ==
  (part = "charts" => ChartsInv) /\ [Next]_<<part, v1, v2, v3, v4, v5, v6, v7, v8, v9, v10>>
    => (part = "charts" => ChartsInv)'
<1> SUFFICES ASSUME part = "charts" => ChartsInv,
                    [Next]_<<part, v1, v2, v3, v4, v5, v6, v7, v8, v9, v10>>, part' = "charts"
             PROVE  ChartsInv'
  OBVIOUS
<1>1. part = "charts" /\ (Charts!Next \/ UNCHANGED <<v1, v2, v3, v4, v5, v6, v7, v8, v9, v10>>)
  BY DEF Next, LogsStep, AuditStep, ChartsStep, CardsStep, OutboundStep, UptimeStep, SettingsStep,
         TokensStep, SocketsStep
<1>2. CASE UNCHANGED <<v1, v2, v3, v4, v5, v6, v7, v8, v9, v10>>
  <2>1. Charts!TypeOK' /\ Charts!CurrentIsAsked'
    BY <1>1, <1>2 DEF ChartsInv, Charts!TypeOK, Charts!CurrentIsAsked
  <2>2. \A t \in Charts!Instants : v2[t] <= v2'[t]
    BY <1>1, <1>2, ChartsTypes DEF ChartsInv
  <2> QED BY <1>1, <1>2, <2>1, <2>2, ChartsRest DEF ChartsInv
<1> QED BY <1>1, <1>2, ChartsInvStep

LEMMA ChartsStarts == Init => (part = "charts" => ChartsInv)
BY ChartsInvInit DEF Init

LEMMA ChartsInvSuffices == ChartsInv => Charts!BarsAddUp /\ Charts!ZoomKeepsRecords /\ Charts!ShownIsOfRange
<1> SUFFICES ASSUME ChartsInv
             PROVE  Charts!BarsAddUp /\ Charts!ShownIsOfRange
  BY DEF ChartsInv
<1>1. Charts!BarsAddUp
  <2>1. PICK zone \in Zones : zone = v3.zone
    BY ChartsTypes DEF ChartsInv
  <2>2. v2 \in [Charts!Instants -> Nat] /\ v1 \in Int /\ Charts!Instants \subseteq Int
    BY ChartsTypes, ConstantsAssumption DEF ChartsInv, Charts!Instants
  <2>3. ASSUME NEW s \in Charts!Instants, NEW e \in s .. v1
        PROVE  /\ ChartsUnit(s, e) = 4 => Charts!Total(Charts!GetTimeline([from |-> s, to |-> e], zone)) = 0
               /\ /\ ChartsUnit(s, e) # 4
                  /\ Charts!Offset(zone, Charts!StartOf(s, ChartsUnit(s, e), zone)) = Charts!Offset(zone, e)
                  => Charts!Total(Charts!GetTimeline([from |-> s, to |-> e], zone)) = Charts!Count(Charts!Between(s, e))
    <3>1. s \in Int /\ e \in Int /\ s <= e
      BY <2>2
    <3> QED BY <2>2, <3>1, ChartsSums, ChartsWeeksTotal
  <2> QED BY <2>1, <2>3, ChartsWeek DEF Charts!BarsAddUp, ChartsUnit
<1>2. Charts!ShownIsOfRange
  BY DEF ChartsInv, Charts!CurrentIsAsked, Charts!ShownIsOfRange
<1> QED BY <1>1, <1>2

-----------------------------------------------------------------------------
(* Cards: kind is v1, updateInterval v2, named v3, window v4, pending v5,  *)
(* data v6 and late v7                                                     *)

CardsInv == Cards!TypeOK /\ Cards!NothingYetIsAwaited

LEMMA CardsRequests ==
  ASSUME NEW kind \in {"users", "targets"}, NEW named \in {None} \cup SUBSET Processes, NEW w \in Nat
  PROVE  /\ Cards!Request(kind, named, w) \subseteq [window : Nat, ids : SUBSET Processes]
         /\ kind = "users" \/ named \notin {None, {}} => Cards!Request(kind, named, w) # {}
<1>1. CASE kind = "users"
  <2>1. Cards!Request(kind, named, w) = {[window |-> w, ids |-> Processes]}
    BY <1>1 DEF Cards!Request, Cards!UsersRequest
  <2> QED BY <2>1
<1>2. CASE kind # "users" /\ named \in {None, {}}
  <2>1. Cards!Request(kind, named, w) = {}
    BY <1>2 DEF Cards!Request, Cards!TargetsRequest
  <2> QED BY <1>2, <2>1
<1>3. CASE kind # "users" /\ named \notin {None, {}}
  <2>1. Cards!Request(kind, named, w) = {[window |-> w, ids |-> named]} /\ named \in SUBSET Processes
    BY <1>3 DEF Cards!Request, Cards!TargetsRequest
  <2> QED BY <2>1
<1> QED BY <1>1, <1>2, <1>3

LEMMA CardsInvInit == Cards!Init => CardsInv
<1> SUFFICES ASSUME Cards!Init
             PROVE  CardsInv
  OBVIOUS
<1>1. /\ v1 \in {"users", "targets"} /\ v2 \in BOOLEAN /\ v3 \in {None} \cup SUBSET Processes
      /\ v4 = 0 /\ v5 = Cards!Request(v1, v3, 0) /\ v6 = None /\ v7 = FALSE
  BY DEF Cards!Init
<1>2. /\ v5 \subseteq [window : Nat, ids : SUBSET Processes]
      /\ v1 = "users" \/ v3 \notin {None, {}} => v5 # {}
  <2>1. 0 \in Nat
    OBVIOUS
  <2> QED BY <1>1, <2>1, CardsRequests
<1>3. Cards!TypeOK
  BY <1>1, <1>2 DEF Cards!TypeOK
<1>4. Cards!NothingYetIsAwaited
  <2>1. v5 # {} \/ (v1 = "targets" /\ v3 \in {None, {}})
    BY <1>1, <1>2
  <2> QED BY <2>1 DEF Cards!NothingYetIsAwaited
<1> QED BY <1>3, <1>4 DEF CardsInv

LEMMA CardsInvStep == CardsInv /\ Cards!Next => CardsInv'
<1> SUFFICES ASSUME CardsInv, Cards!Next
             PROVE  CardsInv'
  OBVIOUS
<1>0. Cards!TypeOK
  BY DEF CardsInv
<1>1. CASE Cards!NameOthers
  <2>1. /\ UNCHANGED <<v1, v2, v4, v5, v6>> /\ v3' \in SUBSET Processes
        /\ v7' = (v7 \/ v1 = "targets")
    BY <1>1 DEF Cards!NameOthers, Cards!page
  <2>2. v1 \in {"users", "targets"} /\ v7 \in BOOLEAN
    BY <1>0 DEF Cards!TypeOK
  <2>3. v7' \in BOOLEAN /\ (v1 = "targets" => v7' = TRUE)
    BY <2>1, <2>2
  <2>4. Cards!TypeOK'
    BY <1>0, <2>1, <2>3 DEF Cards!TypeOK
  <2>5. Cards!NothingYetIsAwaited'
    <3>1. CASE v1 = "targets"
      BY <2>1, <2>3, <3>1 DEF Cards!NothingYetIsAwaited
    <3>2. CASE v1 # "targets"
      <4>1. v6 = None => v5 # {}
        BY <3>2 DEF CardsInv, Cards!NothingYetIsAwaited
      <4> QED BY <2>1, <4>1 DEF Cards!NothingYetIsAwaited
    <3> QED BY <3>1, <3>2
  <2> QED BY <2>4, <2>5 DEF CardsInv
<1>2. CASE Cards!Update
  <2>1. /\ UNCHANGED <<v1, v2, v3, v6>> /\ v2 /\ v4' = v4 + 1 /\ v7' = FALSE
        /\ v5' = v5 \cup Cards!Request(v1, v3, v4')
    BY <1>2 DEF Cards!Update, Cards!page
  <2>2. v4' \in Nat
    BY <1>0, <2>1 DEF Cards!TypeOK
  <2>3. /\ Cards!Request(v1, v3, v4') \subseteq [window : Nat, ids : SUBSET Processes]
        /\ v1 = "users" \/ v3 \notin {None, {}} => Cards!Request(v1, v3, v4') # {}
    BY <1>0, <2>2, CardsRequests DEF Cards!TypeOK
  <2>4. v5' \subseteq [window : Nat, ids : SUBSET Processes]
    BY <1>0, <2>1, <2>3 DEF Cards!TypeOK
  <2> QED BY <1>0, <2>1, <2>2, <2>3, <2>4 DEF CardsInv, Cards!TypeOK, Cards!NothingYetIsAwaited
<1>3. ASSUME NEW q \in v5, Cards!Answered(q) \/ Cards!Fails(q)
      PROVE  CardsInv'
  <2>1. UNCHANGED <<v1, v2, v3, v4, v7>> /\ v5' = v5 \ {q} /\ v6' \in (SUBSET q.ids) \cup {{}}
    BY <1>3 DEF Cards!Answered, Cards!Fails, Cards!page
  <2>2. v6' \in SUBSET Processes
    <3>1. q.ids \in SUBSET Processes
      BY <1>0 DEF Cards!TypeOK
    <3> QED BY <2>1, <3>1
  <2>3. v6' # None
    BY <2>2, ConstantsAssumption
  <2> QED BY <1>0, <2>1, <2>2, <2>3 DEF CardsInv, Cards!TypeOK, Cards!NothingYetIsAwaited
<1> QED BY <1>1, <1>2, <1>3 DEF Cards!Next

LEMMA CardsAreKept ==
  (part = "cards" => CardsInv) /\ [Next]_<<part, v1, v2, v3, v4, v5, v6, v7, v8, v9, v10>>
    => (part = "cards" => CardsInv)'
<1> SUFFICES ASSUME part = "cards" => CardsInv,
                    [Next]_<<part, v1, v2, v3, v4, v5, v6, v7, v8, v9, v10>>, part' = "cards"
             PROVE  CardsInv'
  OBVIOUS
<1>1. part = "cards" /\ (Cards!Next \/ UNCHANGED <<v1, v2, v3, v4, v5, v6, v7>>)
  BY DEF Next, LogsStep, AuditStep, ChartsStep, CardsStep, OutboundStep, UptimeStep, SettingsStep,
         TokensStep, SocketsStep
<1>2. CASE UNCHANGED <<v1, v2, v3, v4, v5, v6, v7>>
  BY <1>1, <1>2 DEF CardsInv, Cards!TypeOK, Cards!NothingYetIsAwaited
<1> QED BY <1>1, <1>2, CardsInvStep

LEMMA CardsStart == Init => (part = "cards" => CardsInv)
BY CardsInvInit DEF Init

(* For any rows, ranges and number of requests, in UTC and in a timezone   *)
(* that changes its offset: bars add up where one offset holds, but those  *)
(* of weeks are empty, a click on a bar leads to all its rows, what is     *)
(* shown is of the range last asked for, or of the one before a failure; a *)
(* card that spins awaits something.                                       *)
(* (EventLogsService, EventLogsTimeline, the charts and cards)             *)
THEOREM ChartsShow == Spec => []ChartsAddUp
<1>1. (part = "charts" => ChartsInv) /\ (part = "cards" => CardsInv) => ChartsAddUp
  BY ChartsInvSuffices DEF CardsInv, ChartsAddUp, Cards!NothingYetIsAwaited, Cards!SpinnerAwaitsAnAnswer,
     Cards!UsersLoading, Cards!TargetsLoading
<1> QED BY <1>1, ChartsStarts, ChartsAreKept, CardsStart, CardsAreKept, PTL DEF Spec
=============================================================================
