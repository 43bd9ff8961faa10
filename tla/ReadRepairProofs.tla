-------------------------- MODULE ReadRepairProofs --------------------------
(***************************************************************************)
(* For any replicas, datacenters, reads and consistency levels: what       *)
(* ExecuteRead and its corrections guarantee, provided that no write is    *)
(* newer than a delete.  del looks at no timestamp, so that without this   *)
(* condition a late correction may replace a newer value.                  *)
(***************************************************************************)
EXTENDS ReadRepair, FiniteSetTheorems, WellFoundedInduction, TLAPS

\* No write is newer than a delete
DeletesNewest ==
    \A j, k \in DOMAIN Writes : Writes[k].cmd = "DEL" => Writes[j].time <= Writes[k].time

\* No two writes have the same timestamp, and there is something to delete
WritesDistinct ==
    /\ \A j, k \in DOMAIN Writes : Writes[j].time = Writes[k].time => j = k
    /\ DOMAIN Writes # {} => Writes[1].cmd = "SET"

\* What the key holds after a write or a correction that is not ignored
ValueOf(i) ==
    IF i.cmd = "SET" THEN [type |-> "STRING", value |-> i.args[1], time |-> i.time]
                     ELSE [type |-> "TOMBSTONE", value |-> Nil, time |-> i.time]

\* A valid write of the key
Correction(i) ==
    /\ i.key = ReadKey
    /\ i.time \in Time
    /\ \/ i.cmd = "SET" /\ \E x \in Arg : i.args = <<x>>
       \/ i.cmd = "DEL" /\ i.args = <<>>

CorrectionsValid == \A p \in repairs : Correction(p.inst)

TInv == TypeOK /\ CorrectionsValid
-----------------------------------------------------------------------------
LEMMA LargestExists ==
    ASSUME NEW S \in SUBSET Nat, S # {}, NEW b \in Nat, \A d \in S : d <= b
    PROVE  \E c \in S : \A d \in S : d <= c
  <1> DEFINE T == {u \in Nat : \A d \in S : d <= u}
  <1>1. T \subseteq Nat /\ T # {} /\ \A u \in T, d \in S : d <= u
    OBVIOUS
  <1>2. PICK R : IsWellFoundedOn(R, Nat) /\ \A x, y \in Nat : x < y => <<x, y>> \in R
    <2>1. \A x, y \in Nat : x < y => <<x, y>> \in {ss \in Nat \X Nat : ss[1] < ss[2]}
      OBVIOUS
    <2>2. IsWellFoundedOn({ss \in Nat \X Nat : ss[1] < ss[2]}, Nat)
      BY NatLessThanWellFounded DEF OpToRel
    <2> QED  BY <2>1, <2>2
  <1>3. PICK u \in T : \A v \in T : ~(<<v, u>> \in R)
    <2>1. T \subseteq Nat /\ T # {} /\ IsWellFoundedOn(R, Nat)
      BY <1>1, <1>2
    <2> HIDE DEF T
    <2> QED  BY <2>1, WFMin, Zenon
  <1>4. \A v \in T : ~(v < u)
    BY <1>1, <1>2, <1>3
  <1>5. u \in S
    <2> SUFFICES ASSUME u \notin S PROVE FALSE
      OBVIOUS
    <2>1. \A d \in S : d \in Nat /\ d < u
      BY <1>1
    <2>2. PICK d \in S : d \in Nat /\ d < u /\ u \in Nat
      BY <1>1, <2>1
    <2>3. u - 1 \in Nat /\ \A e \in S : e <= u - 1
      BY <2>1, <2>2
    <2> QED  BY <1>1, <1>4, <2>2, <2>3
  <1> QED  BY <1>1, <1>5

\* The floor of a read is held by enough replicas
LEMMA GuaranteedIs ==
    ASSUME NEW level
    PROVE  /\ Guaranteed(level) \in 0..MaxTime
           /\ Guaranteed(level) # 0 =>
                \E dc \in {DcOf[n] : n \in Contacted(level)} :
                    Enough(level, dc, {n \in ReplicasIn(dc) : HeldTime(n) >= Guaranteed(level)})
  <1> DEFINE H == {t \in Time : \E dc \in {DcOf[n] : n \in Contacted(level)} :
                      Enough(level, dc, {n \in ReplicasIn(dc) : HeldTime(n) >= t})}
             G == H \cup {0}
  <1>1. H \subseteq Time /\ \A t \in H : \E dc \in {DcOf[n] : n \in Contacted(level)} :
                      Enough(level, dc, {n \in ReplicasIn(dc) : HeldTime(n) >= t})
    OBVIOUS
  <1>2. Guaranteed(level) = CHOOSE t \in G : \A u \in H : u <= t
    BY DEF Guaranteed
  <1> HIDE DEF H
  <1>3. G \in SUBSET (0..MaxTime) /\ MaxTime \in Nat
    BY <1>1, StoreAssumption DEF Time
  <1>4. \E c \in G : \A d \in G : d <= c
    <2>1. G \in SUBSET Nat /\ G # {} /\ \A d \in G : d <= MaxTime
      BY <1>3
    <2> HIDE DEF G
    <2> QED  BY <1>3, <2>1, LargestExists
  <1>5. Guaranteed(level) \in G
    BY <1>2, <1>4
  <1> QED  BY <1>1, <1>3, <1>5
-----------------------------------------------------------------------------
LEMMA ValueFacts ==
    ASSUME NEW v \in Value
    PROVE  /\ v # Nil /\ v.time \in Time /\ TimeOf(v) = v.time
           /\ v.type \in {"STRING", "TOMBSTONE"}
           /\ v.type = "STRING" => v.value \in Arg
  BY StoreAssumption DEF Value, TimeOf

LEMMA TimeOfType ==
    ASSUME NEW v \in Value \cup {Nil}
    PROVE  TimeOf(v) \in 0..MaxTime /\ (v # Nil <=> TimeOf(v) >= 1)
  BY ValueFacts, StoreAssumption DEF TimeOf, Time

LEMMA CorrectionValue ==
    ASSUME NEW i, Correction(i)
    PROVE  ValueOf(i) \in Value /\ ValueOf(i).time = i.time
  BY DEF Correction, ValueOf, Value

LEMMA WritesAreCorrections ==
    ASSUME NEW k \in DOMAIN Writes
    PROVE  Correction(Writes[k])
  <1>1. Writes[k] \in Instruction /\ Writes[k].key = ReadKey /\ Writes[k].cmd \in {"SET", "DEL"}
    BY WriteAssumption
  <1>2. CASE Writes[k].cmd = "SET"
    <2>1. Writes[k].args \in Seq(Arg) /\ Len(Writes[k].args) = 1 /\ Writes[k].time \in Time
      BY <1>1, <1>2, WriteAssumption, StoreAssumption DEF validateSet, Instruction, Time
    <2>2. Writes[k].args = <<Writes[k].args[1]>> /\ Writes[k].args[1] \in Arg
      BY <2>1
    <2> QED  BY <1>1, <1>2, <2>1, <2>2 DEF Correction
  <1>3. CASE Writes[k].cmd = "DEL"
    <2>1. validateDel(Writes[k])
      BY <1>3, WriteAssumption
    <2>2. Writes[k].time \in 0..MaxTime
      BY <1>1 DEF Instruction
    <2>3. Writes[k].args = <<>> /\ Writes[k].time \in Time
      BY <2>1, <2>2, StoreAssumption DEF validateDel, Time
    <2> QED  BY <1>1, <1>3, <2>3 DEF Correction
  <1> QED  BY <1>1, <1>2, <1>3

\* ExecuteInstruction of a correction either leaves the data alone, when the key
\* holds something newer or there is nothing to delete, or stores its value
LEMMA ExecuteCorrection ==
    ASSUME NEW d \in DataType, NEW i, Correction(i)
    PROVE  /\ ExecuteInstruction(d, i) \in DataType
           /\ \/ /\ ExecuteInstruction(d, i) = d
                 /\ i.cmd = "SET" => d[ReadKey] # Nil /\ i.time < d[ReadKey].time
                 /\ i.cmd = "DEL" => d[ReadKey] = Nil
              \/ /\ ExecuteInstruction(d, i)[ReadKey] = ValueOf(i)
                 /\ i.cmd = "SET" => ~(d[ReadKey] # Nil /\ i.time < d[ReadKey].time)
                 /\ i.cmd = "DEL" => d[ReadKey] # Nil
  <1>1. ReadKey \in Key /\ i.key = ReadKey /\ ValueOf(i) \in Value /\ i.time # 0
    BY WriteAssumption, CorrectionValue, StoreAssumption DEF Correction, Time
  <1>2. [d EXCEPT ![ReadKey] = ValueOf(i)] \in DataType
        /\ [d EXCEPT ![ReadKey] = ValueOf(i)][ReadKey] = ValueOf(i)
    BY <1>1 DEF DataType
  <1>3. CASE i.cmd = "SET"
    <2>1. ExecuteInstruction(d, i) = IF d[ReadKey] # Nil /\ i.time < d[ReadKey].time THEN d
                                     ELSE [d EXCEPT ![ReadKey] = ValueOf(i)]
      <3>1. validateSet(i)
        BY <1>1, <1>3 DEF validateSet, Correction
      <3> QED  BY <1>1, <1>3, <3>1 DEF ExecuteInstruction, set, ValueOf
    <2> QED  BY <1>2, <1>3, <2>1
  <1>4. CASE i.cmd = "DEL"
    <2>1. ExecuteInstruction(d, i) = IF d[ReadKey] = Nil THEN d
                                     ELSE [d EXCEPT ![ReadKey] = ValueOf(i)]
      <3>1. validateDel(i)
        BY <1>1, <1>4 DEF validateDel, Correction
      <3> QED  BY <1>1, <1>4, <3>1 DEF ExecuteInstruction, del, ValueOf
    <2> QED  BY <1>2, <1>4, <2>1
  <1> QED  BY <1>3, <1>4 DEF Correction
-----------------------------------------------------------------------------
(* Types.  A step of the coordinator changes the state of one read. *)

LEMMA HeldFacts ==
    ASSUME TypeOK, NEW n \in Node
    PROVE  /\ data[n] \in DataType /\ data[n][ReadKey] \in Value \cup {Nil}
           /\ HeldTime(n) \in 0..MaxTime /\ HeldTime(n) = TimeOf(data[n][ReadKey])
           /\ data[n][ReadKey] # Nil <=> HeldTime(n) >= 1
  <1>1. data[n] \in DataType /\ data[n][ReadKey] \in Value \cup {Nil}
    BY WriteAssumption DEF TypeOK, DataType
  <1> QED  BY <1>1, TimeOfType DEF HeldTime

LEMMA SetRead ==
    ASSUME TypeOK, NEW r \in Reads, NEW x \in ReadType, read' = [read EXCEPT ![r] = x]
    PROVE  /\ read' \in [Reads -> ReadType] /\ read'[r] = x
           /\ \A q \in Reads \ {r} : read'[q] = read[q]
  BY DEF TypeOK

\* The channels of a read are garbage
Emptied(x, p) == [x EXCEPT !.pc = p, !.answers = [n \in Node |-> NoAnswer]]

LEMMA EmptiedType ==
    ASSUME NEW x \in ReadType,
           NEW p \in {"idle", "waiting", "repairing", "done", "error", "timeout"}
    PROVE  LET y == Emptied(x, p)
           IN  /\ y \in ReadType /\ y.pc = p /\ y.answers = [n \in Node |-> NoAnswer]
               /\ y.val = x.val /\ y.repair = x.repair /\ y.floor = x.floor
               /\ y.covered = x.covered /\ y.high = x.high /\ y.level = x.level
  <1>1. NoAnswer \in Answer
    BY DEF NoAnswer, Answer
  <1>2. [n \in Node |-> NoAnswer] \in [Node -> Answer]
    BY <1>1
  <1> QED  BY <1>2 DEF Emptied, ReadType

LEMMA ClosedIs ==
    ASSUME TypeOK, NEW r \in Reads, NEW p
    PROVE  Closed(r, p) = [read EXCEPT ![r] = Emptied(read[r], p)]
  BY DEF Closed, Emptied, TypeOK

\* How the coordinator may change a read: x is the new state
StartsAs(r, x) ==
    \/ x = [read[r] EXCEPT !.pc = "error"]
    \/ x = [read[r] EXCEPT !.pc = "waiting", !.floor = Guaranteed(read[r].level)]

LEMMA StartReadShape ==
    ASSUME TypeOK, NEW r \in Reads, StartRead(r)
    PROVE  \E x \in ReadType :
              /\ StartsAs(r, x) /\ read' = [read EXCEPT ![r] = x] /\ read[r].pc = "idle"
              /\ UNCHANGED <<data, applied, repairs, crashed>>
  <1>1. read[r] \in ReadType
    BY DEF TypeOK
  <1>2. [read[r] EXCEPT !.pc = "error"] \in ReadType
    BY <1>1 DEF ReadType
  <1>3. [read[r] EXCEPT !.pc = "waiting", !.floor = Guaranteed(read[r].level)] \in ReadType
    BY <1>1, GuaranteedIs DEF ReadType
  <1> QED  BY <1>2, <1>3 DEF StartRead, StartsAs

LEMMA AnswerQueryShape ==
    ASSUME TypeOK, NEW r \in Reads, NEW n \in Node, AnswerQuery(r, n)
    PROVE  \E a \in Answer :
              /\ a.answered
              /\ a.err \/ a.val = data[n][ReadKey]
              /\ a.val \in {data[n][ReadKey], Nil}
              /\ [read[r] EXCEPT !.answers[n] = a] \in ReadType
              /\ read' = [read EXCEPT ![r] = [read[r] EXCEPT !.answers[n] = a]]
              /\ read[r].pc = "waiting" \/ read[r].repair = "collect"
              /\ UNCHANGED <<data, applied, repairs, crashed>>
  <1>1. read[r] \in ReadType
    BY DEF TypeOK
  <1>2. PICK a : /\ \/ a = [answered |-> TRUE, err |-> FALSE, val |-> get(data[n], ReadKey)]
                    \/ a = [answered |-> TRUE, err |-> TRUE, val |-> Nil]
                 /\ read' = [read EXCEPT ![r].answers[n] = a]
    BY DEF AnswerQuery
  <1>3. a \in Answer /\ a.answered /\ (a.err \/ a.val = data[n][ReadKey])
        /\ a.val \in {data[n][ReadKey], Nil}
    <2>1. PICK v \in Value \cup {Nil} : v = data[n][ReadKey]
      BY HeldFacts
    <2>2. CASE a = [answered |-> TRUE, err |-> FALSE, val |-> v]
      BY <2>1, <2>2 DEF Answer
    <2>3. CASE a = [answered |-> TRUE, err |-> TRUE, val |-> Nil]
      BY <2>1, <2>3 DEF Answer
    <2> QED  BY <1>2, <2>1, <2>2, <2>3 DEF get
  <1>4. [read[r] EXCEPT !.answers[n] = a] \in ReadType
    <2>1. [read[r].answers EXCEPT ![n] = a] \in [Node -> Answer]
      BY <1>1, <1>3 DEF ReadType
    <2> QED  BY <1>1, <2>1 DEF ReadType
  <1> QED  BY <1>2, <1>3, <1>4 DEF AnswerQuery

LEMMA GivesUpShape ==
    ASSUME TypeOK, NEW r \in Reads, TooManyErrors(r) \/ ReadTimeout(r)
    PROVE  \E p \in {"error", "timeout"} :
              /\ read' = [read EXCEPT ![r] = Emptied(read[r], p)]
              /\ read[r].pc = "waiting"
              /\ UNCHANGED <<data, applied, repairs, crashed>>
  BY ClosedIs DEF TooManyErrors, ReadTimeout

LEMMA CrashShape ==
    ASSUME TypeOK, Crash
    PROVE  /\ read' \in [Reads -> ReadType]
           /\ \A r \in Reads : read'[r] = Emptied(read[r], read[r].pc)
           /\ crashed' /\ repairs' = {} /\ UNCHANGED <<data, applied>>
  <1>1. \A r \in Reads : read[r] \in ReadType
    BY DEF TypeOK
  <1>2. \A r \in Reads : Emptied(read[r], read[r].pc) \in ReadType
    BY <1>1, EmptiedType DEF ReadType
  <1>3. \A r \in Reads : Closed(r, read[r].pc)[r] = Emptied(read[r], read[r].pc)
    <2> TAKE r \in Reads
    <2>1. DOMAIN read = Reads
      BY DEF TypeOK
    <2> QED  BY <2>1, ClosedIs
  <1>4. read' = [r \in Reads |-> Emptied(read[r], read[r].pc)]
    BY <1>3 DEF Crash
  <1> QED  BY <1>2, <1>4 DEF Crash

LEMMA HasOther ==
    ASSUME NEW D, IsFiniteSet(D), Cardinality(D) > 1, NEW n \in D
    PROVE  \E m \in D : m # n
  <1> SUFFICES ASSUME \A m \in D : m = n
               PROVE  FALSE
    OBVIOUS
  <1>1. D = {n}
    OBVIOUS
  <1> QED  BY <1>1, FS_Singleton

\* Values of replicas that answered without an error
LEMMA ValuesType ==
    ASSUME TypeOK, NEW r \in Reads, NEW G \in SUBSET Answered(r)
    PROVE  /\ Good(r, G) \subseteq Node /\ IsFiniteSet(Good(r, G))
           /\ DOMAIN Values(r, Good(r, G)) = Good(r, G)
           /\ \A n \in Good(r, G) : /\ read[r].answers[n].answered /\ ~read[r].answers[n].err
                                    /\ Values(r, Good(r, G))[n] = read[r].answers[n].val
                                    /\ Values(r, Good(r, G))[n] \in Value \cup {Nil}
  <1>1. read[r] \in ReadType
    BY DEF TypeOK
  <1>2. Good(r, G) \subseteq Node /\ \A n \in Good(r, G) :
            read[r].answers[n].answered /\ ~read[r].answers[n].err
    BY DEF Good, Answered
  <1>3. \A n \in Node : read[r].answers[n].val \in Value \cup {Nil}
    BY <1>1 DEF ReadType, Answer
  <1>4. IsFiniteSet(Good(r, G))
    BY <1>2, FS_Subset, ReplicaAssumption
  <1> QED  BY <1>2, <1>3, <1>4 DEF Values

\* Of several values no one is nil, unless Reconcile panics
LEMMA SeveralValues ==
    ASSUME TypeOK, NEW r \in Reads, NEW G \in SUBSET Answered(r),
           NEW D, D = Good(r, G), NEW f, f = Values(r, D), Cardinality(D) > 1, ~ReconcilePanics(f)
    PROVE  DOMAIN f = D /\ \A n \in D : f[n] \in Value
  <1>1. DOMAIN f = D /\ IsFiniteSet(D) /\ \A n \in D : f[n] \in Value \cup {Nil}
    BY ValuesType
  <1>2. \A n \in D : \E m \in D : m # n
    BY <1>1, HasOther
  <1> QED  BY <1>1, <1>2 DEF ReconcilePanics

LEMMA FinishReadShape ==
    ASSUME TypeOK, NEW r \in Reads, FinishRead(r)
    PROVE  \/ Crash
           \/ \E G \in Sufficient(r), h \in Node :
                 LET v == read[r].answers[h].val
                     S == Good(r, G)
                 IN  /\ v \in Value \cup {Nil} /\ h \in S /\ ~ReconcilePanics(Values(r, S))
                     /\ Cardinality(S) = 1 \/ h \in HighNodes(Values(r, S))
                     /\ \E x \in ReadType :
                          /\ read' = [read EXCEPT ![r] = x]
                          /\ \E p \in {"repairing", "done"} :
                                x = [read[r] EXCEPT !.val = v, !.repair = "collect", !.pc = p]
                     /\ read[r].pc = "waiting"
                     /\ UNCHANGED <<data, applied, repairs, crashed>>
  <1> SUFFICES ASSUME ~Crash
               PROVE  \E G \in Sufficient(r), h \in Node :
                 LET v == read[r].answers[h].val
                     S == Good(r, G)
                 IN  /\ v \in Value \cup {Nil} /\ h \in S /\ ~ReconcilePanics(Values(r, S))
                     /\ Cardinality(S) = 1 \/ h \in HighNodes(Values(r, S))
                     /\ \E x \in ReadType :
                          /\ read' = [read EXCEPT ![r] = x]
                          /\ \E p \in {"repairing", "done"} :
                                x = [read[r] EXCEPT !.val = v, !.repair = "collect", !.pc = p]
                     /\ read[r].pc = "waiting"
                     /\ UNCHANGED <<data, applied, repairs, crashed>>
    OBVIOUS
  <1>1. PICK G \in Sufficient(r) :
          LET S == Good(r, G)
          IN  /\ ~ReconcilePanics(Values(r, S))
              /\ \E h \in IF Cardinality(S) = 1 THEN S ELSE HighNodes(Values(r, S)) :
                    read' = [read EXCEPT ![r].val = Values(r, S)[h],
                                         ![r].repair = "collect",
                                         ![r].pc = IF read[r].sync THEN "repairing" ELSE "done"]
              /\ UNCHANGED <<data, applied, repairs, crashed>>
    BY DEF FinishRead
  <1>2. PICK S : S = Good(r, G)
    OBVIOUS
  <1>3. PICK h \in IF Cardinality(S) = 1 THEN S ELSE HighNodes(Values(r, S)) :
          read' = [read EXCEPT ![r].val = Values(r, S)[h],
                               ![r].repair = "collect",
                               ![r].pc = IF read[r].sync THEN "repairing" ELSE "done"]
    BY <1>1, <1>2
  <1>4. G \in SUBSET Answered(r)
    BY DEF Sufficient
  <1>5. h \in S /\ h \in Node /\ Values(r, S)[h] = read[r].answers[h].val
        /\ Values(r, S)[h] \in Value \cup {Nil}
        /\ (Cardinality(S) = 1 \/ h \in HighNodes(Values(r, S)))
    BY <1>2, <1>3, <1>4, ValuesType DEF HighNodes
  <1>6. PICK p \in {"repairing", "done"} : p = IF read[r].sync THEN "repairing" ELSE "done"
    OBVIOUS
  <1>7. PICK v \in Value \cup {Nil} : v = read[r].answers[h].val
    BY <1>5
  <1>8. PICK x : x = [read[r] EXCEPT !.val = v, !.repair = "collect", !.pc = p]
    OBVIOUS
  <1>9. read[r] \in ReadType
    BY DEF TypeOK
  <1>10. x \in ReadType
    BY <1>8, <1>9 DEF ReadType
  <1>11. read' = [read EXCEPT ![r] = x]
    BY <1>3, <1>5, <1>6, <1>7, <1>8
  <1>12. read[r].pc = "waiting"
    BY DEF FinishRead
  <1> QED  BY <1>1, <1>2, <1>5, <1>7, <1>8, <1>10, <1>11, <1>12

\* Reconcile sends the winning value to all replicas that do not hold one as new
LEMMA ReconcileIs ==
    ASSUME NEW f, \A n \in DOMAIN f : f[n] \in Value, NEW h \in HighNodes(f),
           NEW I, I = Reconcile(ReadKey, h, f)
    PROVE  /\ h \in DOMAIN f /\ f[h] \in Value
           /\ DOMAIN I \subseteq DOMAIN f
           /\ \A n \in DOMAIN I : Correction(I[n]) /\ ValueOf(I[n]) = f[h] /\ I[n].time = f[h].time
           /\ \A n \in DOMAIN f \ DOMAIN I : f[n].time = f[h].time
           /\ \A n \in DOMAIN f : f[n].time <= f[h].time
  <1>1. h \in DOMAIN f /\ f[h] \in Value /\ \A n \in DOMAIN f : f[n].time <= f[h].time
    BY DEF HighNodes
  <1>2. PICK v \in Value : v = f[h]
    BY <1>1
  <1>3. CASE v.type = "STRING"
    <2>1. v.value \in Arg /\ v.time \in Time
          /\ v = [type |-> "STRING", value |-> v.value, time |-> v.time]
      BY <1>3 DEF Value
    <2>2. PICK i : i = [cmd |-> "SET", key |-> ReadKey, args |-> <<v.value>>, time |-> v.time]
      OBVIOUS
    <2>3. Correction(i) /\ ValueOf(i) = v /\ i.time = v.time
      BY <2>1, <2>2 DEF Correction, ValueOf
    <2>4. I = [n \in {n \in DOMAIN f : ~Equal(f[h], f[n])} |-> i]
      BY <1>2, <1>3, <2>2 DEF Reconcile, reconcileString
    <2>5. \A n \in DOMAIN f : Equal(f[h], f[n]) => f[n].time = f[h].time
      BY DEF Equal, baseValueEqual
    <2> QED  BY <1>1, <1>2, <2>3, <2>4, <2>5
  <1>4. CASE v.type # "STRING"
    <2>1. v.time \in Time /\ v = [type |-> "TOMBSTONE", value |-> Nil, time |-> v.time]
      BY <1>4 DEF Value
    <2>2. PICK i : i = [cmd |-> "DEL", key |-> ReadKey, args |-> <<>>, time |-> v.time]
      OBVIOUS
    <2>3. Correction(i) /\ ValueOf(i) = v /\ i.time = v.time
      BY <2>1, <2>2 DEF Correction, ValueOf
    <2>4. I = [n \in DOMAIN f \ {h} |-> i]
      BY <1>2, <1>4, <2>2 DEF Reconcile, reconcileTombstone
    <2> QED  BY <1>1, <1>2, <2>3, <2>4
  <1> QED  BY <1>3, <1>4

\* The state of a read whose repair is over
Over(r) == [Emptied(read[r], "done") EXCEPT !.repair = "over"]

LEMMA OverType ==
    ASSUME TypeOK, NEW r \in Reads
    PROVE  /\ Over(r) \in ReadType /\ Over(r).pc = "done" /\ Over(r).repair = "over"
           /\ Over(r).answers = [n \in Node |-> NoAnswer]
           /\ Over(r).val = read[r].val /\ Over(r).floor = read[r].floor
           /\ Over(r).covered = read[r].covered /\ Over(r).high = read[r].high
           /\ [Closed(r, "done") EXCEPT ![r].repair = "over"] = [read EXCEPT ![r] = Over(r)]
  <1>1. read[r] \in ReadType
    BY DEF TypeOK
  <1>2. PICK y \in ReadType :
            /\ y = Emptied(read[r], "done") /\ y.pc = "done" /\ y.answers = [n \in Node |-> NoAnswer]
            /\ y.val = read[r].val /\ y.floor = read[r].floor
            /\ y.covered = read[r].covered /\ y.high = read[r].high
    BY <1>1, EmptiedType
  <1>3. Over(r) = [y EXCEPT !.repair = "over"]
    BY <1>2 DEF Over
  <1>4. [Closed(r, "done") EXCEPT ![r].repair = "over"] = [read EXCEPT ![r] = Over(r)]
    <2>1. Closed(r, "done") = [read EXCEPT ![r] = y] /\ DOMAIN read = Reads
      BY <1>2, ClosedIs DEF TypeOK
    <2> QED  BY <1>3, <2>1
  <1> QED  BY <1>2, <1>3, <1>4 DEF ReadType

\* The corrections of read r for the instructions I
CorrectionsOf(r, I) == {[read |-> r, to |-> n, inst |-> I[n]] : n \in DOMAIN I}

Corrects(r, G, f, h, I, x) ==
    /\ f = Values(r, Good(r, G)) /\ DOMAIN f = Good(r, G) /\ DOMAIN f \subseteq Node
    /\ \A n \in DOMAIN f : /\ f[n] \in Value /\ f[n] = read[r].answers[n].val
                           /\ read[r].answers[n].answered /\ ~read[r].answers[n].err
    /\ h \in HighNodes(f) /\ I = Reconcile(ReadKey, h, f)
    /\ x = [Over(r) EXCEPT !.covered = DOMAIN f, !.high = f[h].time]
    /\ repairs' = repairs \cup CorrectionsOf(r, I)

LEMMA ReconcileReadShape ==
    ASSUME TypeOK, NEW r \in Reads, ReconcileRead(r)
    PROVE  /\ read[r].repair = "collect" /\ UNCHANGED <<data, applied>>
           /\ \/ Crash
              \/ read' = [read EXCEPT ![r] = Over(r)] /\ UNCHANGED <<repairs, crashed>>
              \/ \E G \in SUBSET Answered(r), x \in ReadType : \E f, h, I :
                    /\ Corrects(r, G, f, h, I, x)
                    /\ read' = [read EXCEPT ![r] = x] /\ UNCHANGED crashed
  <1>1. read[r].repair = "collect" /\ UNCHANGED <<data, applied>>
    BY DEF ReconcileRead, Crash
  <1>2. PICK o : o = [Closed(r, "done") EXCEPT ![r].repair = "over"]
    OBVIOUS
  <1>3. PICK G \in SUBSET Answered(r) :
          LET values == Values(r, Good(r, G))
          IN  \/ read' = o /\ UNCHANGED <<repairs, crashed>>
              \/ Crash
              \/ /\ Cardinality(DOMAIN values) > 1
                 /\ ~ReconcilePanics(values)
                 /\ \E h \in HighNodes(values) :
                       /\ LET instructions == Reconcile(ReadKey, h, values)
                          IN  repairs' = repairs \cup
                                {[read |-> r, to |-> n, inst |-> instructions[n]] :
                                    n \in DOMAIN instructions}
                       /\ read' = [o EXCEPT ![r].covered = DOMAIN values,
                                            ![r].high = values[h].time]
                 /\ UNCHANGED crashed
    BY <1>2 DEF ReconcileRead
  <1>4. PICK f : f = Values(r, Good(r, G))
    OBVIOUS
  <1>5. CASE /\ Cardinality(DOMAIN f) > 1
             /\ ~ReconcilePanics(f)
             /\ \E h \in HighNodes(f) :
                   /\ LET instructions == Reconcile(ReadKey, h, f)
                      IN  repairs' = repairs \cup
                            {[read |-> r, to |-> n, inst |-> instructions[n]] :
                                n \in DOMAIN instructions}
                   /\ read' = [o EXCEPT ![r].covered = DOMAIN f, ![r].high = f[h].time]
             /\ UNCHANGED crashed
    <2>1. /\ DOMAIN f = Good(r, G) /\ DOMAIN f \subseteq Node
          /\ \A n \in DOMAIN f : /\ f[n] = read[r].answers[n].val
                                 /\ read[r].answers[n].answered /\ ~read[r].answers[n].err
      BY <1>4, ValuesType
    <2>2. \A n \in DOMAIN f : f[n] \in Value
      BY <1>4, <1>5, <2>1, SeveralValues
    <2>3. PICK h \in HighNodes(f) :
                   /\ LET instructions == Reconcile(ReadKey, h, f)
                      IN  repairs' = repairs \cup
                            {[read |-> r, to |-> n, inst |-> instructions[n]] :
                                n \in DOMAIN instructions}
                   /\ read' = [o EXCEPT ![r].covered = DOMAIN f, ![r].high = f[h].time]
      BY <1>5
    <2>4. PICK I : I = Reconcile(ReadKey, h, f)
      OBVIOUS
    <2>5. PICK x : x = [Over(r) EXCEPT !.covered = DOMAIN f, !.high = f[h].time]
      OBVIOUS
    <2>6. f[h].time \in Time
      BY <2>2, <2>3, ValueFacts DEF HighNodes
    <2>7. x \in ReadType
      <3>1. f[h].time \in 0..MaxTime
        BY <2>6, StoreAssumption DEF Time
      <3> QED  BY <2>1, <2>5, <3>1, OverType DEF ReadType
    <2>8. read' = [read EXCEPT ![r] = x]
      <3>1. o = [read EXCEPT ![r] = Over(r)] /\ DOMAIN read = Reads
        BY <1>2, OverType DEF TypeOK
      <3> QED  BY <2>3, <2>5, <3>1
    <2>9. Corrects(r, G, f, h, I, x)
      BY <1>4, <2>1, <2>2, <2>3, <2>4, <2>5 DEF Corrects, CorrectionsOf
    <2> QED  BY <1>1, <1>5, <2>7, <2>8, <2>9
  <1>6. CASE read' = o /\ UNCHANGED <<repairs, crashed>>
    BY <1>1, <1>2, <1>6, OverType
  <1>7. CASE Crash
    BY <1>1, <1>7
  <1> QED  BY <1>3, <1>4, <1>5, <1>6, <1>7

\* Replica n executes the valid write i
Executes(n, i) == data' = [data EXCEPT ![n] = ExecuteInstruction(data[n], i)]

LEMMA ApplyWriteShape ==
    ASSUME TypeOK, NEW n \in Node, ApplyWrite(n)
    PROVE  /\ applied[n] + 1 \in DOMAIN Writes /\ Executes(n, Writes[applied[n] + 1])
           /\ applied' = [applied EXCEPT ![n] = @ + 1] /\ applied' \in [Node -> 0..Len(Writes)]
           /\ UNCHANGED <<read, repairs, crashed>>
  <1>1. applied \in [Node -> 0..Len(Writes)] /\ applied[n] \in 0..Len(Writes)
        /\ Len(Writes) \in Nat /\ DOMAIN Writes = 1..Len(Writes) /\ applied[n] < Len(Writes)
    BY WriteAssumption DEF TypeOK, ApplyWrite
  <1>2. applied[n] + 1 \in 1..Len(Writes)
    BY <1>1
  <1> QED  BY <1>1, <1>2 DEF ApplyWrite, Executes

LEMMA ExecutesType ==
    ASSUME TypeOK, NEW n \in Node, NEW i, Correction(i), Executes(n, i)
    PROVE  /\ data' \in [Node -> DataType]
           /\ data'[n] = ExecuteInstruction(data[n], i)
           /\ \A m \in Node \ {n} : data'[m] = data[m]
  <1>1. ExecuteInstruction(data[n], i) \in DataType
    BY HeldFacts, ExecuteCorrection
  <1> QED  BY <1>1 DEF TypeOK, Executes

LEMMA InitTInv == Init => TInv
  <1> SUFFICES ASSUME Init
               PROVE  TInv
    OBVIOUS
  <1>1. data \in [Node -> DataType]
    BY DEF Init, DataType, NewKVStore
  <1>2. applied \in [Node -> 0..Len(Writes)]
    <2>1. Len(Writes) \in Nat
      BY WriteAssumption
    <2> QED  BY <2>1 DEF Init
  <1>3. read \in [Reads -> ReadType]
    <2>1. PICK request \in [Reads -> Requests] :
          read = [r \in Reads |->
                    [pc |-> "idle", level |-> request[r].level, sync |-> request[r].sync,
                     answers |-> [n \in Node |-> NoAnswer], val |-> Nil,
                     repair |-> "none", floor |-> 0, covered |-> {}, high |-> 0]]
      BY DEF Init
    <2>2. [n \in Node |-> NoAnswer] \in [Node -> Answer]
      BY DEF NoAnswer, Answer
    <2>3. \A r \in Reads : request[r].level \in ConsistencyLevel /\ request[r].sync \in BOOLEAN
      BY ReplicaAssumption
    <2>4. 0 \in 0..MaxTime
      BY StoreAssumption
    <2>5. \A r \in Reads :
            [pc |-> "idle", level |-> request[r].level, sync |-> request[r].sync,
             answers |-> [n \in Node |-> NoAnswer], val |-> Nil,
             repair |-> "none", floor |-> 0, covered |-> {}, high |-> 0] \in ReadType
      BY <2>2, <2>3, <2>4 DEF ReadType
    <2> QED  BY <2>1, <2>5
  <1>4. repairs = {} /\ crashed \in BOOLEAN
    BY DEF Init
  <1> QED  BY <1>1, <1>2, <1>3, <1>4 DEF TInv, TypeOK, CorrectionsValid

\* A step that changes read r only
LEMMA ReadKeepsTypes ==
    ASSUME TInv, NEW r \in Reads, NEW x \in ReadType, read' = [read EXCEPT ![r] = x],
           UNCHANGED <<data, applied, crashed>>, repairs' = repairs
    PROVE  TInv'
  BY SetRead DEF TInv, TypeOK, CorrectionsValid

LEMMA CrashKeepsTypes ==
    ASSUME TInv, Crash
    PROVE  TInv'
  BY CrashShape DEF TInv, TypeOK, CorrectionsValid

LEMMA ReconcileKeepsTypes ==
    ASSUME TInv, NEW r \in Reads, ReconcileRead(r)
    PROVE  TInv'
  <1>1. TypeOK
    BY DEF TInv
  <1>2. CASE Crash
    BY <1>2, CrashKeepsTypes
  <1>3. CASE read' = [read EXCEPT ![r] = Over(r)] /\ UNCHANGED <<repairs, crashed>>
    BY <1>1, <1>3, ReconcileReadShape, OverType, ReadKeepsTypes
  <1>4. ASSUME NEW G \in SUBSET Answered(r), NEW x \in ReadType, NEW f, NEW h, NEW I,
               Corrects(r, G, f, h, I, x), read' = [read EXCEPT ![r] = x], UNCHANGED crashed
        PROVE  TInv'
    <2>1. /\ DOMAIN I \subseteq Node
          /\ \A n \in DOMAIN I : Correction(I[n])
      BY <1>4, ReconcileIs DEF Corrects
    <2>2. \A p \in repairs' : p.read \in Reads /\ p.to \in Node /\ Correction(p.inst)
      BY <1>1, <1>4, <2>1 DEF Corrects, CorrectionsOf, TInv, TypeOK, CorrectionsValid
    <2>3. \A p \in repairs' : p.inst.time \in Time
      BY <2>2 DEF Correction
    <2>4. read' \in [Reads -> ReadType] /\ UNCHANGED <<data, applied>>
      BY <1>1, <1>4, SetRead, ReconcileReadShape
    <2> QED  BY <1>1, <1>4, <2>2, <2>3, <2>4 DEF TInv, TypeOK, CorrectionsValid
  <1> QED  BY <1>1, <1>2, <1>3, <1>4, ReconcileReadShape

LEMMA NextTInv == TInv /\ [Next]_vars => TInv'
  <1> SUFFICES ASSUME TInv, [Next]_vars
               PROVE  TInv'
    OBVIOUS
  <1>1. TypeOK
    BY DEF TInv
  <1>2. CASE UNCHANGED vars
    BY <1>2 DEF vars, TInv, TypeOK, CorrectionsValid
  <1>3. ASSUME NEW n \in Node, ApplyWrite(n)
        PROVE  TInv'
    <2>1. PICK i : Correction(i) /\ Executes(n, i)
      BY <1>1, <1>3, ApplyWriteShape, WritesAreCorrections
    <2> QED  BY <1>1, <1>3, <2>1, ApplyWriteShape, ExecutesType DEF TInv, TypeOK, CorrectionsValid
  <1>4. ASSUME NEW r \in Reads, Advance(r) \/ ReadTimeout(r)
        PROVE  TInv'
    <2>1. CASE StartRead(r)
      BY <1>1, <2>1, StartReadShape, ReadKeepsTypes
    <2>2. ASSUME NEW n \in Node, AnswerQuery(r, n)
          PROVE  TInv'
      <3>1. PICK a \in Answer :
              /\ [read[r] EXCEPT !.answers[n] = a] \in ReadType
              /\ read' = [read EXCEPT ![r] = [read[r] EXCEPT !.answers[n] = a]]
              /\ UNCHANGED <<data, applied, repairs, crashed>>
        BY <1>1, <2>2, AnswerQueryShape
      <3> QED  BY <3>1, ReadKeepsTypes
    <2>3. CASE TooManyErrors(r) \/ ReadTimeout(r)
      <3>1. PICK p \in {"error", "timeout"} :
              /\ read' = [read EXCEPT ![r] = Emptied(read[r], p)]
              /\ UNCHANGED <<data, applied, repairs, crashed>>
        BY <1>1, <2>3, GivesUpShape
      <3>2. Emptied(read[r], p) \in ReadType
        BY <1>1, EmptiedType DEF TypeOK
      <3> QED  BY <3>1, <3>2, ReadKeepsTypes
    <2>4. CASE FinishRead(r)
      <3>1. CASE Crash
        BY <3>1, CrashKeepsTypes
      <3>2. CASE ~Crash
        BY <1>1, <2>4, <3>2, FinishReadShape, ReadKeepsTypes
      <3> QED  BY <3>1, <3>2
    <2>5. CASE ReconcileRead(r)
      BY <2>5, ReconcileKeepsTypes
    <2> QED  BY <1>4, <2>1, <2>2, <2>3, <2>4, <2>5 DEF Advance
  <1>5. ASSUME NEW p \in repairs, ApplyRepair(p)
        PROVE  TInv'
    <2>1. p.to \in Node /\ Correction(p.inst) /\ repairs' \subseteq repairs
          /\ UNCHANGED <<applied, read, crashed>>
      BY <1>1, <1>5 DEF TInv, TypeOK, CorrectionsValid, ApplyRepair
    <2>2. data' \in [Node -> DataType]
      BY <1>1, <1>5, <2>1, ExecutesType DEF ApplyRepair, Executes, TypeOK
    <2> QED  BY <1>1, <2>1, <2>2 DEF TInv, TypeOK, CorrectionsValid
  <1> QED  BY <1>2, <1>3, <1>4, <1>5 DEF Next

(***************************************************************************)
(* Whatever the writes, every variable of ExecuteRead keeps its type, and  *)
(* the corrections that Reconcile computes are valid writes of the key     *)
(* (ReconcileRead, ExecuteInstruction).                                    *)
(***************************************************************************)
THEOREM TypeCorrect == Spec => [](TypeOK /\ CorrectionsValid)
  <1>1. TInv => TypeOK /\ CorrectionsValid
    BY DEF TInv
  <1> QED  BY InitTInv, NextTInv, <1>1, PTL DEF Spec
-----------------------------------------------------------------------------
(* Where every value comes from, and what the reads and corrections rest on. *)

\* No value, or the value of one of the writes
Written(v) == v = Nil \/ \E k \in DOMAIN Writes : v = ValueOf(Writes[k])

\* Replica n has answered read r without an error
Heard(r, n) == read[r].answers[n].answered /\ ~read[r].answers[n].err

\* Replicas of which the read cannot but hear one hold its floor, and have
\* answered with nothing older
Backed(r) ==
    \E dc \in {DcOf[n] : n \in Contacted(read[r].level)} :
        \E S \in SUBSET ReplicasIn(dc) :
            /\ Enough(read[r].level, dc, S)
            /\ \A n \in S : /\ HeldTime(n) >= read[r].floor
                            /\ Heard(r, n) => TimeOf(read[r].answers[n].val) >= read[r].floor

ReadOK(r) ==
    /\ read[r].repair # "none" => read[r].pc \in {"repairing", "done"}
    /\ read[r].pc = "idle" => \A n \in Node : ~Heard(r, n)
    /\ \A n \in Node : /\ Written(read[r].answers[n].val)
                       /\ Heard(r, n) => HeldTime(n) >= TimeOf(read[r].answers[n].val)
    /\ read[r].pc = "waiting" /\ read[r].floor # 0 => Backed(r)
    /\ read[r].pc \in {"repairing", "done"} => TimeOf(read[r].val) >= read[r].floor

\* The replicas a read has found behind have caught up or will
SpreadOK(r) ==
    ~crashed => \A n \in read[r].covered \ MayFail :
        HeldTime(n) >= read[r].high \/ \E p \in repairs : p.read = r /\ p.to = n

RepairOK(p) ==
    /\ Written(ValueOf(p.inst))
    /\ read[p.read].repair = "over" /\ read[p.read].high = p.inst.time
    /\ HeldTime(p.to) >= 1

IInv ==
    /\ TInv
    /\ \A n \in Node : Written(data[n][ReadKey])
    /\ \A r \in Reads : ReadOK(r) /\ SpreadOK(r)
    /\ \A p \in repairs : RepairOK(p)

NobodyBack == \A n \in Node : HeldTime(n)' >= HeldTime(n)

LEMMA WrittenFacts ==
    ASSUME NEW v, Written(v), v # Nil
    PROVE  v \in Value
  BY WritesAreCorrections, CorrectionValue DEF Written

\* With deletes the newest, nothing is overwritten by anything older
LEMMA ExecutesForward ==
    ASSUME DeletesNewest, IInv, NEW n \in Node, NEW i, Correction(i), Written(ValueOf(i)),
           Executes(n, i)
    PROVE  /\ NobodyBack
           /\ \A m \in Node : Written(data'[m][ReadKey]) /\ HeldTime(m)' \in Nat
           /\ i.cmd = "SET" \/ data[n][ReadKey] # Nil => HeldTime(n)' >= i.time
  <1>1. TypeOK /\ \A m \in Node : Written(data[m][ReadKey])
    BY DEF IInv, TInv
  <1>2. /\ data' \in [Node -> DataType]
        /\ data'[n] = ExecuteInstruction(data[n], i)
        /\ \A m \in Node \ {n} : data'[m] = data[m]
    BY <1>1, ExecutesType
  <1>3. PICK d \in DataType : d = data[n]
    BY <1>1, HeldFacts
  <1>4. ValueOf(i) \in Value /\ ValueOf(i).time = i.time /\ i.time \in Time
    BY CorrectionValue DEF Correction
  <1>5. TimeOf(ValueOf(i)) = i.time /\ i.time \in Nat \ {0} /\ TimeOf(d[ReadKey]) \in Nat
    BY <1>1, <1>3, <1>4, ValueFacts, HeldFacts, StoreAssumption DEF Time
  <1>6. i.cmd = "DEL" => TimeOf(d[ReadKey]) <= i.time
    <2> SUFFICES ASSUME i.cmd = "DEL", d[ReadKey] # Nil
                 PROVE  TimeOf(d[ReadKey]) <= i.time
      BY <1>5 DEF TimeOf
    <2>1. PICK k \in DOMAIN Writes : ValueOf(i) = ValueOf(Writes[k])
      BY <1>4, ValueFacts DEF Written
    <2>2. Writes[k].cmd = "DEL" /\ Writes[k].time = i.time
      <3>1. Correction(Writes[k])
        BY WritesAreCorrections
      <3>2. ValueOf(Writes[k]).time = Writes[k].time /\ ValueOf(i).type = "TOMBSTONE"
        BY <3>1, CorrectionValue DEF ValueOf
      <3> QED  BY <1>4, <2>1, <3>1, <3>2 DEF ValueOf, Correction
    <2>3. PICK j \in DOMAIN Writes : d[ReadKey] = ValueOf(Writes[j])
      BY <1>1, <1>3 DEF Written
    <2>4. TimeOf(d[ReadKey]) = Writes[j].time
      BY <2>3, WritesAreCorrections, CorrectionValue, ValueFacts
    <2> QED  BY <2>2, <2>4 DEF DeletesNewest
  <1>7. \/ /\ data'[n] = d
           /\ i.cmd = "SET" => d[ReadKey] # Nil /\ i.time < d[ReadKey].time
           /\ i.cmd = "DEL" => d[ReadKey] = Nil
        \/ /\ data'[n][ReadKey] = ValueOf(i)
           /\ i.cmd = "SET" => ~(d[ReadKey] # Nil /\ i.time < d[ReadKey].time)
    BY <1>2, <1>3, ExecuteCorrection
  <1>8. /\ TimeOf(data'[n][ReadKey]) >= TimeOf(d[ReadKey])
        /\ Written(data'[n][ReadKey])
        /\ TimeOf(data'[n][ReadKey]) \in Nat
        /\ i.cmd = "SET" \/ d[ReadKey] # Nil => TimeOf(data'[n][ReadKey]) >= i.time
    <2>1. i.cmd \in {"SET", "DEL"}
      BY DEF Correction
    <2>2. d[ReadKey] # Nil => TimeOf(d[ReadKey]) = d[ReadKey].time
      BY DEF TimeOf
    <2>3. CASE /\ data'[n] = d
               /\ i.cmd = "SET" => d[ReadKey] # Nil /\ i.time < d[ReadKey].time
               /\ i.cmd = "DEL" => d[ReadKey] = Nil
      BY <1>1, <1>3, <1>5, <2>1, <2>2, <2>3
    <2>4. CASE /\ data'[n][ReadKey] = ValueOf(i)
               /\ i.cmd = "SET" => ~(d[ReadKey] # Nil /\ i.time < d[ReadKey].time)
      <3>1. d[ReadKey] = Nil => TimeOf(d[ReadKey]) = 0
        BY DEF TimeOf
      <3> QED  BY <1>5, <1>6, <2>1, <2>2, <2>4, <3>1
    <2> QED  BY <1>7, <2>3, <2>4
  <1>9. \A m \in Node : HeldTime(m)' = TimeOf(data'[m][ReadKey])
    BY DEF HeldTime, TimeOf
  <1>10. NobodyBack
    <2> SUFFICES ASSUME NEW m \in Node
                 PROVE  HeldTime(m)' >= HeldTime(m)
      BY DEF NobodyBack
    <2>1. CASE m = n
      BY <1>3, <1>8, <1>9, <2>1 DEF HeldTime
    <2>2. CASE m # n
      <3>1. HeldTime(m)' = HeldTime(m)
        BY <1>2, <1>9, <2>2 DEF HeldTime
      <3> QED  BY <1>1, <3>1, HeldFacts
    <2> QED  BY <2>1, <2>2
  <1>11. \A m \in Node \ {n} : TimeOf(data'[m][ReadKey]) \in Nat
    BY <1>1, <1>2, HeldFacts DEF HeldTime
  <1> QED  BY <1>1, <1>2, <1>3, <1>8, <1>9, <1>10, <1>11
-----------------------------------------------------------------------------
\* A read at a quorum or at ALL hears one of the replicas it cannot miss
LEMMA QuorumMeets ==
    ASSUME TypeOK, NEW r \in Reads, NEW G \in SUBSET Answered(r), consistencySatisfied(r, G),
           NEW dc \in {DcOf[n] : n \in Contacted(read[r].level)},
           NEW S \in SUBSET ReplicasIn(dc), Enough(read[r].level, dc, S)
    PROVE  \E n \in S : n \in Good(r, G)
  <1>1. PICK level : level = read[r].level
    OBVIOUS
  <1>2. PICK R : R = ReplicasIn(dc)
    OBVIOUS
  <1>3. PICK A : A = Good(r, G) \cap R
    OBVIOUS
  <1>4. IsFiniteSet(R) /\ IsFiniteSet(A) /\ IsFiniteSet(S) /\ A \subseteq R /\ S \subseteq R
    <2>1. R \subseteq Node
      BY <1>2 DEF ReplicasIn
    <2>2. IsFiniteSet(R)
      BY <2>1, FS_Subset, ReplicaAssumption
    <2> QED  BY <1>2, <1>3, <2>2, FS_Subset
  <1>5. Cardinality(R) \in Nat /\ Cardinality(A) \in Nat /\ Cardinality(S) \in Nat
    BY <1>4, FS_CardinalityType
  <1>6. dc \in {DcOf[n] : n \in Node} /\ ~(dc # LocalDc /\ readLocalOnly(level))
    BY <1>1 DEF Contacted, ReplicasIn
  <1>7. Cardinality(A) >= numRequiredResponses(level, dc)
    BY <1>1, <1>2, <1>3, <1>6 DEF consistencySatisfied
  <1> SUFFICES ASSUME A \cap S = {}
               PROVE  FALSE
    BY <1>3, <1>4
  <1>8. Cardinality(A \cup S) = Cardinality(A) + Cardinality(S)
    <2>1. Cardinality(A \cap S) = 0
      BY FS_EmptySet
    <2>2. Cardinality(A \cup S) = Cardinality(A) + Cardinality(S) - Cardinality(A \cap S)
      BY <1>4, FS_Union
    <2> QED  BY <1>5, <2>1, <2>2
  <1>9. Cardinality(A \cup S) <= Cardinality(R)
    BY <1>4, FS_Subset
  <1>10. CASE level \in {"QUORUM", "QUORUM_LOCAL"}
    <2>1. numRequiredResponses(level, dc) = (Cardinality(R) \div 2) + 1
      BY <1>2, <1>6, <1>10 DEF numRequiredResponses
    <2>2. 2 * Cardinality(S) > Cardinality(R)
      BY <1>1, <1>2, <1>10 DEF Enough
    <2>3. PICK a, s, t \in Nat : a = Cardinality(A) /\ s = Cardinality(S) /\ t = Cardinality(R)
      BY <1>5
    <2>4. a >= (t \div 2) + 1 /\ 2 * s > t /\ a + s <= t
      BY <1>7, <1>8, <1>9, <2>1, <2>2, <2>3
    <2> QED  BY <2>4
  <1>11. CASE level \notin {"QUORUM", "QUORUM_LOCAL"}
    <2>1. S # {} /\ level \in {"ALL", "ALL_LOCAL"}
      BY <1>1, <1>11 DEF Enough
    <2>2. numRequiredResponses(level, dc) = Cardinality(R)
      BY <1>2, <1>6, <2>1 DEF numRequiredResponses
    <2>3. Cardinality(S) # 0
      BY <1>4, <2>1, FS_EmptySet
    <2> QED  BY <1>5, <1>7, <1>8, <1>9, <2>2, <2>3
  <1> QED  BY <1>10, <1>11
-----------------------------------------------------------------------------
(* One lemma for each kind of step. *)

\* Read r has a new state, corrections may be added
LEMMA ReadSteps ==
    ASSUME IInv, TInv', NEW r \in Reads, NEW x \in ReadType, read' = [read EXCEPT ![r] = x],
           UNCHANGED <<data, crashed>>, read[r].repair # "over",
           repairs \subseteq repairs', \A p \in repairs' \ repairs : RepairOK(p)',
           ReadOK(r)', SpreadOK(r)'
    PROVE  IInv' /\ NobodyBack
  <1>1. TypeOK /\ TInv
    BY DEF IInv, TInv
  <1>2. read'[r] = x /\ \A q \in Reads \ {r} : read'[q] = read[q]
    BY <1>1, SetRead
  <1>3. \A n : HeldTime(n)' = HeldTime(n)
    BY DEF HeldTime
  <1>4. ASSUME NEW q \in Reads \ {r}
        PROVE  ReadOK(q)' /\ SpreadOK(q)'
    <2>1. ReadOK(q) /\ SpreadOK(q) /\ read'[q] = read[q]
      BY <1>2, <1>4 DEF IInv
    <2>2. Backed(q) => Backed(q)'
      BY <1>3, <2>1 DEF Backed, Heard
    <2>3. ReadOK(q)'
      BY <1>3, <2>1, <2>2 DEF ReadOK, Heard
    <2>4. SpreadOK(q)'
      BY <1>3, <2>1 DEF SpreadOK
    <2> QED  BY <2>3, <2>4
  <1>5. ASSUME NEW p \in repairs
        PROVE  RepairOK(p)'
    <2>1. p.read \in Reads /\ p.to \in Node /\ RepairOK(p)
      BY <1>1, <1>5 DEF IInv, TypeOK
    <2>2. read'[p.read] = read[p.read]
      BY <1>2, <2>1 DEF RepairOK
    <2> QED  BY <1>3, <2>1, <2>2 DEF RepairOK
  <1>6. \A n \in Node : Written(data'[n][ReadKey])
    BY DEF IInv
  <1>7. NobodyBack
    BY <1>1, <1>3, HeldFacts DEF NobodyBack
  <1> QED  BY <1>4, <1>5, <1>6, <1>7 DEF IInv

\* Replicas move on, corrections may have arrived
LEMMA DataMoves ==
    ASSUME IInv, TInv', UNCHANGED <<read, crashed>>, repairs' \subseteq repairs, NobodyBack,
           \A n \in Node : Written(data'[n][ReadKey]),
           \A r \in Reads : SpreadOK(r)'
    PROVE  IInv'
  <1>1. TypeOK /\ TypeOK'
    BY DEF IInv, TInv
  <1>2. \A n \in Node : HeldTime(n) \in Int /\ HeldTime(n)' \in Int /\ HeldTime(n)' >= HeldTime(n)
    <2>1. \A n \in Node : HeldTime(n) \in 0..MaxTime
      BY <1>1, HeldFacts
    <2>2. \A n \in Node : HeldTime(n)' \in 0..MaxTime
      <3> TAKE n \in Node
      <3>1. data'[n][ReadKey] \in Value \cup {Nil}
        BY <1>1, WriteAssumption DEF TypeOK, DataType
      <3>2. HeldTime(n)' = TimeOf(data'[n][ReadKey])
        BY DEF HeldTime, TimeOf
      <3> QED  BY <3>1, <3>2, TimeOfType
    <2> QED  BY <2>1, <2>2 DEF NobodyBack
  <1>3. ASSUME NEW r \in Reads
        PROVE  ReadOK(r)'
    <2>1. ReadOK(r) /\ read[r] \in ReadType
      BY <1>1 DEF IInv, TypeOK
    <2>2. read[r].floor \in Int /\ \A n \in Node : TimeOf(read[r].answers[n].val) \in Int
      <3>1. read[r].floor \in 0..MaxTime /\ \A n \in Node : read[r].answers[n].val \in Value \cup {Nil}
        BY <2>1 DEF ReadType, Answer
      <3> QED  BY <3>1, TimeOfType
    <2>3. Backed(r) => Backed(r)'
      <3> SUFFICES ASSUME Backed(r)
                   PROVE  Backed(r)'
        OBVIOUS
      <3>0. PICK dc \in {DcOf[n] : n \in Contacted(read[r].level)} :
              \E S \in SUBSET ReplicasIn(dc) :
                /\ Enough(read[r].level, dc, S)
                /\ \A n \in S : /\ HeldTime(n) >= read[r].floor
                                /\ Heard(r, n) => TimeOf(read[r].answers[n].val) >= read[r].floor
        BY DEF Backed
      <3>1. PICK S \in SUBSET ReplicasIn(dc) :
              /\ Enough(read[r].level, dc, S)
              /\ \A n \in S : /\ HeldTime(n) >= read[r].floor
                              /\ Heard(r, n) => TimeOf(read[r].answers[n].val) >= read[r].floor
        BY <3>0
      <3>2. \A n \in S : n \in Node /\ HeldTime(n)' >= read[r].floor
        BY <1>2, <2>2, <3>1 DEF ReplicasIn
      <3> QED  BY <3>1, <3>2 DEF Backed, Heard
    <2>4. \A n \in Node : Heard(r, n) => HeldTime(n)' >= TimeOf(read[r].answers[n].val)
      BY <1>2, <2>1, <2>2 DEF ReadOK
    <2> QED  BY <2>1, <2>3, <2>4 DEF ReadOK, Heard
  <1>4. ASSUME NEW p \in repairs'
        PROVE  RepairOK(p)'
    <2>1. p.to \in Node /\ RepairOK(p)
      BY <1>1 DEF IInv, TypeOK
    <2>2. HeldTime(p.to)' >= 1
      BY <1>2, <2>1 DEF RepairOK
    <2> QED  BY <2>1, <2>2 DEF RepairOK
  <1> QED  BY <1>3, <1>4 DEF IInv

LEMMA ApplyWriteInv ==
    ASSUME DeletesNewest, IInv, TInv', NEW n \in Node, ApplyWrite(n)
    PROVE  IInv' /\ NobodyBack
  <1>1. TypeOK
    BY DEF IInv, TInv
  <1>2. PICK i : Correction(i) /\ Executes(n, i) /\ Written(ValueOf(i))
    BY <1>1, ApplyWriteShape, WritesAreCorrections DEF Written
  <1>3. NobodyBack /\ \A m \in Node : Written(data'[m][ReadKey]) /\ HeldTime(m)' \in Nat
    BY <1>2, ExecutesForward
  <1>4. UNCHANGED <<read, repairs, crashed>>
    BY <1>1, ApplyWriteShape
  <1>5. ASSUME NEW r \in Reads
        PROVE  SpreadOK(r)'
    <2>1. SpreadOK(r) /\ read[r] \in ReadType
      BY <1>1 DEF IInv, TypeOK
    <2>2. read[r].high \in Int /\ read[r].covered \subseteq Node
      BY <2>1 DEF ReadType
    <2>3. \A m \in Node : HeldTime(m) \in Int /\ HeldTime(m)' >= HeldTime(m)
      BY <1>1, <1>3, HeldFacts DEF NobodyBack
    <2> QED  BY <1>3, <1>4, <2>1, <2>2, <2>3 DEF SpreadOK
  <1> QED  BY <1>3, <1>4, <1>5, DataMoves

LEMMA ApplyRepairInv ==
    ASSUME DeletesNewest, IInv, TInv', NEW p \in repairs, ApplyRepair(p)
    PROVE  IInv' /\ NobodyBack
  <1>1. TypeOK /\ p.to \in Node /\ Correction(p.inst) /\ RepairOK(p) /\ p.read \in Reads
    BY DEF IInv, TInv, TypeOK, CorrectionsValid
  <1>2. repairs' = repairs \ {p} /\ UNCHANGED <<read, crashed>>
    BY DEF ApplyRepair
  <1>3. \A m \in Node : HeldTime(m) \in Nat
    BY <1>1, HeldFacts
  <1>4. /\ NobodyBack
        /\ \A m \in Node : Written(data'[m][ReadKey]) /\ HeldTime(m)' \in Nat
        /\ p.to \in MayFail \/ HeldTime(p.to)' >= p.inst.time
    <2>1. CASE Executes(p.to, p.inst)
      <3>1. data[p.to][ReadKey] # Nil
        BY <1>1, HeldFacts DEF RepairOK
      <3>2. Written(ValueOf(p.inst))
        BY <1>1 DEF RepairOK
      <3> QED  BY <1>1, <2>1, <3>1, <3>2, ExecutesForward
    <2>2. CASE p.to \in MayFail /\ UNCHANGED data
      <3>1. \A m \in Node : HeldTime(m)' = HeldTime(m) /\ Written(data[m][ReadKey])
        BY <2>2 DEF HeldTime, IInv
      <3> QED  BY <1>3, <2>2, <3>1 DEF NobodyBack
    <2> QED  BY <2>1, <2>2 DEF ApplyRepair, Executes
  <1>5. ASSUME NEW r \in Reads
        PROVE  SpreadOK(r)'
    <2> SUFFICES ASSUME ~crashed, NEW n \in read[r].covered \ MayFail
                 PROVE  HeldTime(n)' >= read[r].high \/ \E q \in repairs' : q.read = r /\ q.to = n
      BY <1>2 DEF SpreadOK
    <2>1. SpreadOK(r) /\ read[r] \in ReadType
      BY <1>1 DEF IInv, TypeOK
    <2>2. read[r].high \in Int /\ n \in Node
      BY <2>1 DEF ReadType
    <2>3. CASE HeldTime(n) >= read[r].high
      BY <1>3, <1>4, <2>2, <2>3 DEF NobodyBack
    <2>4. CASE p.read = r /\ p.to = n
      BY <1>1, <1>4, <2>4 DEF RepairOK
    <2> QED  BY <1>2, <2>1, <2>3, <2>4 DEF SpreadOK
  <1>6. repairs' \subseteq repairs
    BY <1>2
  <1> QED  BY <1>2, <1>4, <1>5, <1>6, DataMoves

LEMMA ReadFacts ==
    ASSUME IInv, NEW r \in Reads
    PROVE  /\ TypeOK /\ read[r] \in ReadType /\ ReadOK(r) /\ SpreadOK(r)
           /\ read[r].floor \in Int /\ read[r].high \in Int /\ read[r].covered \subseteq Node
           /\ \A n \in Node : TimeOf(read[r].answers[n].val) \in Int
           /\ \A n \in Node : HeldTime(n) \in Nat
  <1>1. TypeOK /\ read[r] \in ReadType /\ ReadOK(r) /\ SpreadOK(r)
    BY DEF IInv, TInv, TypeOK
  <1>2. read[r].floor \in 0..MaxTime /\ read[r].high \in 0..MaxTime
        /\ \A n \in Node : read[r].answers[n].val \in Value \cup {Nil}
    BY <1>1 DEF ReadType, Answer
  <1>3. read[r].covered \subseteq Node
    BY <1>1 DEF ReadType
  <1>4. \A n \in Node : HeldTime(n) \in Nat
    BY <1>1, HeldFacts
  <1> QED  BY <1>1, <1>2, <1>3, <1>4, TimeOfType

\* The part of a read that its corrections rest on stays as it is
LEMMA SpreadStays ==
    ASSUME NEW r \in Reads, SpreadOK(r), read'[r].covered = read[r].covered,
           read'[r].high = read[r].high, UNCHANGED <<data, crashed>>, repairs \subseteq repairs'
    PROVE  SpreadOK(r)'
  BY DEF SpreadOK, HeldTime

LEMMA StartReadInv ==
    ASSUME IInv, TInv', NEW r \in Reads, StartRead(r)
    PROVE  IInv' /\ NobodyBack
  <1>1. TypeOK /\ read[r] \in ReadType /\ ReadOK(r) /\ SpreadOK(r)
    BY ReadFacts
  <1>2. PICK x \in ReadType :
          /\ StartsAs(r, x) /\ read' = [read EXCEPT ![r] = x] /\ read[r].pc = "idle"
          /\ UNCHANGED <<data, applied, repairs, crashed>>
    BY <1>1, StartReadShape
  <1>3. read'[r] = x
    BY <1>1, <1>2, SetRead
  <1>4. /\ x.pc \in {"error", "waiting"} /\ x.answers = read[r].answers /\ x.repair = read[r].repair
        /\ x.val = read[r].val /\ x.covered = read[r].covered /\ x.high = read[r].high
        /\ x.level = read[r].level
        /\ x.pc = "waiting" => x.floor = Guaranteed(read[r].level)
    BY <1>1, <1>2 DEF StartsAs, ReadType
  <1>5. read[r].repair = "none" /\ \A n \in Node : ~Heard(r, n)
    BY <1>1, <1>2 DEF ReadOK
  <1>6. \A n \in Node : ~Heard(r, n)'
    BY <1>3, <1>4, <1>5 DEF Heard
  <1>7. x.pc = "waiting" /\ x.floor # 0 => Backed(r)'
    <2> SUFFICES ASSUME x.pc = "waiting", x.floor # 0
                 PROVE  Backed(r)'
      OBVIOUS
    <2>1. PICK dc \in {DcOf[n] : n \in Contacted(x.level)} :
              Enough(x.level, dc, {n \in ReplicasIn(dc) : HeldTime(n) >= x.floor})
      <3>1. x.level = read[r].level /\ x.floor = Guaranteed(x.level)
        BY <1>4
      <3>2. PICK l : l = x.level
        OBVIOUS
      <3>3. Guaranteed(l) # 0 => \E dc \in {DcOf[n] : n \in Contacted(l)} :
                Enough(l, dc, {n \in ReplicasIn(dc) : HeldTime(n) >= Guaranteed(l)})
        BY GuaranteedIs
      <3> QED  BY <3>1, <3>2, <3>3
    <2>2. PICK S \in SUBSET ReplicasIn(dc) : S = {n \in ReplicasIn(dc) : HeldTime(n) >= x.floor}
      OBVIOUS
    <2>3. \A n \in S : HeldTime(n)' >= x.floor /\ ~Heard(r, n)'
      BY <1>2, <1>6, <2>2 DEF HeldTime, ReplicasIn
    <2> QED  BY <1>3, <2>1, <2>2, <2>3 DEF Backed
  <1>8. ReadOK(r)'
    <2>1. \A n \in Node : Written(read[r].answers[n].val)
      BY <1>1 DEF ReadOK
    <2> QED  BY <1>3, <1>4, <1>5, <1>6, <1>7, <2>1 DEF ReadOK
  <1>9. SpreadOK(r)'
    BY <1>1, <1>2, <1>3, <1>4, SpreadStays
  <1> QED  BY <1>2, <1>5, <1>8, <1>9, ReadSteps

LEMMA AnswerQueryInv ==
    ASSUME IInv, TInv', NEW r \in Reads, NEW n \in Node, AnswerQuery(r, n)
    PROVE  IInv' /\ NobodyBack
  <1>1. /\ TypeOK /\ read[r] \in ReadType /\ ReadOK(r) /\ SpreadOK(r) /\ read[r].floor \in Int
        /\ Written(data[n][ReadKey]) /\ HeldTime(n) \in Nat
    BY ReadFacts DEF IInv
  <1>2. PICK a \in Answer :
          /\ a.answered
          /\ a.err \/ a.val = data[n][ReadKey]
          /\ a.val \in {data[n][ReadKey], Nil}
          /\ [read[r] EXCEPT !.answers[n] = a] \in ReadType
          /\ read' = [read EXCEPT ![r] = [read[r] EXCEPT !.answers[n] = a]]
          /\ read[r].pc = "waiting" \/ read[r].repair = "collect"
          /\ UNCHANGED <<data, applied, repairs, crashed>>
    BY <1>1, AnswerQueryShape
  <1>3. PICK x \in ReadType : x = [read[r] EXCEPT !.answers[n] = a]
    BY <1>2
  <1>4. read'[r] = x
    BY <1>1, <1>2, <1>3, SetRead
  <1>5. /\ x.pc = read[r].pc /\ x.repair = read[r].repair /\ x.level = read[r].level
        /\ x.val = read[r].val /\ x.covered = read[r].covered /\ x.high = read[r].high
        /\ x.floor = read[r].floor /\ x.answers[n] = a
        /\ \A m \in Node \ {n} : x.answers[m] = read[r].answers[m]
    BY <1>1, <1>3 DEF ReadType
  <1>6. Written(a.val) /\ (~a.err => TimeOf(a.val) = HeldTime(n))
    BY <1>1, <1>2 DEF Written, HeldTime
  <1>7. \A m : HeldTime(m)' = HeldTime(m)
    BY <1>2 DEF HeldTime
  <1>8. \A m \in Node : Heard(r, m)' <=> (x.answers[m].answered /\ ~x.answers[m].err)
    BY <1>4 DEF Heard
  <1>9. Backed(r) => Backed(r)'
    <2> SUFFICES ASSUME Backed(r)
                 PROVE  Backed(r)'
      OBVIOUS
    <2>1. PICK dc \in {DcOf[m] : m \in Contacted(read[r].level)} :
            \E S \in SUBSET ReplicasIn(dc) :
              /\ Enough(read[r].level, dc, S)
              /\ \A m \in S : /\ HeldTime(m) >= read[r].floor
                              /\ Heard(r, m) => TimeOf(read[r].answers[m].val) >= read[r].floor
      BY DEF Backed
    <2>2. PICK S \in SUBSET ReplicasIn(dc) :
            /\ Enough(read[r].level, dc, S)
            /\ \A m \in S : /\ HeldTime(m) >= read[r].floor
                            /\ Heard(r, m) => TimeOf(read[r].answers[m].val) >= read[r].floor
      BY <2>1
    <2>3. ASSUME NEW m \in S
          PROVE  /\ HeldTime(m)' >= x.floor
                 /\ Heard(r, m)' => TimeOf(x.answers[m].val) >= x.floor
      <3>1. m \in Node
        BY DEF ReplicasIn
      <3>2. CASE m = n
        BY <1>5, <1>6, <1>7, <1>8, <2>2, <3>1, <3>2
      <3>3. CASE m # n
        BY <1>5, <1>7, <1>8, <2>2, <3>1, <3>3 DEF Heard
      <3> QED  BY <3>2, <3>3
    <2> QED  BY <1>4, <1>5, <2>2, <2>3 DEF Backed
  <1>10. ASSUME NEW m \in Node
         PROVE  /\ Written(x.answers[m].val)
                /\ Heard(r, m)' => HeldTime(m)' >= TimeOf(x.answers[m].val)
    <2>1. CASE m = n
      BY <1>1, <1>5, <1>6, <1>7, <1>8, <2>1
    <2>2. CASE m # n
      <3>1. Written(read[r].answers[m].val)
            /\ (Heard(r, m) => HeldTime(m) >= TimeOf(read[r].answers[m].val))
        BY <1>1 DEF ReadOK
      <3> QED  BY <1>5, <1>7, <1>8, <2>2, <3>1 DEF Heard
    <2> QED  BY <2>1, <2>2
  <1>11. read[r].pc # "idle" /\ read[r].repair # "over"
    BY <1>1, <1>2 DEF ReadOK
  <1>12. ReadOK(r)'
    BY <1>1, <1>4, <1>5, <1>9, <1>10, <1>11 DEF ReadOK
  <1>13. SpreadOK(r)'
    BY <1>1, <1>2, <1>4, <1>5, SpreadStays
  <1> QED  BY <1>2, <1>3, <1>11, <1>12, <1>13, ReadSteps

LEMMA GivesUpInv ==
    ASSUME IInv, TInv', NEW r \in Reads, TooManyErrors(r) \/ ReadTimeout(r)
    PROVE  IInv' /\ NobodyBack
  <1>1. TypeOK /\ read[r] \in ReadType /\ ReadOK(r) /\ SpreadOK(r)
    BY ReadFacts
  <1>2. PICK p \in {"error", "timeout"} :
          /\ read' = [read EXCEPT ![r] = Emptied(read[r], p)] /\ read[r].pc = "waiting"
          /\ UNCHANGED <<data, applied, repairs, crashed>>
    BY <1>1, GivesUpShape DEF TooManyErrors, ReadTimeout
  <1>3. PICK x \in ReadType :
          /\ x = Emptied(read[r], p) /\ x.pc = p /\ x.answers = [n \in Node |-> NoAnswer]
          /\ x.repair = read[r].repair /\ x.covered = read[r].covered /\ x.high = read[r].high
    BY <1>1, EmptiedType
  <1>4. read'[r] = x
    BY <1>1, <1>2, <1>3, SetRead
  <1>5. read[r].repair = "none"
    BY <1>1, <1>2 DEF ReadOK, ReadType
  <1>6. \A n \in Node : Written(x.answers[n].val) /\ ~Heard(r, n)'
    BY <1>3, <1>4 DEF NoAnswer, Written, Heard
  <1>7. ReadOK(r)'
    BY <1>3, <1>4, <1>5, <1>6 DEF ReadOK
  <1>8. SpreadOK(r)'
    BY <1>1, <1>2, <1>3, <1>4, SpreadStays
  <1> QED  BY <1>2, <1>3, <1>5, <1>7, <1>8, ReadSteps

LEMMA CrashInv ==
    ASSUME IInv, TInv', Crash
    PROVE  IInv' /\ NobodyBack
  <1>1. TypeOK
    BY DEF IInv, TInv
  <1>2. /\ \A r \in Reads : read'[r] = Emptied(read[r], read[r].pc)
        /\ crashed' /\ repairs' = {} /\ UNCHANGED <<data, applied>>
    BY <1>1, CrashShape
  <1>3. \A n : HeldTime(n)' = HeldTime(n)
    BY <1>2 DEF HeldTime
  <1>4. ASSUME NEW r \in Reads
        PROVE  ReadOK(r)'
    <2>1. read[r] \in ReadType /\ ReadOK(r)
      BY ReadFacts
    <2>2. PICK x \in ReadType :
            /\ x = Emptied(read[r], read[r].pc) /\ x.pc = read[r].pc
            /\ x.answers = [n \in Node |-> NoAnswer] /\ x.repair = read[r].repair
            /\ x.floor = read[r].floor /\ x.level = read[r].level /\ x.val = read[r].val
      <3>1. read[r].pc \in {"idle", "waiting", "repairing", "done", "error", "timeout"}
        BY <2>1 DEF ReadType
      <3> QED  BY <2>1, <3>1, EmptiedType
    <2>3. read'[r] = x
      BY <1>2, <2>2
    <2>4. \A n \in Node : Written(x.answers[n].val) /\ ~Heard(r, n)'
      BY <2>2, <2>3 DEF NoAnswer, Written, Heard
    <2>5. Backed(r) => Backed(r)'
      <3>1. \A dc : \A S \in SUBSET ReplicasIn(dc) : \A n \in S : ~Heard(r, n)'
        BY <2>4 DEF ReplicasIn
      <3> QED  BY <1>3, <2>2, <2>3, <3>1 DEF Backed
    <2> QED  BY <2>1, <2>2, <2>3, <2>4, <2>5 DEF ReadOK
  <1>5. \A r \in Reads : SpreadOK(r)'
    BY <1>2 DEF SpreadOK
  <1>6. \A n \in Node : Written(data'[n][ReadKey])
    BY <1>2 DEF IInv
  <1>7. NobodyBack
    BY <1>1, <1>3, HeldFacts DEF NobodyBack
  <1> QED  BY <1>2, <1>4, <1>5, <1>6, <1>7 DEF IInv

\* The client gets the newest of the values, hence one of those it cannot miss
LEMMA NewestReached ==
    ASSUME IInv, NEW r \in Reads, read[r].pc = "waiting", NEW G \in Sufficient(r),
           NEW h \in Node, h \in Good(r, G), ~ReconcilePanics(Values(r, Good(r, G))),
           Cardinality(Good(r, G)) = 1 \/ h \in HighNodes(Values(r, Good(r, G)))
    PROVE  TimeOf(read[r].answers[h].val) >= read[r].floor
  <1>1. /\ TypeOK /\ read[r] \in ReadType /\ ReadOK(r) /\ read[r].floor \in Int
        /\ \A n \in Node : TimeOf(read[r].answers[n].val) \in Int
    BY ReadFacts
  <1>2. G \in SUBSET Answered(r) /\ consistencySatisfied(r, G)
    BY DEF Sufficient
  <1>3. PICK A : A = Good(r, G)
    OBVIOUS
  <1>4. PICK f : f = Values(r, A)
    OBVIOUS
  <1>5. /\ A \subseteq Node /\ IsFiniteSet(A) /\ DOMAIN f = A
        /\ \A n \in A : /\ read[r].answers[n].answered /\ ~read[r].answers[n].err
                        /\ f[n] = read[r].answers[n].val /\ f[n] \in Value \cup {Nil}
    BY <1>1, <1>2, <1>3, <1>4, ValuesType
  <1>6. CASE read[r].floor = 0
    <2>1. TimeOf(f[h]) \in 0..MaxTime
      BY <1>3, <1>5, TimeOfType
    <2> QED  BY <1>3, <1>5, <1>6, <2>1
  <1>7. CASE read[r].floor # 0
    <2>1. Backed(r)
      BY <1>1, <1>7 DEF ReadOK
    <2>2. PICK dc \in {DcOf[m] : m \in Contacted(read[r].level)} :
            \E S \in SUBSET ReplicasIn(dc) :
              /\ Enough(read[r].level, dc, S)
              /\ \A m \in S : Heard(r, m) => TimeOf(read[r].answers[m].val) >= read[r].floor
      BY <2>1 DEF Backed
    <2>3. PICK S \in SUBSET ReplicasIn(dc) :
            /\ Enough(read[r].level, dc, S)
            /\ \A m \in S : Heard(r, m) => TimeOf(read[r].answers[m].val) >= read[r].floor
      BY <2>2
    <2>4. PICK n \in S : n \in A
      BY <1>1, <1>2, <1>3, <2>3, QuorumMeets
    <2>5. TimeOf(f[n]) >= read[r].floor
      BY <1>5, <2>3, <2>4 DEF Heard
    <2>6. CASE n = h
      BY <1>3, <1>5, <2>5, <2>6
    <2>7. CASE n # h
      <3>1. f[n] # Nil /\ f[h] # Nil
        BY <1>3, <1>4, <1>5, <2>4, <2>7 DEF ReconcilePanics
      <3>2. Cardinality(A) # 1
        <4> SUFFICES ASSUME Cardinality(A) = 1
                     PROVE  FALSE
          OBVIOUS
        <4>1. PICK y : A = {y}
          BY <1>5, FS_Singleton
        <4> QED  BY <1>3, <2>4, <2>7, <4>1
      <3>3. f[n].time <= f[h].time
        BY <1>3, <1>4, <1>5, <2>4, <3>2 DEF HighNodes
      <3>4. TimeOf(f[n]) = f[n].time /\ TimeOf(f[h]) = f[h].time
        BY <3>1 DEF TimeOf
      <3>5. TimeOf(f[n]) \in Int /\ TimeOf(f[h]) \in Int
        BY <1>1, <1>3, <1>5, <2>4
      <3> QED  BY <1>1, <1>3, <1>5, <2>5, <3>3, <3>4, <3>5
    <2> QED  BY <2>6, <2>7
  <1> QED  BY <1>6, <1>7

LEMMA FinishReadInv ==
    ASSUME IInv, TInv', NEW r \in Reads, FinishRead(r)
    PROVE  IInv' /\ NobodyBack
  <1>1. CASE Crash
    BY <1>1, CrashInv
  <1>2. CASE ~Crash
    <2>1. TypeOK /\ read[r] \in ReadType /\ ReadOK(r) /\ SpreadOK(r)
      BY ReadFacts
    <2>2. PICK G \in Sufficient(r), h \in Node, x \in ReadType, p \in {"repairing", "done"} :
            LET v == read[r].answers[h].val
                S == Good(r, G)
            IN  /\ h \in S /\ ~ReconcilePanics(Values(r, S))
                /\ Cardinality(S) = 1 \/ h \in HighNodes(Values(r, S))
                /\ read' = [read EXCEPT ![r] = x]
                /\ x = [read[r] EXCEPT !.val = v, !.repair = "collect", !.pc = p]
                /\ read[r].pc = "waiting"
                /\ UNCHANGED <<data, applied, repairs, crashed>>
      BY <1>2, <2>1, FinishReadShape
    <2>3. TimeOf(read[r].answers[h].val) >= read[r].floor
      BY <2>2, NewestReached
    <2>4. PICK v : v = read[r].answers[h].val
      OBVIOUS
    <2>5. x = [read[r] EXCEPT !.val = v, !.repair = "collect", !.pc = p]
      BY <2>2, <2>4
    <2>6. /\ x.pc = p /\ x.val = v /\ x.answers = read[r].answers /\ x.floor = read[r].floor
          /\ x.covered = read[r].covered /\ x.high = read[r].high
      BY <2>1, <2>5 DEF ReadType
    <2>7. read'[r] = x
      BY <2>1, <2>2, SetRead
    <2>8. \A n \in Node : /\ Heard(r, n)' <=> Heard(r, n)
                          /\ HeldTime(n)' = HeldTime(n)
      BY <2>2, <2>6, <2>7 DEF Heard, HeldTime
    <2>9. ReadOK(r)'
      BY <2>1, <2>3, <2>4, <2>6, <2>7, <2>8 DEF ReadOK
    <2>10. SpreadOK(r)'
      BY <2>1, <2>2, <2>6, <2>7, SpreadStays
    <2>11. read[r].repair # "over"
      BY <2>1, <2>2 DEF ReadOK
    <2> QED  BY <2>2, <2>9, <2>10, <2>11, ReadSteps
  <1> QED  BY <1>1, <1>2

LEMMA ReconcileReadInv ==
    ASSUME IInv, TInv', NEW r \in Reads, ReconcileRead(r)
    PROVE  IInv' /\ NobodyBack
  <1>1. /\ TypeOK /\ read[r] \in ReadType /\ ReadOK(r) /\ SpreadOK(r)
        /\ read[r].repair = "collect" /\ UNCHANGED <<data, applied>>
        /\ read[r].pc \in {"repairing", "done"}
    BY ReadFacts, ReconcileReadShape DEF ReadOK
  <1>2. PICK o \in ReadType :
          /\ o = Over(r) /\ o.pc = "done" /\ o.repair = "over"
          /\ o.answers = [n \in Node |-> NoAnswer] /\ o.val = read[r].val /\ o.floor = read[r].floor
          /\ o.covered = read[r].covered /\ o.high = read[r].high
    BY <1>1, OverType
  <1>3. TimeOf(o.val) >= o.floor
    BY <1>1, <1>2 DEF ReadOK
  <1>4. \A n : HeldTime(n)' = HeldTime(n)
    BY <1>1 DEF HeldTime
  <1>5. CASE Crash
    BY <1>5, CrashInv
  <1>6. CASE read' = [read EXCEPT ![r] = Over(r)] /\ UNCHANGED <<repairs, crashed>>
    <2>1. read'[r] = o
      BY <1>1, <1>2, <1>6, SetRead
    <2>2. \A n \in Node : Written(o.answers[n].val) /\ ~Heard(r, n)'
      BY <1>2, <2>1 DEF NoAnswer, Written, Heard
    <2>3. ReadOK(r)'
      BY <1>2, <1>3, <2>1, <2>2 DEF ReadOK
    <2>4. SpreadOK(r)'
      BY <1>1, <1>2, <1>6, <2>1, SpreadStays
    <2> QED  BY <1>1, <1>2, <1>6, <2>3, <2>4, ReadSteps
  <1>7. ASSUME NEW G \in SUBSET Answered(r), NEW x \in ReadType, NEW f, NEW h, NEW I,
               Corrects(r, G, f, h, I, x), read' = [read EXCEPT ![r] = x], UNCHANGED crashed
        PROVE  IInv' /\ NobodyBack
    <2>1. /\ h \in DOMAIN f /\ f[h] \in Value
          /\ DOMAIN I \subseteq DOMAIN f
          /\ \A n \in DOMAIN I : ValueOf(I[n]) = f[h] /\ I[n].time = f[h].time
          /\ \A n \in DOMAIN f \ DOMAIN I : f[n].time = f[h].time
      BY <1>7, ReconcileIs DEF Corrects
    <2>2. /\ DOMAIN f \subseteq Node /\ repairs' = repairs \cup CorrectionsOf(r, I)
          /\ \A n \in DOMAIN f : /\ f[n] \in Value /\ f[n] = read[r].answers[n].val
                                 /\ Heard(r, n)
      BY <1>7 DEF Corrects, Heard
    <2>3. \A n \in DOMAIN f : HeldTime(n) >= f[n].time /\ Written(f[n]) /\ f[n].time \in Time
      BY <1>1, <2>2, ValueFacts DEF ReadOK
    <2>4. /\ x.pc = "done" /\ x.repair = "over" /\ x.answers = o.answers /\ x.val = o.val
          /\ x.floor = o.floor /\ x.covered = DOMAIN f /\ x.high = f[h].time
      <3>1. x = [o EXCEPT !.covered = DOMAIN f, !.high = f[h].time]
        BY <1>2, <1>7 DEF Corrects
      <3> QED  BY <1>2, <3>1 DEF ReadType
    <2>5. read'[r] = x
      BY <1>1, <1>7, SetRead
    <2>6. \A n \in Node : Written(x.answers[n].val) /\ ~Heard(r, n)'
      BY <1>2, <2>4, <2>5 DEF NoAnswer, Written, Heard
    <2>7. ReadOK(r)'
      BY <1>3, <2>4, <2>5, <2>6 DEF ReadOK
    <2>8. SpreadOK(r)'
      <3> SUFFICES ASSUME NEW n \in DOMAIN f
                   PROVE  \/ HeldTime(n)' >= f[h].time
                          \/ \E p \in repairs' : p.read = r /\ p.to = n
        BY <2>4, <2>5 DEF SpreadOK
      <3>1. CASE n \in DOMAIN I
        <4>1. PICK p : p = [read |-> r, to |-> n, inst |-> I[n]]
          OBVIOUS
        <4> QED  BY <2>2, <3>1, <4>1 DEF CorrectionsOf
      <3>2. CASE n \notin DOMAIN I
        BY <1>4, <2>1, <2>3, <3>2
      <3> QED  BY <3>1, <3>2
    <2>9. ASSUME NEW p \in repairs' \ repairs
          PROVE  RepairOK(p)'
      <3>1. PICK n \in DOMAIN I : p.read = r /\ p.to = n /\ p.inst = I[n]
        BY <2>2 DEF CorrectionsOf
      <3>2. Written(ValueOf(p.inst)) /\ p.inst.time = f[h].time
        BY <2>1, <2>3, <3>1
      <3>3. HeldTime(n)' >= 1
        <4>1. n \in Node /\ n \in DOMAIN f
          BY <2>1, <2>2, <3>1
        <4>2. HeldTime(n) \in Nat /\ HeldTime(n) >= f[n].time /\ f[n].time \in Time
          BY <2>3, <4>1, ReadFacts
        <4> QED  BY <1>4, <4>2, StoreAssumption DEF Time
      <3>4. p.to = n /\ p.read = r
        BY <3>1
      <3> QED  BY <2>4, <2>5, <3>2, <3>3, <3>4 DEF RepairOK
    <2> QED  BY <1>1, <1>7, <2>2, <2>7, <2>8, <2>9, ReadSteps
  <1> QED  BY <1>1, <1>5, <1>6, <1>7, ReconcileReadShape

LEMMA InitInv == Init => IInv
  <1> SUFFICES ASSUME Init
               PROVE  IInv
    OBVIOUS
  <1>1. TInv /\ repairs = {}
    BY InitTInv DEF Init
  <1>2. \A n \in Node : data[n][ReadKey] = Nil
    BY WriteAssumption DEF Init, NewKVStore
  <1>3. \A r \in Reads : /\ read[r].pc = "idle" /\ read[r].repair = "none" /\ read[r].covered = {}
                         /\ read[r].answers = [n \in Node |-> NoAnswer]
    BY DEF Init
  <1>4. ASSUME NEW r \in Reads
        PROVE  ReadOK(r) /\ SpreadOK(r)
    <2>1. \A n \in Node : read[r].answers[n].val = Nil /\ ~Heard(r, n)
      BY <1>3 DEF Heard, NoAnswer
    <2> QED  BY <1>3, <2>1 DEF ReadOK, SpreadOK, Written
  <1> QED  BY <1>1, <1>2, <1>4 DEF IInv, Written

LEMMA NextInv == DeletesNewest /\ IInv /\ [Next]_vars => IInv' /\ [NobodyBack]_vars
  <1> SUFFICES ASSUME DeletesNewest, IInv, [Next]_vars
               PROVE  IInv' /\ (NobodyBack \/ UNCHANGED vars)
    OBVIOUS
  <1>1. TInv'
    BY NextTInv DEF IInv
  <1>2. CASE UNCHANGED vars
    <2>1. \A n : HeldTime(n)' = HeldTime(n)
      BY <1>2 DEF vars, HeldTime
    <2>2. \A r \in Reads : ReadOK(r)'
      <3> TAKE r \in Reads
      <3>1. ReadOK(r) /\ read'[r] = read[r]
        BY <1>2 DEF IInv, vars
      <3>2. Backed(r) => Backed(r)'
        BY <2>1, <3>1 DEF Backed, Heard
      <3> QED  BY <2>1, <3>1, <3>2 DEF ReadOK, Heard
    <2>3. \A r \in Reads : SpreadOK(r)'
      BY <1>2, <2>1 DEF IInv, vars, SpreadOK
    <2>4. \A p \in repairs' : RepairOK(p)'
      BY <1>2, <2>1 DEF IInv, vars, RepairOK
    <2> QED  BY <1>1, <1>2, <2>2, <2>3, <2>4 DEF IInv, vars
  <1>3. ASSUME NEW n \in Node, ApplyWrite(n)
        PROVE  IInv' /\ NobodyBack
    BY <1>1, <1>3, ApplyWriteInv
  <1>4. ASSUME NEW r \in Reads, Advance(r) \/ ReadTimeout(r)
        PROVE  IInv' /\ NobodyBack
    BY <1>1, <1>4, StartReadInv, AnswerQueryInv, GivesUpInv, FinishReadInv, ReconcileReadInv
       DEF Advance
  <1>5. ASSUME NEW p \in repairs, ApplyRepair(p)
        PROVE  IInv' /\ NobodyBack
    BY <1>1, <1>5, ApplyRepairInv
  <1> QED  BY <1>2, <1>3, <1>4, <1>5 DEF Next

(***************************************************************************)
(* With deletes the newest writes, the invariant holds of every execution: *)
(* every value is that of a write, what a replica has answered it still    *)
(* holds or has replaced by something newer, the replicas a read cannot    *)
(* but hear hold its floor, and what a read has found behind has caught up *)
(* or has a correction on its way (ExecuteRead, reconcileRead).            *)
(***************************************************************************)
THEOREM Invariance == DeletesNewest => (Spec => []IInv)
  <1> SUFFICES ASSUME DeletesNewest
               PROVE  Spec => []IInv
    OBVIOUS
  <1>1. IInv /\ [Next]_vars => IInv'
    BY NextInv
  <1> QED  BY InitInv, <1>1, PTL DEF Spec

(***************************************************************************)
(* A read at a quorum or at ALL, of any number of replicas in any number   *)
(* of datacenters, returns nothing older than what enough replicas held as *)
(* it began, provided that no write is newer than a delete (ExecuteRead).  *)
(***************************************************************************)
THEOREM ReadsAreFresh == DeletesNewest => (Spec => []ReadFresh)
  <1> SUFFICES ASSUME DeletesNewest
               PROVE  Spec => []ReadFresh
    OBVIOUS
  <1>1. IInv => ReadFresh
    BY DEF IInv, ReadOK, ReadFresh
  <1>2. Spec => []IInv
    BY Invariance
  <1> QED  BY <1>1, <1>2, PTL

(***************************************************************************)
(* The corrections of a read bring every replica it covered, unless a      *)
(* query of it failed, to the winning value or a newer one, provided that  *)
(* no write is newer than a delete (reconcileRead, Reconcile).             *)
(***************************************************************************)
THEOREM RepairsSpread == DeletesNewest => (Spec => []RepairSpreads)
  <1> SUFFICES ASSUME DeletesNewest
               PROVE  Spec => []RepairSpreads
    OBVIOUS
  <1>1. IInv => RepairSpreads
    BY DEF IInv, SpreadOK, RepairSpreads
  <1>2. Spec => []IInv
    BY Invariance
  <1> QED  BY <1>1, <1>2, PTL

(***************************************************************************)
(* Late corrections and writes never replace what a replica holds by       *)
(* something older, provided that no write is newer than a delete (set,    *)
(* del, ExecuteInstruction).                                               *)
(***************************************************************************)
THEOREM NothingGoesBack == DeletesNewest => (Spec => ValueNeverBack)
  <1> SUFFICES ASSUME DeletesNewest
               PROVE  Spec => ValueNeverBack
    OBVIOUS
  <1>1. IInv /\ [Next]_vars => [NobodyBack]_vars
    BY NextInv
  <1>2. ValueNeverBack <=> [][NobodyBack]_vars
    BY DEF ValueNeverBack, NobodyBack
  <1>3. Spec => []IInv
    BY Invariance
  <1> QED  BY <1>1, <1>2, <1>3, PTL DEF Spec
-----------------------------------------------------------------------------
(* Convergence. *)

\* A replica holds nothing older than a write it has executed
CaughtUp == \A n \in Node : \A j \in 1..applied[n] : HeldTime(n) >= Writes[j].time

LEMMA WriteTimes ==
    ASSUME NEW k \in DOMAIN Writes
    PROVE  Writes[k].time \in Nat \ {0} /\ TimeOf(ValueOf(Writes[k])) = Writes[k].time
  BY WritesAreCorrections, CorrectionValue, ValueFacts, StoreAssumption DEF Correction, Time

LEMMA NextCaughtUp ==
    ASSUME DeletesNewest, WritesDistinct, IInv, CaughtUp, [Next]_vars
    PROVE  CaughtUp'
  <1>1. TypeOK /\ applied \in [Node -> 0..Len(Writes)] /\ DOMAIN Writes = 1..Len(Writes)
        /\ Len(Writes) \in Nat
    BY WriteAssumption DEF IInv, TInv, TypeOK
  <1>2. \A n \in Node : HeldTime(n) \in Nat /\ HeldTime(n)' \in Int /\ HeldTime(n)' >= HeldTime(n)
    <2>1. \A n \in Node : HeldTime(n) \in Nat
      BY <1>1, HeldFacts
    <2>2. TypeOK' /\ (NobodyBack \/ UNCHANGED vars)
      BY NextInv DEF IInv, TInv
    <2>3. \A n \in Node : HeldTime(n)' \in Int
      <3> TAKE n \in Node
      <3>1. data'[n][ReadKey] \in Value \cup {Nil}
        BY <2>2, WriteAssumption DEF TypeOK, DataType
      <3>2. HeldTime(n)' = TimeOf(data'[n][ReadKey])
        BY DEF HeldTime, TimeOf
      <3> QED  BY <3>1, <3>2, TimeOfType
    <2>4. CASE UNCHANGED vars
      BY <2>1, <2>4 DEF vars, HeldTime
    <2> QED  BY <2>1, <2>2, <2>3, <2>4 DEF NobodyBack
  <1>3. ASSUME NEW n \in Node, NEW j \in 1..applied[n]
        PROVE  HeldTime(n)' >= Writes[j].time
    <2>1. j \in DOMAIN Writes
      BY <1>1
    <2> QED  BY <1>2, <1>3, <2>1, WriteTimes DEF CaughtUp
  <1>4. ASSUME NEW n \in Node, ApplyWrite(n)
        PROVE  CaughtUp'
    <2>1. PICK k : k = applied[n] + 1
      OBVIOUS
    <2>2. /\ k \in DOMAIN Writes /\ Executes(n, Writes[k])
          /\ applied' = [applied EXCEPT ![n] = k]
      BY <1>1, <1>4, <2>1, ApplyWriteShape
    <2>3. Correction(Writes[k]) /\ Written(ValueOf(Writes[k]))
      BY <2>2, WritesAreCorrections DEF Written
    <2>4. Writes[k].cmd = "SET" \/ data[n][ReadKey] # Nil
      <3>1. CASE applied[n] = 0
        BY <2>1, <2>2, <3>1 DEF WritesDistinct
      <3>2. CASE applied[n] # 0
        <4>1. 1 \in 1..applied[n] /\ 1 \in DOMAIN Writes
          BY <1>1, <3>2
        <4>2. HeldTime(n) >= Writes[1].time /\ Writes[1].time \in Nat \ {0}
          BY <4>1, WriteTimes DEF CaughtUp
        <4> QED  BY <1>1, <1>2, <4>2, HeldFacts
      <3> QED  BY <3>1, <3>2
    <2>5. HeldTime(n)' >= Writes[k].time
      BY <2>2, <2>3, <2>4, ExecutesForward
    <2>6. \A m \in Node : applied'[m] = IF m = n THEN k ELSE applied[m]
      BY <1>1, <2>2
    <2>7. \A j \in 1..k : j = k \/ j \in 1..applied[n]
      BY <1>1, <2>1
    <2> QED  BY <1>3, <2>5, <2>6, <2>7 DEF CaughtUp
  <1>5. CASE UNCHANGED applied
    BY <1>3, <1>5 DEF CaughtUp
  <1>6. (\E n \in Node : ApplyWrite(n)) \/ UNCHANGED applied
    BY DEF Next, vars, Advance, StartRead, AnswerQuery, TooManyErrors, ReadTimeout, FinishRead,
           ReconcileRead, Crash, ApplyRepair
  <1> QED  BY <1>4, <1>5, <1>6

\* Of writes with different timestamps all replicas end with the newest
LEMMA CaughtUpConverged ==
    ASSUME WritesDistinct, IInv, CaughtUp
    PROVE  Converged
  <1> SUFFICES ASSUME \A n \in Node : applied[n] = Len(Writes),
                      NEW n \in Node, NEW m \in Node
               PROVE  data[n][ReadKey] = data[m][ReadKey]
    BY DEF Converged
  <1>1. TypeOK /\ DOMAIN Writes = 1..Len(Writes) /\ Len(Writes) \in Nat
    BY WriteAssumption DEF IInv, TInv
  <1>2. \A k \in DOMAIN Writes : HeldTime(n) >= Writes[k].time /\ HeldTime(m) >= Writes[k].time
    BY <1>1 DEF CaughtUp
  <1>3. Written(data[n][ReadKey]) /\ Written(data[m][ReadKey])
    BY DEF IInv
  <1>4. CASE DOMAIN Writes = {}
    BY <1>3, <1>4 DEF Written
  <1>5. CASE DOMAIN Writes # {}
    <2>1. PICK k \in DOMAIN Writes : TRUE
      BY <1>5
    <2>2. data[n][ReadKey] # Nil /\ data[m][ReadKey] # Nil
      BY <1>1, <1>2, <2>1, WriteTimes, HeldFacts
    <2>3. PICK a \in DOMAIN Writes : data[n][ReadKey] = ValueOf(Writes[a])
      BY <1>3, <2>2 DEF Written
    <2>4. PICK b \in DOMAIN Writes : data[m][ReadKey] = ValueOf(Writes[b])
      BY <1>3, <2>2 DEF Written
    <2>5. HeldTime(n) = Writes[a].time /\ HeldTime(m) = Writes[b].time
      BY <2>3, <2>4, WriteTimes DEF HeldTime
    <2>6. Writes[a].time = Writes[b].time
      BY <1>2, <2>5, WriteTimes
    <2> QED  BY <2>3, <2>4, <2>6 DEF WritesDistinct
  <1> QED  BY <1>4, <1>5

(***************************************************************************)
(* Replicas that have executed all writes hold the same value, whatever    *)
(* corrections of whatever reads came in between, provided that no write   *)
(* is newer than a delete, that no two have the same timestamp, and that   *)
(* the first is a SET (Reconcile, set, del, ExecuteInstruction).           *)
(***************************************************************************)
THEOREM ReplicasConverge == DeletesNewest /\ WritesDistinct => (Spec => []Converged)
  <1> SUFFICES ASSUME DeletesNewest, WritesDistinct
               PROVE  Spec => []Converged
    OBVIOUS
  <1>1. Init => CaughtUp
    BY DEF Init, CaughtUp
  <1>2. IInv /\ CaughtUp /\ [Next]_vars => CaughtUp'
    BY NextCaughtUp
  <1>3. IInv /\ CaughtUp => Converged
    BY CaughtUpConverged
  <1>4. Spec => []IInv
    BY Invariance
  <1> QED  BY <1>1, <1>2, <1>3, <1>4, PTL DEF Spec
=============================================================================
