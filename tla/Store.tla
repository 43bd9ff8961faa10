------------------------------- MODULE Store -------------------------------
(***************************************************************************)
(* The key/value store of a node (kvstore; redis has copies of the same    *)
(* commands and reconciliation): instructions on a map from keys to        *)
(* timestamped strings and tombstones, and the reconciliation of the       *)
(* values several nodes hold for one key.  The zero time is 0.             *)
(***************************************************************************)
EXTENDS Integers, Sequences

CONSTANTS
    Key,
    Arg,       \* the strings SET may be given
    MaxTime,   \* bound: the latest timestamp
    Nil        \* Go's nil: no value, no such key

Time == 1..MaxTime

\* store.Value; a tombstone has no string
Value == [type : {"STRING"}, value : Arg, time : Time]
            \cup [type : {"TOMBSTONE"}, value : {Nil}, time : Time]

ASSUME StoreAssumption == MaxTime \in Nat /\ Nil \notin Value

\* store.Instruction
Instruction == [cmd : {"GET", "SET", "DEL"}, key : Key, args : Seq(Arg), time : 0..MaxTime]

DataType == [Key -> Value \cup {Nil}]
NewKVStore == [k \in Key |-> Nil]
-----------------------------------------------------------------------------
\* Each command checks its arguments, writes also their timestamp
validateSet(i) == Len(i.args) = 1 /\ i.time # 0
validateDel(i) == i.args = <<>> /\ i.time # 0

get(data, k) == data[k]

\* Mutant: a write that arrives late overwrites a newer one
setAlways(data, k, arg, ts) ==
    [data EXCEPT ![k] = [type |-> "STRING", value |-> arg, time |-> ts]]

\* A write older than what the key holds is ignored
set(data, k, arg, ts) ==
    IF data[k] # Nil /\ ts < data[k].time THEN data
    ELSE [data EXCEPT ![k] = [type |-> "STRING", value |-> arg, time |-> ts]]

\* A key that exists is buried whatever its timestamp, one that does not exist
\* leaves no trace
del(data, k, ts) ==
    IF data[k] = Nil THEN data
    ELSE [data EXCEPT ![k] = [type |-> "TOMBSTONE", value |-> Nil, time |-> ts]]

\* The data after an instruction; one that is not valid is an error
ExecuteInstruction(data, i) ==
    CASE i.cmd = "GET" -> data
      [] i.cmd = "SET" -> IF validateSet(i) THEN set(data, i.key, i.args[1], i.time) ELSE data
      [] i.cmd = "DEL" -> IF validateDel(i) THEN del(data, i.key, i.time) ELSE data
-----------------------------------------------------------------------------
(***************************************************************************)
(* values maps each of the nodes that answered to its value.  The first    *)
(* value with the highest timestamp wins, in the order of the answers: any *)
(* node with that timestamp.                                               *)
(***************************************************************************)
HighNodes(values) ==
    {n \in DOMAIN values : \A m \in DOMAIN values : values[m].time <= values[n].time}

\* A nil value among several is dereferenced
ReconcilePanics(values) ==
    \E n, m \in DOMAIN values : n # m /\ values[n] = Nil

baseValueEqual(v, o) == v.type = o.type /\ v.time = o.time
Equal(v, o) == baseValueEqual(v, o) /\ v.value = o.value

\* Mutant: the nodes that hold the winning value get the instruction
reconcileStringSwapped(key, h, values) ==
    [n \in {n \in DOMAIN values : Equal(values[h], values[n])} |->
        [cmd |-> "SET", key |-> key, args |-> <<values[h].value>>, time |-> values[h].time]]

\* The nodes to be corrected when h has the winning value, each with its instruction
reconcileString(key, h, values) ==
    [n \in {n \in DOMAIN values : ~Equal(values[h], values[n])} |->
        [cmd |-> "SET", key |-> key, args |-> <<values[h].value>>, time |-> values[h].time]]

\* Mutant: the instruction carries no timestamp
reconcileTombstoneUntimed(key, h, values) ==
    [n \in DOMAIN values \ {h} |-> [cmd |-> "DEL", key |-> key, args |-> <<>>, time |-> 0]]

\* Tombstones are compared as pointers: of several equal ones all but the first get
\* an instruction
reconcileTombstone(key, h, values) ==
    [n \in DOMAIN values \ {h} |->
        [cmd |-> "DEL", key |-> key, args |-> <<>>, time |-> values[h].time]]

\* The instructions for more than one value
Reconcile(key, h, values) ==
    IF values[h].type = "STRING" THEN reconcileString(key, h, values)
    ELSE reconcileTombstone(key, h, values)
=============================================================================
