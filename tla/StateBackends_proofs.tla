------------------------ MODULE StateBackends_proofs ------------------------
(* Proofs about the state backends, for every set of states, keys and values. *)
EXTENDS StateBackends, Metered, FiniteSetTheorems, SequenceTheorems, TLAPS

(****************************************************************************)
(* Rocks: the column families and the handles that are registered.          *)
(****************************************************************************)

\* While column families are unknown the database is as it was restored, and
\* they are the ones whose handles are not registered yet. A panic with unknown
\* ones means that the checkpoint had some of the operator's states only.
Families(cfs, ckpt, in) ==
    /\ DOMAIN cfs \subseteq declared /\ DOMAIN ckpt \subseteq declared
    /\ in \in [kind : {"Initialized", "Uninitialized", "Panicked"},
               unknown_cfs : SUBSET declared, known_cfs : SUBSET declared]
    /\ in.kind = "Initialized" => in.unknown_cfs = {}
    /\ in.kind = "Uninitialized" => in.unknown_cfs # {}
    /\ in.unknown_cfs # {} =>
         /\ DOMAIN cfs = DOMAIN ckpt
         /\ in.unknown_cfs \cap in.known_cfs = {}
         /\ in.unknown_cfs \subseteq DOMAIN cfs
         /\ DOMAIN cfs \subseteq in.unknown_cfs \cup in.known_cfs
         /\ in.kind = "Panicked" => DOMAIN ckpt \notin {{}, declared}
RocksInv == backend = "Rocks" => Families(store, saved, status)

\* An operation on a state, or a merge inside RocksDB, changes neither the set
\* of column families nor what is known of them; it may panic.
Keeps ==
    /\ DOMAIN store' = DOMAIN store /\ saved' = saved
    /\ status' = status \/ status' = [status EXCEPT !.kind = "Panicked"]

\* A read leaves everything alone.
LEMMA ReadKeeps ==
    ASSUME NEW h, NEW op, NEW answer, Rocks!Reads(h, op, answer)
    PROVE  Keeps
    BY DEF Rocks!Reads, Keeps
\* A write changes one column family's content.
LEMMA WriteKeeps ==
    ASSUME NEW h, NEW table, NEW op, NEW answer, Rocks!Writes(h, table, op, answer)
    PROVE  Keeps
    BY DEF Rocks!Writes, Keeps

\* The operations of a value (value_ops.rs).
LEMMA ValueKeeps ==
    ASSUME NEW h, NEW mk, Rocks!ValueOps(h, mk)
    PROVE  Keeps
    BY ReadKeeps, WriteKeeps
       DEF Rocks!ValueOps, Rocks!ValueClear, Rocks!ValueGet, Rocks!ValueSet, Rocks!ValueFastSet
\* The operations of a vec (vec_ops.rs).
LEMMA VecKeeps ==
    ASSUME NEW h, NEW mk, Rocks!VecOps(h, mk)
    PROVE  Keeps
    BY ReadKeeps, WriteKeeps
       DEF Rocks!VecOps, Rocks!VecClear, Rocks!VecGet, Rocks!VecIter, Rocks!VecLen,
           Rocks!VecIsEmpty, Rocks!VecAppend, Rocks!VecSet, Rocks!VecAddAll
\* The operations of a reducer (reducer_ops.rs).
LEMMA ReducerKeeps ==
    ASSUME NEW h, NEW mk, Rocks!ReducerOps(h, mk)
    PROVE  Keeps
    BY ReadKeeps, WriteKeeps
       DEF Rocks!ReducerOps, Rocks!ReducerClear, Rocks!ReducerGet, Rocks!ReducerReduce
\* The operations of an aggregator (aggregator_ops.rs).
LEMMA AggregatorKeeps ==
    ASSUME NEW h, NEW mk, Rocks!AggregatorOps(h, mk)
    PROVE  Keeps
    BY ReadKeeps, WriteKeeps
       DEF Rocks!AggregatorOps, Rocks!AggregatorClear, Rocks!AggregatorGet,
           Rocks!AggregatorAggregate
\* The operations of a map; map_clear may panic (map_ops.rs).
LEMMA MapKeeps ==
    ASSUME NEW h, NEW mk, Rocks!MapOps(h, mk)
    PROVE  Keeps
    BY ReadKeeps, WriteKeeps
       DEF Rocks!MapOps, Rocks!MapClear, Rocks!MapIter, Rocks!MapKeys, Rocks!MapValues,
           Rocks!MapLen, Rocks!MapIsEmpty, Rocks!MapGet, Rocks!MapContains, Rocks!MapRemove,
           Rocks!MapFastRemove, Rocks!MapInsert, Rocks!MapFastInsert, Rocks!MapInsertAll,
           Rocks!Panic, Keeps
\* Merges of operands inside RocksDB.
LEMMA MergeKeeps ==
    ASSUME NEW h, NEW key, NEW i, Rocks!Compact(h, key) \/ Rocks!PartialMerge(h, key, i)
    PROVE  Keeps
    BY DEF Rocks!Compact, Rocks!PartialMerge, Keeps

\* A step on an open database.
LEMMA KeptFamilies ==
    ASSUME Families(store, saved, status), status.kind = "Initialized", Keeps,
           declared' = declared
    PROVE  Families(store', saved', status')
<1>1. status.unknown_cfs = {}
  BY DEF Families
<1>2. PICK s : s = [status EXCEPT !.kind = "Panicked"]
  OBVIOUS
<1>3. /\ s \in [kind : {"Initialized", "Uninitialized", "Panicked"},
                unknown_cfs : SUBSET declared, known_cfs : SUBSET declared]
      /\ s.unknown_cfs = {} /\ s.kind = "Panicked"
  BY <1>1, <1>2 DEF Families
<1>4. CASE status' = status
  BY <1>4 DEF Families, Keeps
<1>5. CASE status' = s
  BY <1>3, <1>5 DEF Families, Keeps
<1> QED
  BY <1>2, <1>4, <1>5 DEF Keeps

\* A handle of the operator is registered.
LEMMA RegisterFamilies ==
    ASSUME Families(store, saved, status), NEW h \in declared, Rocks!Register(h)
    PROVE  Families(store', saved', status')
<1>1. PICK in : in = status
  OBVIOUS
<1>2. /\ Families(store, saved, in) /\ saved' = saved
      /\ in.unknown_cfs \subseteq declared /\ in.known_cfs \subseteq declared
  BY <1>1 DEF Families, Rocks!Register
<1>3. CASE in.kind = "Initialized" /\ store' = With(store, h, EmptyTable) /\ status' = in
  <2>1. DOMAIN store' = DOMAIN store \cup {h}
    BY <1>3 DEF With
  <2> QED
    BY <1>2, <1>3, <2>1 DEF Families
<1>4. CASE /\ in.kind = "Uninitialized" /\ in.unknown_cfs \ {h} # {} /\ store' = store
           /\ status' = [kind |-> "Uninitialized", unknown_cfs |-> in.unknown_cfs \ {h},
                         known_cfs |-> in.known_cfs \cup {h}]
  <2>1. PICK s : s = status'
    OBVIOUS
  <2>2. /\ s.kind = "Uninitialized" /\ s.unknown_cfs = in.unknown_cfs \ {h}
        /\ s.known_cfs = in.known_cfs \cup {h}
        /\ s \in [kind : {"Initialized", "Uninitialized", "Panicked"},
                  unknown_cfs : SUBSET declared, known_cfs : SUBSET declared]
    BY <1>2, <1>4, <2>1
  <2> QED
    BY <1>2, <1>4, <2>1, <2>2 DEF Families
<1>5. CASE status' = Rocks!InitializedInner /\ store' = store
  <2>1. PICK s : s = status'
    OBVIOUS
  <2>2. /\ s.kind = "Initialized" /\ s.unknown_cfs = {}
        /\ s \in [kind : {"Initialized", "Uninitialized", "Panicked"},
                  unknown_cfs : SUBSET declared, known_cfs : SUBSET declared]
    BY <1>5, <2>1 DEF Rocks!InitializedInner
  <2> QED
    BY <1>2, <1>5, <2>1, <2>2 DEF Families
<1>6. CASE /\ in.kind = "Uninitialized" /\ in.unknown_cfs \ {h} = {} /\ store' = store
           /\ in.known_cfs \cup {h} # DOMAIN store
           /\ status' = [in EXCEPT !.kind = "Panicked"]
  <2>1. PICK s : s = status'
    OBVIOUS
  <2>2. /\ s.kind = "Panicked" /\ s.unknown_cfs = in.unknown_cfs /\ s.known_cfs = in.known_cfs
        /\ s \in [kind : {"Initialized", "Uninitialized", "Panicked"},
                  unknown_cfs : SUBSET declared, known_cfs : SUBSET declared]
    BY <1>2, <1>6, <2>1 DEF Families
  <2>3. DOMAIN saved # {}
    BY <1>2, <1>6 DEF Families
  <2>4. DOMAIN saved # declared
    BY <1>2, <1>6 DEF Families
  <2> QED
    BY <1>2, <1>6, <2>1, <2>2, <2>3, <2>4 DEF Families
<1>7. in.kind \in {"Initialized", "Uninitialized"}
  BY <1>1, <1>2 DEF Families, Rocks!Register
<1>8. \/ in.kind = "Initialized" /\ store' = With(store, h, EmptyTable) /\ status' = in
      \/ /\ in.kind # "Initialized" /\ in.unknown_cfs \ {h} # {} /\ store' = store
         /\ status' = [kind |-> "Uninitialized", unknown_cfs |-> in.unknown_cfs \ {h},
                       known_cfs |-> in.known_cfs \cup {h}]
      \/ status' = Rocks!InitializedInner /\ store' = store
      \/ /\ in.kind # "Initialized" /\ in.unknown_cfs \ {h} = {} /\ store' = store
         /\ in.known_cfs \cup {h} # DOMAIN store
         /\ status' = [in EXCEPT !.kind = "Panicked"]
  BY <1>1 DEF Rocks!Register, Rocks!IsInitialized, Rocks!Panic, Rocks!With, With,
              Rocks!EmptyTable, EmptyTable
<1> QED
  BY <1>3, <1>4, <1>5, <1>6, <1>7, <1>8

\* A restart from the checkpoint.
LEMMA RestartFamilies ==
    ASSUME Families(store, saved, status), Rocks!Restart
    PROVE  Families(store', saved', status')
<1>1. /\ saved' = saved /\ store' = saved /\ DOMAIN saved \subseteq declared
      /\ status' = Rocks!Created(DOMAIN saved)
  BY DEF Rocks!Restart, Families
<1>2. PICK s : s = status'
  OBVIOUS
<1>3. CASE DOMAIN saved = {}
  <2>1. /\ s.kind = "Initialized" /\ s.unknown_cfs = {}
        /\ s \in [kind : {"Initialized", "Uninitialized", "Panicked"},
                  unknown_cfs : SUBSET declared, known_cfs : SUBSET declared]
    BY <1>1, <1>2, <1>3 DEF Rocks!Created, Rocks!InitializedInner
  <2> QED
    BY <1>1, <1>2, <2>1 DEF Families
<1>4. CASE DOMAIN saved # {}
  <2>1. /\ s.kind = "Uninitialized" /\ s.unknown_cfs = DOMAIN saved /\ s.known_cfs = {}
        /\ s \in [kind : {"Initialized", "Uninitialized", "Panicked"},
                  unknown_cfs : SUBSET declared, known_cfs : SUBSET declared]
    BY <1>1, <1>2, <1>4 DEF Rocks!Created
  <2> QED
    BY <1>1, <1>2, <1>4, <2>1 DEF Families
<1> QED
  BY <1>3, <1>4

\* An operation, a merge, a checkpoint or a restart.
LEMMA StepFamilies ==
    ASSUME Families(store, saved, status), Rocks!Step, declared' = declared
    PROVE  Families(store', saved', status')
<1>1. ASSUME status.kind = "Initialized", Keeps PROVE Families(store', saved', status')
  BY <1>1, KeptFamilies
<1>2. ASSUME NEW h, Rocks!Refused(h) PROVE Families(store', saved', status')
  BY <1>2 DEF Rocks!Refused
<1>3. CASE Rocks!Checkpoint
  BY <1>3 DEF Rocks!Checkpoint, Rocks!IsInitialized, Families
<1>4. CASE Rocks!Restart
  BY <1>4, RestartFamilies
<1>5. ASSUME Rocks!IsInitialized, NEW h, NEW mk,
             \/ Rocks!ValueOps(h, mk) \/ Rocks!MapOps(h, mk) \/ Rocks!VecOps(h, mk)
             \/ Rocks!ReducerOps(h, mk) \/ Rocks!AggregatorOps(h, mk)
      PROVE  Families(store', saved', status')
  BY <1>1, <1>5, ValueKeeps, MapKeeps, VecKeeps, ReducerKeeps, AggregatorKeeps
     DEF Rocks!IsInitialized
<1>6. ASSUME Rocks!IsInitialized, NEW h, NEW key, NEW i,
             Rocks!Compact(h, key) \/ Rocks!PartialMerge(h, key, i)
      PROVE  Families(store', saved', status')
  BY <1>1, <1>6, MergeKeeps DEF Rocks!IsInitialized
<1> QED
  BY <1>2, <1>3, <1>4, <1>5, <1>6 DEF Rocks!Step

\* The invariant, from the first state on.
LEMMA RocksInit == Init => RocksInv
<1> SUFFICES ASSUME Init, backend = "Rocks" PROVE Families(store, saved, status)
  BY DEF RocksInv
<1>1. Rocks!Init
  BY DEF Init
<1>2. /\ store = EmptyTable /\ saved = EmptyTable /\ status = Rocks!InitializedInner
  <2>1. Rocks!Created({}) = Rocks!InitializedInner
    BY DEF Rocks!Created
  <2>2. store = EmptyTable /\ saved = EmptyTable /\ status = Rocks!Created({})
    BY <1>1 DEF Rocks!Init, Rocks!EmptyTable, EmptyTable
  <2> QED
    BY <2>1, <2>2
<1>3. DOMAIN EmptyTable = {}
  BY DEF EmptyTable
<1>4. PICK s : s = status
  OBVIOUS
<1>5. /\ s.kind = "Initialized" /\ s.unknown_cfs = {}
      /\ s \in [kind : {"Initialized", "Uninitialized", "Panicked"},
                unknown_cfs : SUBSET declared, known_cfs : SUBSET declared]
  BY <1>2, <1>4 DEF Rocks!InitializedInner
<1> QED
  BY <1>2, <1>3, <1>4, <1>5 DEF Families

\* Every step keeps it.
LEMMA RocksStep == RocksInv /\ [Next]_vars => RocksInv'
<1> SUFFICES ASSUME RocksInv, [Next]_vars, backend' = "Rocks"
             PROVE  Families(store, saved, status)'
  BY DEF RocksInv
<1>1. CASE UNCHANGED vars
  BY <1>1 DEF RocksInv, vars, Families
<1>2. CASE Next
  <2>1. backend = "Rocks" /\ declared' = declared /\ Families(store, saved, status)
    BY <1>2 DEF Next, RocksInv
  <2>2. Rocks!Step \/ \E h \in declared : Rocks!Register(h)
    BY <1>2, <2>1 DEF Next, Step, Register
  <2>3. Families(store', saved', status')
    BY <2>1, <2>2, StepFamilies, RegisterFamilies
  <2> QED
    BY <2>1, <2>3 DEF Families
<1> QED
  BY <1>1, <1>2

(* A restored database is open once all handles of the operator are           *)
(* registered: no column family is left unknown (create_column_family,        *)
(* initialize).                                                               *)
THEOREM RocksOpens == Spec => []UsableOnceRegistered
<1>1. RocksInv => UsableOnceRegistered
  <2> SUFFICES ASSUME RocksInv, backend = "Rocks", Rocks!Registered = declared,
                      status.kind = "Uninitialized"
               PROVE  FALSE
    BY DEF UsableOnceRegistered
  <2>1. Families(store, saved, status) /\ status.known_cfs = declared
    BY DEF RocksInv, Rocks!Registered, Rocks!IsInitialized
  <2> QED
    BY <2>1 DEF Families
<1> QED
  BY <1>1, RocksInit, RocksStep, PTL DEF Spec

(* Registering handles panics only if the checkpoint was taken when some of   *)
(* the operator's handles were registered and others were not.                *)
THEOREM RocksRegisters == Spec => []RegistrationSucceeds
<1>1. RocksInv => RegistrationSucceeds
  BY DEF RocksInv, Families, RegistrationSucceeds
<1> QED
  BY <1>1, RocksInit, RocksStep, PTL DEF Spec

(****************************************************************************)
(* SlowerFaster: the list of a map's keys beside its entries.               *)
(****************************************************************************)

\* Where a map's list of keys and its entries are.
ListKey(h, mk) == SlowerFaster!Key(h, mk)
EntryKeys(h, mk) == {SlowerFaster!EntryKey(h, mk, k) : k \in SlowerFaster!Keys}

\* A list names each member of S once and nothing else.
Names(list, S) ==
    /\ list \in Seq(S)
    /\ \A x \in S : \E i \in 1..Len(list) : list[i] = x
    /\ \A i, j \in 1..Len(list) : list[i] = list[j] => i = j

\* A map without a list has no entries, a list that is one names the entries.
Named(t, h, mk) ==
    /\ ListKey(h, mk) \notin DOMAIN t => EntryKeys(h, mk) \cap DOMAIN t = {}
    /\ ListKey(h, mk) \in DOMAIN t /\ SlowerFaster!IsVec(t[ListKey(h, mk)]) =>
           Names(SlowerFaster!AsVec(t[ListKey(h, mk)]), EntryKeys(h, mk) \cap DOMAIN t)
Listed(t) == \A h \in MapStates : \A mk \in SlowerFaster!Metakeys(h) : Named(t, h, mk)
FasterInv == backend = "SlowerFaster" => Listed(store) /\ Listed(saved)

\* A sequence is the concatenation of a first element and the rest.
LEMMA Prefixed ==
    ASSUME NEW S, NEW x \in S, NEW s \in Seq(S)
    PROVE  /\ <<x>> \o s \in Seq(S) /\ Len(<<x>> \o s) = Len(s) + 1
           /\ (<<x>> \o s)[1] = x
           /\ \A i \in 1..Len(s) : (<<x>> \o s)[i + 1] = s[i]
<1>1. <<x>> \in Seq(S) /\ Len(<<x>>) = 1 /\ <<x>>[1] = x
  OBVIOUS
<1> HIDE <1>1
<1> QED
  BY <1>1, ConcatProperties

\* Two bytes.
LEMMA TwoBytes ==
    ASSUME NEW a \in Nat, NEW b \in Nat
    PROVE  /\ <<a>> \o <<b>> \in Seq(Nat) /\ Len(<<a>> \o <<b>>) = 2
           /\ (<<a>> \o <<b>>)[1] = a /\ (<<a>> \o <<b>>)[2] = b
<1>0. PICK r : r = <<b>>
  OBVIOUS
<1>1. r \in Seq(Nat) /\ r = <<b>> /\ Len(r) = 1 /\ r[1] = b
  BY <1>0
<1>2. /\ <<a>> \o r \in Seq(Nat) /\ Len(<<a>> \o r) = Len(r) + 1
      /\ (<<a>> \o r)[1] = a /\ \A i \in 1..Len(r) : (<<a>> \o r)[i + 1] = r[i]
  BY <1>1, Prefixed
<1>3. PICK s : s = <<a>> \o r
  OBVIOUS
<1>4. s \in Seq(Nat) /\ Len(s) = 2 /\ s[1] = a /\ s[2] = b
  <2>1. \A i \in 1..Len(r) : s[i + 1] = r[i]
    BY <1>2, <1>3
  <2> QED
    BY <1>1, <1>2, <1>3, <2>1
<1> QED
  BY <1>1, <1>3, <1>4

\* The bytes of the item key and the namespace.
LEMMA MetakeyBytes ==
    ASSUME NEW h, NEW mk \in SlowerFaster!Metakeys(h)
    PROVE  /\ SlowerFaster!SerializeMetakeys(mk) \in Seq(Nat)
           /\ h \in UnitStates => mk = <<>> /\ Len(SlowerFaster!SerializeMetakeys(mk)) = 0
           /\ h \notin UnitStates =>
                /\ Len(SlowerFaster!SerializeMetakeys(mk)) = 2
                /\ mk = <<SlowerFaster!SerializeMetakeys(mk)[1],
                          SlowerFaster!SerializeMetakeys(mk)[2]>>
<1>1. CASE h \in UnitStates
  <2>1. mk = <<>> /\ SlowerFaster!SerializeMetakeys(mk) = <<>>
    BY <1>1 DEF SlowerFaster!Metakeys, SlowerFaster!SerializeMetakeys
  <2>2. PICK s : s = SlowerFaster!SerializeMetakeys(mk)
    OBVIOUS
  <2>3. s \in Seq(Nat) /\ Len(s) = 0
    BY <2>1, <2>2
  <2> QED
    BY <1>1, <2>1, <2>2, <2>3
<1>2. CASE h \notin UnitStates
  <2>0. PICK a \in ItemKeys, b \in Namespaces : mk = <<a, b>>
    BY <1>2 DEF SlowerFaster!Metakeys
  <2>1. a \in Nat /\ b \in Nat /\ mk = <<a, b>>
    BY <2>0, KeysAssumption DEF U8Max
  <2>2. mk # <<>> /\ mk[1] = a /\ mk[2] = b
    BY <2>1
  <2>3. SlowerFaster!SerializeMetakeys(mk) = <<a>> \o <<b>>
    BY <2>2 DEF SlowerFaster!SerializeMetakeys, SlowerFaster!FixedBytes
  <2>5. PICK s : s = SlowerFaster!SerializeMetakeys(mk)
    OBVIOUS
  <2>6. s \in Seq(Nat) /\ Len(s) = 2 /\ s[1] = a /\ s[2] = b
    BY <2>1, <2>3, <2>5, TwoBytes
  <2> QED
    BY <1>2, <2>1, <2>5, <2>6
<1> QED
  BY <1>1, <1>2

\* The bytes of a number: one or two.
LEMMA KeyBytes ==
    ASSUME NEW k \in Nat
    PROVE  /\ SlowerFaster!Serialize(k) \in Seq(Nat)
           /\ Len(SlowerFaster!Serialize(k)) \in 1..2
<1>2. PICK p : p = SlowerFaster!Payload(k)
  OBVIOUS
<1>3. p \in Seq(Nat) /\ Len(p) \in 0..1
  <2>1. CASE k = 0
    <3>1. p = <<>>
      BY <1>2, <2>1 DEF SlowerFaster!Payload
    <3> QED
      BY <3>1
  <2>2. CASE k # 0
    <3>1. p = <<k>>
      BY <1>2, <2>2 DEF SlowerFaster!Payload
    <3> QED
      BY <3>1
  <2> QED
    BY <2>1, <2>2
<1>4. SlowerFaster!Serialize(k) = <<Len(p)>> \o p /\ Len(p) \in Nat
  BY <1>2, <1>3 DEF SlowerFaster!Serialize
<1> QED
  BY <1>3, <1>4, Prefixed

\* What a key of the database tells: its state, and the length of the rest.
KeysTell(h, mk, m) ==
    /\ ListKey(h, mk)[1] = h /\ Len(ListKey(h, mk)) = Len(m) + 1
    /\ \A i \in 1..Len(m) : ListKey(h, mk)[i + 1] = m[i]
    /\ \A e \in EntryKeys(h, mk) :
         /\ e[1] = h /\ Len(e) \in (Len(m) + 2)..(Len(m) + 3)
         /\ \A i \in 1..Len(m) : e[i + 1] = m[i]

\* It tells them.
LEMMA KeyParts ==
    ASSUME NEW h, NEW mk \in SlowerFaster!Metakeys(h),
           NEW m, m = SlowerFaster!SerializeMetakeys(mk)
    PROVE  KeysTell(h, mk, m)
<1>1. m \in Seq(Nat) /\ Len(m) \in Nat
  BY MetakeyBytes
<1>2. m \in Seq(Nat \cup {h})
  BY <1>1
<1>3. PICK key : key = ListKey(h, mk)
  OBVIOUS
<1>4. key = <<h>> \o m
  BY <1>3 DEF ListKey, SlowerFaster!Key, SlowerFaster!SerializeIdAndMetakeys
<1>5. /\ key \in Seq(Nat \cup {h}) /\ key[1] = h /\ Len(key) = Len(m) + 1
      /\ \A i \in 1..Len(m) : key[i + 1] = m[i]
  BY <1>2, <1>4, Prefixed
<1>6. ASSUME NEW e \in EntryKeys(h, mk)
      PROVE  /\ e[1] = h /\ Len(e) \in (Len(m) + 2)..(Len(m) + 3)
             /\ \A i \in 1..Len(m) : e[i + 1] = m[i]
  <2>1. PICK k \in SlowerFaster!Keys : e = SlowerFaster!EntryKey(h, mk, k)
    BY DEF EntryKeys
  <2>2. PICK b : b = SlowerFaster!Serialize(k)
    OBVIOUS
  <2>3. b \in Seq(Nat) /\ Len(b) \in 1..2
    <3>1. k \in Nat
      BY KeysAssumption DEF SlowerFaster!Keys, U8Max
    <3> QED
      BY <2>2, <3>1, KeyBytes
  <2>4. e = key \o b
    BY <1>3, <2>1, <2>2 DEF SlowerFaster!EntryKey, SlowerFaster!SerializeIdMetakeysAndKey,
                            ListKey, SlowerFaster!Key
  <2>5. b \in Seq(Nat \cup {h})
    BY <2>3
  <2>6. /\ Len(e) = Len(key) + Len(b)
        /\ \A i \in 1..Len(key) + Len(b) :
             e[i] = IF i <= Len(key) THEN key[i] ELSE b[i - Len(key)]
    <3>1. PICK S : S = Nat \cup {h}
      OBVIOUS
    <3>2. key \in Seq(S) /\ b \in Seq(S)
      BY <1>5, <2>5, <3>1
    <3> QED
      BY <2>4, <3>2, ConcatProperties
  <2>7. \A i \in 1..(Len(m) + 1) : e[i] = key[i]
    <3> SUFFICES ASSUME NEW i \in 1..(Len(m) + 1) PROVE e[i] = key[i]
      OBVIOUS
    <3>1. PICK x \in Nat, y \in 1..2 : x = Len(key) /\ y = Len(b) /\ i \in 1..x
      BY <1>1, <1>5, <2>3
    <3>2. i \in 1..(x + y) /\ i <= x
      BY <3>1
    <3> QED
      BY <2>6, <3>1, <3>2
  <2>8. e[1] = h /\ Len(e) \in (Len(m) + 2)..(Len(m) + 3)
    <3>1. e[1] = h
      BY <1>1, <1>5, <2>7
    <3>2. PICK x \in Nat, y \in 1..2 : x = Len(m) /\ y = Len(b)
      BY <1>1, <2>3
    <3>3. Len(e) = x + 1 + y
      BY <1>5, <2>6, <3>2
    <3>4. x + 1 + y \in (x + 2)..(x + 3)
      OBVIOUS
    <3> QED
      BY <3>1, <3>2, <3>3, <3>4
  <2>9. ASSUME NEW i \in 1..Len(m) PROVE e[i + 1] = m[i]
    <3>1. i + 1 \in 1..(Len(m) + 1)
      BY <1>1
    <3> QED
      BY <1>5, <2>7, <3>1
  <2> QED
    BY <2>8, <2>9
<1> QED
  BY <1>3, <1>5, <1>6 DEF KeysTell

\* No two maps share a key of the database, and no other state has one of a
\* map's: the id, the item key and the namespace come first, and the bytes of a
\* list's key are all of them.
LEMMA KeysApart ==
    ASSUME NEW g, NEW mg \in SlowerFaster!Metakeys(g),
           NEW h, NEW mk \in SlowerFaster!Metakeys(h)
    PROVE  /\ ListKey(g, mg) \notin EntryKeys(h, mk)
           /\ g # h \/ mg # mk =>
                /\ ListKey(g, mg) # ListKey(h, mk)
                /\ EntryKeys(g, mg) \cap EntryKeys(h, mk) = {}
<1>1. PICK n \in Seq(Nat) : n = SlowerFaster!SerializeMetakeys(mg)
  BY MetakeyBytes
<1>2. PICK m \in Seq(Nat) : m = SlowerFaster!SerializeMetakeys(mk)
  BY MetakeyBytes
<1>3. g = h => Len(n) = Len(m) /\ Len(n) \in {0, 2}
  BY <1>1, <1>2, MetakeyBytes
<1>4. ASSUME g = h, \A i \in 1..Len(n) : n[i] = m[i] PROVE mg = mk
  <2>1. CASE h \in UnitStates
    BY <1>4, <2>1, MetakeyBytes
  <2>2. CASE h \notin UnitStates
    <3>1. Len(n) = 2 /\ mg = <<n[1], n[2]>> /\ mk = <<m[1], m[2]>>
      BY <1>1, <1>2, <1>4, <2>2, MetakeyBytes
    <3>2. n[1] = m[1] /\ n[2] = m[2]
      BY <1>4, <3>1
    <3> QED
      BY <3>1, <3>2
  <2> QED
    BY <2>1, <2>2
<1>5. /\ ListKey(g, mg)[1] = g /\ Len(ListKey(g, mg)) = Len(n) + 1
      /\ \A i \in 1..Len(n) : ListKey(g, mg)[i + 1] = n[i]
      /\ \A e \in EntryKeys(g, mg) :
           e[1] = g /\ \A i \in 1..Len(n) : e[i + 1] = n[i]
  <2>1. KeysTell(g, mg, n)
    BY <1>1, KeyParts
  <2> QED
    BY <2>1 DEF KeysTell
<1>6. /\ ListKey(h, mk)[1] = h /\ Len(ListKey(h, mk)) = Len(m) + 1
      /\ \A i \in 1..Len(m) : ListKey(h, mk)[i + 1] = m[i]
      /\ \A e \in EntryKeys(h, mk) :
           /\ e[1] = h /\ Len(e) \in (Len(m) + 2)..(Len(m) + 3)
           /\ \A i \in 1..Len(m) : e[i + 1] = m[i]
  <2>1. KeysTell(h, mk, m)
    BY <1>2, KeyParts
  <2> QED
    BY <2>1 DEF KeysTell
<1>7. ListKey(g, mg) \notin EntryKeys(h, mk)
  BY <1>3, <1>5, <1>6
<1>8. ASSUME ListKey(g, mg) = ListKey(h, mk) PROVE g = h /\ mg = mk
  <2>1. g = h
    BY <1>5, <1>6, <1>8
  <2>2. \A i \in 1..Len(n) : n[i] = m[i]
    BY <1>3, <1>5, <1>6, <1>8, <2>1
  <2> QED
    BY <1>4, <2>1, <2>2
<1>9. ASSUME NEW e \in EntryKeys(g, mg), e \in EntryKeys(h, mk) PROVE g = h /\ mg = mk
  <2>1. g = h
    BY <1>5, <1>6, <1>9
  <2>2. \A i \in 1..Len(n) : n[i] = m[i]
    BY <1>3, <1>5, <1>6, <1>9, <2>1
  <2> QED
    BY <1>4, <2>1, <2>2
<1> QED
  BY <1>7, <1>8, <1>9

\* What a table keeps outside of some keys.
SameBut(t, u, K) ==
    \A x : x \notin K =>
        /\ x \in DOMAIN t <=> x \in DOMAIN u
        /\ x \in DOMAIN t => u[x] = t[x]

\* With and Without change one or some keys.
LEMMA WithSame ==
    ASSUME NEW t, NEW key, NEW v
    PROVE  /\ SameBut(t, SlowerFaster!With(t, key, v), {key})
           /\ DOMAIN SlowerFaster!With(t, key, v) = DOMAIN t \cup {key}
           /\ SlowerFaster!With(t, key, v)[key] = v
  BY DEF SameBut, SlowerFaster!With
\* The same of Without.
LEMMA WithoutSame ==
    ASSUME NEW t, NEW K
    PROVE  /\ SameBut(t, SlowerFaster!Without(t, K), K)
           /\ DOMAIN SlowerFaster!Without(t, K) = DOMAIN t \ K
  BY DEF SameBut, SlowerFaster!Without
\* Two changes, one after the other.
LEMMA SameTwice ==
    ASSUME NEW t, NEW u, NEW w, NEW K, NEW L, SameBut(t, u, K), SameBut(u, w, L)
    PROVE  SameBut(t, w, K \cup L)
  BY DEF SameBut

\* A map is untouched by what does not touch its keys.
LEMMA Untouched ==
    ASSUME NEW t, NEW u, NEW K, NEW h, NEW mk, SameBut(t, u, K), Named(t, h, mk),
           ListKey(h, mk) \notin K, EntryKeys(h, mk) \cap K = {}
    PROVE  Named(u, h, mk)
<1>1. EntryKeys(h, mk) \cap DOMAIN u = EntryKeys(h, mk) \cap DOMAIN t
  BY DEF SameBut
<1>2. /\ ListKey(h, mk) \in DOMAIN t <=> ListKey(h, mk) \in DOMAIN u
      /\ ListKey(h, mk) \in DOMAIN t => u[ListKey(h, mk)] = t[ListKey(h, mk)]
  BY DEF SameBut
<1> QED
  BY <1>1, <1>2 DEF Named

\* A list with a new name at its end.
LEMMA NamesAppended ==
    ASSUME NEW S, NEW list, Names(list, S), NEW x, x \notin S
    PROVE  Names(Append(list, x), S \cup {x})
<1>1. list \in Seq(S) /\ list \in Seq(S \cup {x})
  BY DEF Names
<1>2. PICK r : r = Append(list, x)
  OBVIOUS
<1>3. /\ r \in Seq(S \cup {x}) /\ Len(r) = Len(list) + 1 /\ r[Len(list) + 1] = x
      /\ \A i \in 1..Len(list) : r[i] = list[i]
  BY <1>1, <1>2, AppendProperties
<1>4. \A i \in 1..Len(list) : list[i] \in S /\ list[i] # x
  BY <1>1
<1>5. ASSUME NEW y \in S \cup {x} PROVE \E i \in 1..Len(r) : r[i] = y
  <2>1. CASE y = x
    BY <1>1, <1>3, <2>1
  <2>2. CASE y \in S
    <3>1. PICK i \in 1..Len(list) : list[i] = y
      BY <2>2 DEF Names
    <3> QED
      BY <1>1, <1>3, <3>1
  <2> QED
    BY <2>1, <2>2
<1>6. ASSUME NEW i \in 1..Len(r), NEW j \in 1..Len(r), r[i] = r[j] PROVE i = j
  <2>1. CASE i = Len(list) + 1 \/ j = Len(list) + 1
    BY <1>1, <1>3, <1>4, <1>6, <2>1
  <2>2. CASE i \in 1..Len(list) /\ j \in 1..Len(list)
    BY <1>3, <1>6, <2>2 DEF Names
  <2> QED
    BY <1>1, <1>3, <2>1, <2>2
<1> QED
  BY <1>2, <1>3, <1>5, <1>6 DEF Names

\* The list of one name.
LEMMA NamesOne == ASSUME NEW x PROVE Names(<<x>>, {x})
<1>1. PICK r : r = <<x>>
  OBVIOUS
<1>2. r \in Seq({x}) /\ Len(r) = 1 /\ r[1] = x
  BY <1>1
<1> QED
  BY <1>1, <1>2 DEF Names

\* A list from which a name is removed at its first place, its only one.
LEMMA NamesRemoved ==
    ASSUME NEW S, NEW list, Names(list, S), NEW x
    PROVE  Names(SlowerFaster!RemoveFirst(list, x), S \ {x})
<1>1. list \in Seq(S) /\ Len(list) \in Nat
  BY DEF Names
<1>2. CASE ~ \E i \in 1..Len(list) : list[i] = x
  <2>1. SlowerFaster!RemoveFirst(list, x) = list
    BY <1>2 DEF SlowerFaster!RemoveFirst
  <2>2. x \notin S
    BY <1>2 DEF Names
  <2>3. S \ {x} = S
    BY <2>2
  <2> QED
    BY <2>1, <2>3
<1>3. CASE \E i \in 1..Len(list) : list[i] = x
  <2>1. PICK p \in 1..Len(list) : list[p] = x
    BY <1>3
  <2>2. {i \in 1..Len(list) : list[i] = x} = {p}
    <3>1. \A i \in 1..Len(list) : list[i] = x => i = p
      BY <2>1 DEF Names
    <3> QED
      BY <2>1, <3>1
  <2>3. SlowerFaster!RemoveFirst(list, x) = SlowerFaster!RemoveAt(list, p)
    <3>1. SlowerFaster!Min({p}) = p
      BY <1>1, <2>1 DEF SlowerFaster!Min
    <3>2. SlowerFaster!SelectInSeq(list, LAMBDA v : v = x) = p
      BY <2>2, <3>1 DEF SlowerFaster!SelectInSeq
    <3> QED
      BY <1>3, <3>2 DEF SlowerFaster!RemoveFirst
  <2>4. PICK r : r = SlowerFaster!RemoveFirst(list, x)
    OBVIOUS
  <2>5. PICK a, b : a = SubSeq(list, 1, p - 1) /\ b = SubSeq(list, p + 1, Len(list))
    OBVIOUS
  <2>6. a \in Seq(S) /\ Len(a) = p - 1 /\ \A i \in 1..(p - 1) : a[i] = list[i]
    <3>1. \A i \in 1..(p - 1) : list[i] \in S
      BY <1>1, <2>1
    <3>2. /\ a \in Seq(S)
          /\ Len(a) = IF 1 <= p - 1 THEN (p - 1) - 1 + 1 ELSE 0
          /\ \A i \in 1..((p - 1) - 1 + 1) : a[i] = list[1 + i - 1]
      BY <1>1, <2>1, <2>5, <3>1, SubSeqProperties
    <3> QED
      BY <1>1, <2>1, <3>2
  <2>7. /\ b \in Seq(S) /\ Len(b) = Len(list) - p
        /\ \A i \in 1..(Len(list) - p) : b[i] = list[p + i]
    <3>1. \A i \in (p + 1)..Len(list) : list[i] \in S
      BY <1>1, <2>1
    <3>2. /\ b \in Seq(S)
          /\ Len(b) = IF p + 1 <= Len(list) THEN Len(list) - (p + 1) + 1 ELSE 0
          /\ \A i \in 1..(Len(list) - (p + 1) + 1) : b[i] = list[(p + 1) + i - 1]
      BY <1>1, <2>1, <2>5, <3>1, SubSeqProperties
    <3> QED
      BY <1>1, <2>1, <3>2
  <2>8. r = a \o b
    BY <2>3, <2>4, <2>5 DEF SlowerFaster!RemoveAt
  <2>9. /\ r \in Seq(S) /\ Len(r) = Len(list) - 1
        /\ \A i \in 1..(Len(list) - 1) : r[i] = IF i < p THEN list[i] ELSE list[i + 1]
    <3>1. /\ r \in Seq(S) /\ Len(r) = Len(a) + Len(b)
          /\ \A i \in 1..(Len(a) + Len(b)) :
               r[i] = IF i <= Len(a) THEN a[i] ELSE b[i - Len(a)]
      BY <2>6, <2>7, <2>8, ConcatProperties
    <3>2. Len(r) = Len(list) - 1
      BY <1>1, <2>1, <2>6, <2>7, <3>1
    <3>3. ASSUME NEW i \in 1..(Len(list) - 1)
          PROVE  r[i] = IF i < p THEN list[i] ELSE list[i + 1]
      <4>1. r[i] = IF i <= p - 1 THEN a[i] ELSE b[i - (p - 1)]
        <5>1. i \in 1..(Len(a) + Len(b))
          BY <1>1, <2>1, <2>6, <2>7, <3>3
        <5> QED
          BY <2>6, <3>1, <5>1
      <4>2. CASE i < p
        BY <1>1, <2>1, <2>6, <3>3, <4>1, <4>2
      <4>3. CASE i >= p
        <5>1. i - (p - 1) \in 1..(Len(list) - p) /\ p + (i - (p - 1)) = i + 1
          BY <1>1, <2>1, <3>3, <4>3
        <5>2. r[i] = b[i - (p - 1)]
          BY <2>1, <4>1, <4>3
        <5> QED
          BY <2>7, <4>3, <5>1, <5>2
      <4> QED
        BY <2>1, <3>3, <4>2, <4>3
    <3> QED
      BY <3>1, <3>2, <3>3
  <2>10. \A i \in 1..Len(r) : r[i] \in S \ {x}
    <3> SUFFICES ASSUME NEW i \in 1..Len(r) PROVE r[i] \in S \ {x}
      OBVIOUS
    <3>1. PICK q \in 1..Len(list) : q # p /\ r[i] = list[q]
      <4>1. CASE i < p
        BY <1>1, <2>1, <2>9, <4>1
      <4>2. CASE i >= p
        <5>1. i + 1 \in 1..Len(list) /\ i + 1 # p /\ r[i] = list[i + 1]
          BY <1>1, <2>1, <2>9, <4>2
        <5> QED
          BY <5>1
      <4> QED
        BY <1>1, <2>1, <4>1, <4>2
    <3>2. list[q] # x
      BY <2>1, <3>1 DEF Names
    <3> QED
      BY <1>1, <3>1, <3>2
  <2>11. r \in Seq(S \ {x})
    BY <2>9, <2>10, SeqDef
  <2>12. ASSUME NEW y \in S \ {x} PROVE \E i \in 1..Len(r) : r[i] = y
    <3>1. PICK i \in 1..Len(list) : list[i] = y
      BY DEF Names
    <3>2. CASE i < p
      <4>1. i \in 1..Len(r) /\ r[i] = y
        BY <1>1, <2>1, <2>9, <3>1, <3>2
      <4> QED
        BY <4>1
    <3>3. CASE i > p
      <4>1. i - 1 \in 1..Len(r) /\ r[i - 1] = y
        BY <1>1, <2>1, <2>9, <3>1, <3>3
      <4> QED
        BY <4>1
    <3> QED
      BY <2>1, <3>1, <3>2, <3>3
  <2>13. ASSUME NEW i \in 1..Len(r), NEW j \in 1..Len(r), r[i] = r[j] PROVE i = j
    <3>1. PICK k \in 1..Len(list) : k = IF i < p THEN i ELSE i + 1
      BY <1>1, <2>1, <2>9
    <3>2. PICK l \in 1..Len(list) : l = IF j < p THEN j ELSE j + 1
      BY <1>1, <2>1, <2>9
    <3>3. r[i] = list[k] /\ r[j] = list[l]
      BY <1>1, <2>1, <2>9, <3>1, <3>2
    <3>4. k = l
      BY <2>13, <3>3 DEF Names
    <3> QED
      BY <2>1, <2>9, <3>1, <3>2, <3>4
  <2> QED
    BY <2>4, <2>11, <2>12, <2>13 DEF Names
<1> QED
  BY <1>2, <1>3

\* An insertion: the entry, and its key at the end of the list unless it is there.
LEMMA InsertNames ==
    ASSUME NEW t, NEW h, NEW mk \in SlowerFaster!Metakeys(h), NEW k \in SlowerFaster!Keys,
           NEW v, Named(t, h, mk), SlowerFaster!CanRmwVec(t, ListKey(h, mk)),
           NEW u, u = SlowerFaster!Inserted(t, h, mk, k, v)
    PROVE  /\ Named(u, h, mk) /\ SlowerFaster!CanRmwVec(u, ListKey(h, mk))
           /\ SameBut(t, u, {ListKey(h, mk)} \cup EntryKeys(h, mk))
<1>1. PICK key, e : key = ListKey(h, mk) /\ e = SlowerFaster!EntryKey(h, mk, k)
  OBVIOUS
<1>2. e \in EntryKeys(h, mk) /\ key # e
  BY <1>1, KeysApart DEF EntryKeys
<1>3. PICK put : put = SlowerFaster!With(t, e, SlowerFaster!Rec("Raw", SlowerFaster!Serialize(v)))
  OBVIOUS
<1>4. PICK rec : rec = IF key \in DOMAIN put
                       THEN SlowerFaster!Rec("Value", SlowerFaster!VecRmw(
                              SlowerFaster!AsVec(put[key]), SlowerFaster!Rec("PushIfAbsent", e)))
                       ELSE SlowerFaster!Rec("PushIfAbsent", e)
  OBVIOUS
<1>5. u = SlowerFaster!With(put, key, rec)
  BY <1>1, <1>3, <1>4
     DEF SlowerFaster!Inserted, SlowerFaster!Put, SlowerFaster!RmwVec, ListKey
<1>7. /\ SameBut(t, put, {e}) /\ DOMAIN put = DOMAIN t \cup {e}
      /\ SameBut(put, u, {key}) /\ DOMAIN u = DOMAIN put \cup {key} /\ u[key] = rec
  <2>1. SameBut(t, put, {e}) /\ DOMAIN put = DOMAIN t \cup {e}
    BY <1>3, WithSame
  <2>2. SameBut(put, u, {key}) /\ DOMAIN u = DOMAIN put \cup {key} /\ u[key] = rec
    <3>1. /\ SameBut(put, SlowerFaster!With(put, key, rec), {key})
          /\ DOMAIN SlowerFaster!With(put, key, rec) = DOMAIN put \cup {key}
          /\ SlowerFaster!With(put, key, rec)[key] = rec
      BY DEF SameBut, SlowerFaster!With
    <3> QED
      BY <1>5, <3>1
  <2> QED
    BY <2>1, <2>2
<1>8. SameBut(t, u, {key} \cup EntryKeys(h, mk))
  <2>1. SameBut(t, u, {e} \cup {key})
    BY <1>7, SameTwice
  <2> QED
    BY <1>2, <2>1 DEF SameBut
<1>9. /\ key \in DOMAIN put <=> key \in DOMAIN t
      /\ key \in DOMAIN t => put[key] = t[key]
  BY <1>2, <1>7 DEF SameBut
<1>10. key \notin EntryKeys(h, mk)
  BY <1>1, KeysApart
<1>11. EntryKeys(h, mk) \cap DOMAIN u = (EntryKeys(h, mk) \cap DOMAIN t) \cup {e}
  BY <1>2, <1>7, <1>10
<1>12. /\ rec.op \in {"Value", "PushIfAbsent"}
       /\ Names(SlowerFaster!AsVec(rec), (EntryKeys(h, mk) \cap DOMAIN t) \cup {e})
  <2>1. CASE key \notin DOMAIN t
    <3>1. rec.op = "PushIfAbsent" /\ rec.data = e
      BY <1>4, <1>9, <2>1 DEF SlowerFaster!Rec
    <3>2. SlowerFaster!AsVec(rec) = <<e>>
      BY <3>1 DEF SlowerFaster!AsVec
    <3>3. EntryKeys(h, mk) \cap DOMAIN t = {}
      BY <1>1, <2>1 DEF Named
    <3> QED
      BY <3>1, <3>2, <3>3, NamesOne
  <2>2. CASE key \in DOMAIN t
    <3>1. PICK list : list = SlowerFaster!AsVec(t[key])
      OBVIOUS
    <3>2. Names(list, EntryKeys(h, mk) \cap DOMAIN t)
      BY <1>1, <2>2, <3>1 DEF Named, SlowerFaster!CanRmwVec
    <3>3. PICK res : res = SlowerFaster!VecRmw(list, SlowerFaster!Rec("PushIfAbsent", e))
      OBVIOUS
    <3>4. res = IF e \in SlowerFaster!ToSet(list) THEN list ELSE Append(list, e)
      BY <3>3 DEF SlowerFaster!VecRmw, SlowerFaster!Rec
    <3>5. rec.op = "Value" /\ rec.data = res
      BY <1>4, <1>9, <2>2, <3>1, <3>3 DEF SlowerFaster!Rec
    <3>6. SlowerFaster!AsVec(rec) = res
      BY <3>5 DEF SlowerFaster!AsVec
    <3>7. e \in SlowerFaster!ToSet(list) <=> e \in EntryKeys(h, mk) \cap DOMAIN t
      <4>1. list \in Seq(EntryKeys(h, mk) \cap DOMAIN t)
        BY <3>2 DEF Names
      <4>2. DOMAIN list = 1..Len(list)
        BY <4>1
      <4> QED
        BY <3>2, <4>1, <4>2 DEF SlowerFaster!ToSet, Names
    <3>8. CASE e \in EntryKeys(h, mk) \cap DOMAIN t
      <4>1. (EntryKeys(h, mk) \cap DOMAIN t) \cup {e} = EntryKeys(h, mk) \cap DOMAIN t
        BY <3>8
      <4> QED
        BY <3>2, <3>4, <3>5, <3>6, <3>7, <3>8, <4>1
    <3>9. CASE e \notin EntryKeys(h, mk) \cap DOMAIN t
      BY <3>2, <3>4, <3>5, <3>6, <3>7, <3>9, NamesAppended
    <3> QED
      BY <3>8, <3>9
  <2> QED
    BY <2>1, <2>2
<1>13. Named(u, h, mk)
  BY <1>1, <1>7, <1>11, <1>12 DEF Named
<1>14. SlowerFaster!CanRmwVec(u, key)
  BY <1>7, <1>12 DEF SlowerFaster!CanRmwVec, SlowerFaster!IsVec
<1> QED
  BY <1>1, <1>8, <1>13, <1>14

\* A removal: the entry goes, and its key from the list.
LEMMA RemoveNames ==
    ASSUME NEW h, NEW mk \in SlowerFaster!Metakeys(h), NEW k \in SlowerFaster!Keys,
           Named(store, h, mk), SlowerFaster!CanRmwVec(store, ListKey(h, mk)),
           NEW u, u = SlowerFaster!Removed(h, mk, k)
    PROVE  /\ Named(u, h, mk)
           /\ SameBut(store, u, {ListKey(h, mk)} \cup EntryKeys(h, mk))
<1>1. PICK key, e : key = ListKey(h, mk) /\ e = SlowerFaster!EntryKey(h, mk, k)
  OBVIOUS
<1>2. e \in EntryKeys(h, mk) /\ key # e
  BY <1>1, KeysApart DEF EntryKeys
<1>3. PICK rest : rest = SlowerFaster!Without(store, {e})
  OBVIOUS
<1>4. PICK rec : rec = IF key \in DOMAIN rest
                       THEN SlowerFaster!Rec("Value", SlowerFaster!VecRmw(
                              SlowerFaster!AsVec(rest[key]), SlowerFaster!Rec("Remove", e)))
                       ELSE SlowerFaster!Rec("Remove", e)
  OBVIOUS
<1>5. u = SlowerFaster!With(rest, key, rec)
  BY <1>1, <1>3, <1>4
     DEF SlowerFaster!Removed, SlowerFaster!RmwVec, ListKey
<1>7. /\ SameBut(store, rest, {e}) /\ DOMAIN rest = DOMAIN store \ {e}
      /\ SameBut(rest, u, {key}) /\ DOMAIN u = DOMAIN rest \cup {key} /\ u[key] = rec
  <2>1. SameBut(store, rest, {e}) /\ DOMAIN rest = DOMAIN store \ {e}
    BY <1>3, WithoutSame
  <2>2. SameBut(rest, u, {key}) /\ DOMAIN u = DOMAIN rest \cup {key} /\ u[key] = rec
    <3>1. /\ SameBut(rest, SlowerFaster!With(rest, key, rec), {key})
          /\ DOMAIN SlowerFaster!With(rest, key, rec) = DOMAIN rest \cup {key}
          /\ SlowerFaster!With(rest, key, rec)[key] = rec
      BY DEF SameBut, SlowerFaster!With
    <3> QED
      BY <1>5, <3>1
  <2> QED
    BY <2>1, <2>2
<1>8. SameBut(store, u, {key} \cup EntryKeys(h, mk))
  <2>1. SameBut(store, u, {e} \cup {key})
    BY <1>7, SameTwice
  <2> QED
    BY <1>2, <2>1 DEF SameBut
<1>9. /\ key \in DOMAIN rest <=> key \in DOMAIN store
      /\ key \in DOMAIN store => rest[key] = store[key]
  BY <1>2, <1>7 DEF SameBut
<1>10. key \notin EntryKeys(h, mk)
  BY <1>1, KeysApart
<1>11. EntryKeys(h, mk) \cap DOMAIN u = (EntryKeys(h, mk) \cap DOMAIN store) \ {e}
  BY <1>2, <1>7, <1>10
<1>12. rec.op \in {"Value", "PushIfAbsent", "Push"} =>
          Names(SlowerFaster!AsVec(rec), (EntryKeys(h, mk) \cap DOMAIN store) \ {e})
  <2>1. CASE key \notin DOMAIN store
    <3>1. rec.op = "Remove"
      BY <1>4, <1>9, <2>1 DEF SlowerFaster!Rec
    <3> QED
      BY <3>1
  <2>2. CASE key \in DOMAIN store
    <3>1. PICK list : list = SlowerFaster!AsVec(store[key])
      OBVIOUS
    <3>2. Names(list, EntryKeys(h, mk) \cap DOMAIN store)
      BY <1>1, <2>2, <3>1 DEF Named, SlowerFaster!CanRmwVec
    <3>3. PICK res : res = SlowerFaster!VecRmw(list, SlowerFaster!Rec("Remove", e))
      OBVIOUS
    <3>4. res = SlowerFaster!RemoveFirst(list, e)
      BY <3>3 DEF SlowerFaster!VecRmw, SlowerFaster!Rec
    <3>5. rec.op = "Value" /\ rec.data = res
      BY <1>4, <1>9, <2>2, <3>1, <3>3 DEF SlowerFaster!Rec
    <3>6. SlowerFaster!AsVec(rec) = res
      BY <3>5 DEF SlowerFaster!AsVec
    <3> QED
      BY <3>2, <3>4, <3>6, NamesRemoved
  <2> QED
    BY <2>1, <2>2
<1>13. Named(u, h, mk)
  BY <1>1, <1>7, <1>11, <1>12 DEF Named, SlowerFaster!IsVec
<1> QED
  BY <1>1, <1>8, <1>13

\* An operation on one map leaves the lists of the others alone.
LEMMA ListedMap ==
    ASSUME NEW t, NEW u, Listed(t), NEW g, NEW mg \in SlowerFaster!Metakeys(g),
           Named(u, g, mg), SameBut(t, u, {ListKey(g, mg)} \cup EntryKeys(g, mg))
    PROVE  Listed(u)
<1> SUFFICES ASSUME NEW h \in MapStates, NEW mk \in SlowerFaster!Metakeys(h)
             PROVE  Named(u, h, mk)
  BY DEF Listed
<1>1. Named(t, h, mk)
  BY DEF Listed
<1>2. CASE g = h /\ mg = mk
  BY <1>2
<1>3. CASE g # h \/ mg # mk
  <2>1. /\ ListKey(h, mk) \notin {ListKey(g, mg)} \cup EntryKeys(g, mg)
        /\ EntryKeys(h, mk) \cap ({ListKey(g, mg)} \cup EntryKeys(g, mg)) = {}
    BY <1>3, KeysApart
  <2> QED
    BY <1>1, <2>1, Untouched
<1> QED
  BY <1>2, <1>3

\* An operation on a state that is no map leaves all lists alone.
LEMMA ListedOther ==
    ASSUME NEW t, NEW u, Listed(t), NEW g, g \notin MapStates,
           NEW mg \in SlowerFaster!Metakeys(g), SameBut(t, u, {ListKey(g, mg)})
    PROVE  Listed(u)
<1> SUFFICES ASSUME NEW h \in MapStates, NEW mk \in SlowerFaster!Metakeys(h)
             PROVE  Named(u, h, mk)
  BY DEF Listed
<1>1. Named(t, h, mk) /\ g # h
  BY DEF Listed
<1>2. ListKey(h, mk) \notin {ListKey(g, mg)} /\ EntryKeys(h, mk) \cap {ListKey(g, mg)} = {}
  BY <1>1, KeysApart
<1> QED
  BY <1>1, <1>2, Untouched

\* Reads and panics change no table.
LEMMA ReadLists ==
    ASSUME NEW h, NEW op, NEW answer, SlowerFaster!Reads(h, op, answer) \/ SlowerFaster!Panics
    PROVE  store' = store /\ saved' = saved
  BY DEF SlowerFaster!Reads, SlowerFaster!Writes, SlowerFaster!Panics
\* Insertions, one or two in a row.
LEMMA InsertLists ==
    ASSUME Listed(store), NEW h \in MapStates, NEW mk \in SlowerFaster!Metakeys(h),
           NEW i \in SlowerFaster!Keys, NEW j \in SlowerFaster!Keys, NEW v, NEW w,
           SlowerFaster!ListUsable(h, mk)
    PROVE  /\ Listed(SlowerFaster!Inserted(store, h, mk, i, v))
           /\ Listed(SlowerFaster!Inserted(
                       SlowerFaster!Inserted(store, h, mk, i, v), h, mk, j, w))
<1>1. Named(store, h, mk) /\ SlowerFaster!CanRmwVec(store, ListKey(h, mk))
  BY DEF Listed, SlowerFaster!ListUsable, ListKey
<1>2. PICK t : t = SlowerFaster!Inserted(store, h, mk, i, v)
  OBVIOUS
<1>3. /\ Named(t, h, mk) /\ SlowerFaster!CanRmwVec(t, ListKey(h, mk))
      /\ SameBut(store, t, {ListKey(h, mk)} \cup EntryKeys(h, mk))
  BY <1>1, <1>2, InsertNames
<1>4. Listed(t)
  BY <1>3, ListedMap
<1>5. PICK u : u = SlowerFaster!Inserted(t, h, mk, j, w)
  OBVIOUS
<1>6. Named(u, h, mk) /\ SameBut(t, u, {ListKey(h, mk)} \cup EntryKeys(h, mk))
  BY <1>3, <1>5, InsertNames
<1>7. Listed(u)
  BY <1>4, <1>6, ListedMap
<1> QED
  BY <1>2, <1>4, <1>5, <1>7
\* Removals.
LEMMA RemoveLists ==
    ASSUME Listed(store), NEW h \in MapStates, NEW mk \in SlowerFaster!Metakeys(h),
           NEW k \in SlowerFaster!Keys, SlowerFaster!ListUsable(h, mk)
    PROVE  Listed(SlowerFaster!Removed(h, mk, k))
<1>1. Named(store, h, mk) /\ SlowerFaster!CanRmwVec(store, ListKey(h, mk))
  BY DEF Listed, SlowerFaster!ListUsable, ListKey
<1>2. PICK u : u = SlowerFaster!Removed(h, mk, k)
  OBVIOUS
<1>3. Named(u, h, mk) /\ SameBut(store, u, {ListKey(h, mk)} \cup EntryKeys(h, mk))
  BY <1>1, <1>2, RemoveNames
<1> QED
  BY <1>2, <1>3, ListedMap
\* What the backend reads as the keys of a map.
LEMMA ListedKeys ==
    ASSUME NEW h, NEW mk, Named(store, h, mk), SlowerFaster!CanGetVec(ListKey(h, mk))
    PROVE  /\ SlowerFaster!KeysOf(h, mk) = EntryKeys(h, mk) \cap DOMAIN store
           /\ Names(SlowerFaster!ListOf(ListKey(h, mk)), SlowerFaster!KeysOf(h, mk))
<1>1. PICK list : list = SlowerFaster!ListOf(ListKey(h, mk))
  OBVIOUS
<1>2. Names(list, EntryKeys(h, mk) \cap DOMAIN store)
  <2>1. CASE ListKey(h, mk) \notin DOMAIN store
    <3>1. list = <<>> /\ EntryKeys(h, mk) \cap DOMAIN store = {}
      BY <1>1, <2>1 DEF SlowerFaster!ListOf, Named
    <3> QED
      BY <3>1 DEF Names
  <2>2. CASE ListKey(h, mk) \in DOMAIN store
    BY <1>1, <2>2 DEF SlowerFaster!ListOf, Named, SlowerFaster!CanGetVec
  <2> QED
    BY <2>1, <2>2
<1>3. /\ DOMAIN list = 1..Len(list)
      /\ \A i \in 1..Len(list) : list[i] \in EntryKeys(h, mk) \cap DOMAIN store
  BY <1>2 DEF Names
<1>4. SlowerFaster!ToSet(list) = EntryKeys(h, mk) \cap DOMAIN store
  BY <1>2, <1>3 DEF SlowerFaster!ToSet, Names
<1>5. SlowerFaster!KeysOf(h, mk) = EntryKeys(h, mk) \cap DOMAIN store
  BY <1>1, <1>4 DEF SlowerFaster!KeysOf, ListKey
<1> QED
  BY <1>1, <1>2, <1>5

\* A list has as many members as it names.
LEMMA NamesCount ==
    ASSUME NEW list, NEW S, Names(list, S)
    PROVE  Len(list) = Cardinality(S)
<1>1. list \in Seq(S) /\ Len(list) \in Nat
  BY DEF Names
<1>2. list \in Bijection(1..Len(list), S)
  <2>1. list \in [1..Len(list) -> S]
    BY <1>1
  <2>2. list \in Injection(1..Len(list), S)
    BY <2>1 DEF Names, Injection, IsInjective
  <2>3. list \in Surjection(1..Len(list), S)
    BY <2>1 DEF Names, Surjection
  <2> QED
    BY <2>2, <2>3 DEF Bijection
<1>3. ExistsBijection(1..Len(list), S)
  BY <1>2 DEF ExistsBijection
<1> QED
  BY <1>1, <1>3, FS_CountingElements

\* A map that is cleared has neither a list nor entries.
LEMMA ClearLists ==
    ASSUME Listed(store), NEW h \in MapStates, NEW mk \in SlowerFaster!Metakeys(h),
           SlowerFaster!CanScan(h, mk)
    PROVE  Listed(SlowerFaster!Without(store, {SlowerFaster!Key(h, mk)}
                                                \cup SlowerFaster!KeysOf(h, mk)))
<1>1. PICK u, K : /\ K = {ListKey(h, mk)} \cup SlowerFaster!KeysOf(h, mk)
                  /\ u = SlowerFaster!Without(store, K)
  OBVIOUS
<1>2. SlowerFaster!KeysOf(h, mk) = EntryKeys(h, mk) \cap DOMAIN store
  BY ListedKeys DEF Listed, SlowerFaster!CanScan, ListKey
<1>3. SameBut(store, u, K) /\ DOMAIN u = DOMAIN store \ K
  BY <1>1, WithoutSame
<1>4. SameBut(store, u, {ListKey(h, mk)} \cup EntryKeys(h, mk))
  BY <1>1, <1>2, <1>3 DEF SameBut
<1>5. Named(u, h, mk)
  BY <1>1, <1>2, <1>3 DEF Named
<1> QED
  BY <1>1, <1>4, <1>5, ListedMap DEF ListKey

\* The key of a state that is no map is written or removed.
LEMMA OtherLists ==
    ASSUME Listed(store), NEW h, h \notin MapStates, NEW mk \in SlowerFaster!Metakeys(h), NEW v
    PROVE  /\ Listed(SlowerFaster!With(store, SlowerFaster!Key(h, mk), v))
           /\ Listed(SlowerFaster!Without(store, {SlowerFaster!Key(h, mk)}))
<1>1. PICK t, u : /\ t = SlowerFaster!With(store, ListKey(h, mk), v)
                  /\ u = SlowerFaster!Without(store, {ListKey(h, mk)})
  OBVIOUS
<1>2. SameBut(store, t, {ListKey(h, mk)})
  BY <1>1 DEF SameBut, SlowerFaster!With
<1>3. SameBut(store, u, {ListKey(h, mk)})
  BY <1>1 DEF SameBut, SlowerFaster!Without
<1>4. Listed(t) /\ Listed(u)
  BY <1>2, <1>3, ListedOther
<1> QED
  BY <1>1, <1>4 DEF ListKey

\* The operations of a map.
LEMMA MapLists ==
    ASSUME Listed(store), NEW h \in MapStates, NEW mk \in SlowerFaster!Metakeys(h),
           SlowerFaster!MapOps(h, mk)
    PROVE  Listed(store') /\ saved' = saved
<1>1. CASE store' = store /\ saved' = saved
  BY <1>1
<1>2. CASE SlowerFaster!MapClear(h, mk)
  BY <1>1, <1>2, ClearLists, ReadLists DEF SlowerFaster!MapClear, SlowerFaster!Writes
<1>3. ASSUME NEW k \in SlowerFaster!Keys,
             SlowerFaster!MapRemove(h, mk, k) \/ SlowerFaster!MapFastRemove(h, mk, k)
      PROVE  Listed(store') /\ saved' = saved
  BY <1>1, <1>3, RemoveLists, ReadLists
     DEF SlowerFaster!MapRemove, SlowerFaster!MapFastRemove, SlowerFaster!Writes
<1>4. ASSUME NEW k \in SlowerFaster!Keys, NEW v,
             SlowerFaster!MapInsert(h, mk, k, v) \/ SlowerFaster!MapFastInsert(h, mk, k, v)
      PROVE  Listed(store') /\ saved' = saved
  BY <1>1, <1>4, InsertLists, ReadLists
     DEF SlowerFaster!MapInsert, SlowerFaster!MapFastInsert, SlowerFaster!Writes
<1>5. ASSUME NEW i \in SlowerFaster!Keys, NEW j \in SlowerFaster!Keys, NEW v, NEW w,
             SlowerFaster!MapInsertAll(h, mk, i, v, j, w)
      PROVE  Listed(store') /\ saved' = saved
  BY <1>1, <1>5, InsertLists, ReadLists DEF SlowerFaster!MapInsertAll, SlowerFaster!Writes
<1>6. ASSUME NEW k \in SlowerFaster!Keys,
             SlowerFaster!MapGet(h, mk, k) \/ SlowerFaster!MapContains(h, mk, k)
      PROVE  Listed(store') /\ saved' = saved
  BY <1>1, <1>6, ReadLists DEF SlowerFaster!MapGet, SlowerFaster!MapContains
<1>7. ASSUME \/ SlowerFaster!MapIter(h, mk) \/ SlowerFaster!MapKeys(h, mk)
             \/ SlowerFaster!MapValues(h, mk) \/ SlowerFaster!MapLen(h, mk)
             \/ SlowerFaster!MapIsEmpty(h, mk)
      PROVE  Listed(store') /\ saved' = saved
  BY <1>1, <1>7, ReadLists
     DEF SlowerFaster!MapIter, SlowerFaster!MapKeys, SlowerFaster!MapValues,
         SlowerFaster!MapLen, SlowerFaster!MapIsEmpty
<1> QED
  BY <1>2, <1>3, <1>4, <1>5, <1>6, <1>7 DEF SlowerFaster!MapOps

\* The operations of the other states write or remove the state's own key.
LEMMA NoMapLists ==
    ASSUME Listed(store), NEW h, h \notin MapStates, NEW mk \in SlowerFaster!Metakeys(h),
           \/ SlowerFaster!ValueOps(h, mk) \/ SlowerFaster!VecOps(h, mk)
           \/ SlowerFaster!ReducerOps(h, mk) \/ SlowerFaster!AggregatorOps(h, mk)
    PROVE  Listed(store') /\ saved' = saved
<1>1. CASE store' = store /\ saved' = saved
  BY <1>1
<1>2. ASSUME NEW v, NEW op, NEW answer,
             SlowerFaster!Writes(h, SlowerFaster!With(store, SlowerFaster!Key(h, mk), v), op, answer)
      PROVE  Listed(store') /\ saved' = saved
  BY <1>2, OtherLists DEF SlowerFaster!Writes
<1>3. ASSUME NEW op, NEW answer,
             SlowerFaster!Writes(h, SlowerFaster!Without(store, {SlowerFaster!Key(h, mk)}), op, answer)
      PROVE  Listed(store') /\ saved' = saved
  BY <1>3, OtherLists DEF SlowerFaster!Writes
<1>4. CASE SlowerFaster!ValueOps(h, mk)
  BY <1>1, <1>2, <1>3, <1>4, ReadLists
     DEF SlowerFaster!ValueOps, SlowerFaster!ValueClear, SlowerFaster!ValueGet,
         SlowerFaster!ValueSet, SlowerFaster!ValueFastSet, SlowerFaster!Put
<1>5. CASE SlowerFaster!VecOps(h, mk)
  BY <1>1, <1>2, <1>3, <1>5, ReadLists
     DEF SlowerFaster!VecOps, SlowerFaster!VecClear, SlowerFaster!VecGet,
         SlowerFaster!VecIter, SlowerFaster!VecLen, SlowerFaster!VecIsEmpty,
         SlowerFaster!VecAppend, SlowerFaster!VecSet, SlowerFaster!VecAddAll,
         SlowerFaster!RmwVec
<1>6. CASE SlowerFaster!ReducerOps(h, mk)
  BY <1>1, <1>2, <1>3, <1>6, ReadLists
     DEF SlowerFaster!ReducerOps, SlowerFaster!ReducerClear, SlowerFaster!ReducerGet,
         SlowerFaster!ReducerReduce, SlowerFaster!Aggregate
<1>7. CASE SlowerFaster!AggregatorOps(h, mk)
  BY <1>1, <1>2, <1>3, <1>7, ReadLists
     DEF SlowerFaster!AggregatorOps, SlowerFaster!AggregatorClear,
         SlowerFaster!AggregatorGet, SlowerFaster!AggregatorAggregate, SlowerFaster!Aggregate
<1> QED
  BY <1>4, <1>5, <1>6, <1>7

\* The lists, from the first state on.
LEMMA FasterInit == Init => FasterInv
<1> SUFFICES ASSUME Init, backend = "SlowerFaster" PROVE Listed(store) /\ Listed(saved)
  BY DEF FasterInv
<1>1. Faster!Init
  BY DEF Init
<1>2. DOMAIN store = {} /\ DOMAIN saved = {}
  BY <1>1 DEF Faster!Init, Faster!EmptyTable
<1> QED
  BY <1>2 DEF Listed, Named
\* Every step keeps them.
LEMMA FasterStep == FasterInv /\ [Next]_vars => FasterInv'
<1> SUFFICES ASSUME FasterInv, [Next]_vars, backend' = "SlowerFaster"
             PROVE  Listed(store') /\ Listed(saved')
  BY DEF FasterInv, Listed, Named
<1>1. CASE UNCHANGED vars
  BY <1>1 DEF FasterInv, vars
<1>2. CASE Next
  <2>1. backend = "SlowerFaster" /\ Listed(store) /\ Listed(saved)
    BY <1>2 DEF Next, FasterInv
  <2>2. SlowerFaster!Step \/ \E h \in declared : Faster!Register(h)
    BY <1>2, <2>1 DEF Next, Step, Register
  <2>3. ASSUME NEW h, Faster!Register(h) PROVE Listed(store') /\ Listed(saved')
    BY <2>1, <2>3 DEF Faster!Register
  <2>4. CASE SlowerFaster!Checkpoint \/ SlowerFaster!Restart
    BY <2>1, <2>4 DEF SlowerFaster!Checkpoint, SlowerFaster!Restart
  <2>5. ASSUME NEW h, NEW mk \in SlowerFaster!Metakeys(h),
               \/ h \in ValueStates /\ SlowerFaster!ValueOps(h, mk)
               \/ h \in MapStates /\ SlowerFaster!MapOps(h, mk)
               \/ h \in VecStates /\ SlowerFaster!VecOps(h, mk)
               \/ h \in ReducerStates /\ SlowerFaster!ReducerOps(h, mk)
               \/ h \in AggregatorStates /\ SlowerFaster!AggregatorOps(h, mk)
        PROVE  Listed(store') /\ Listed(saved')
    <3>1. CASE h \in MapStates
      BY <2>1, <2>5, <3>1, MapLists, IdsAssumption
    <3>2. CASE h \notin MapStates
      BY <2>1, <2>5, <3>2, NoMapLists
    <3> QED
      BY <3>1, <3>2
  <2> QED
    BY <2>2, <2>3, <2>4, <2>5 DEF SlowerFaster!Step
<1> QED
  BY <1>1, <1>2

(* With slower_faster the list of a map's keys names each of its entries once  *)
(* and nothing else, after any operations on any states, checkpoints and       *)
(* restarts: insertions add a key that is not there yet, removals strike it,   *)
(* and no key of the database belongs to two states (map_ops.rs).              *)
THEOREM ListsNameEntries == Spec => []ListNamesEntries
<1>1. FasterInv => ListNamesEntries
  <2> SUFFICES ASSUME Listed(store), NEW h \in MapStates, NEW mk \in SlowerFaster!Metakeys(h),
                      SlowerFaster!CanGetVec(SlowerFaster!Key(h, mk))
               PROVE  /\ SlowerFaster!KeysOf(h, mk) =
                           {SlowerFaster!EntryKey(h, mk, k) : k \in SlowerFaster!Keys}
                               \cap DOMAIN store
                      /\ Len(SlowerFaster!ListOf(SlowerFaster!Key(h, mk))) =
                           SlowerFaster!Cardinality(SlowerFaster!KeysOf(h, mk))
    BY DEF FasterInv, ListNamesEntries, SlowerFaster!ListNamesEntries
  <2>1. Named(store, h, mk)
    BY DEF Listed
  <2>2. /\ SlowerFaster!KeysOf(h, mk) = EntryKeys(h, mk) \cap DOMAIN store
        /\ Names(SlowerFaster!ListOf(ListKey(h, mk)), SlowerFaster!KeysOf(h, mk))
    BY <2>1, ListedKeys DEF ListKey
  <2>3. Len(SlowerFaster!ListOf(ListKey(h, mk))) = Cardinality(SlowerFaster!KeysOf(h, mk))
    BY <2>2, NamesCount
  <2>4. SlowerFaster!Cardinality(SlowerFaster!KeysOf(h, mk)) =
            Cardinality(SlowerFaster!KeysOf(h, mk))
    BY DEF SlowerFaster!Cardinality, Cardinality
  <2> QED
    BY <2>2, <2>3, <2>4 DEF EntryKeys, ListKey
<1> QED
  BY <1>1, FasterInit, FasterStep, PTL DEF Spec

(****************************************************************************)
(* The Metered backend around one of the others: its buffer of data points. *)
(****************************************************************************)
\* The buffer has its length's room, a place has the newest of the data points
\* that go there, and all of the newest are there.
RingInv ==
    /\ num_pushed \in Nat
    /\ \E cap \in Nat :
         /\ DOMAIN storage = 0 .. (cap - 1)
         /\ phase = "open" => cap > 0
         /\ cap = 0 => num_pushed = 0
         /\ \A m \in Nat : m < num_pushed /\ num_pushed <= m + cap =>
              storage[m % cap].start = m

\* The remainder by a positive number is a place of the buffer.
LEMMA PlaceInBuffer ==
    ASSUME NEW m \in Nat, NEW cap \in Nat, cap > 0
    PROVE  m % cap \in 0 .. (cap - 1)
    OBVIOUS

\* Data points less than a buffer apart go to different places.
LEMMA PlacesDiffer ==
    ASSUME NEW m \in Nat, NEW n \in Nat, NEW cap \in Nat, cap > 0, m < n, n < m + cap
    PROVE  m % cap # n % cap
<1> SUFFICES ASSUME m % cap = n % cap PROVE FALSE
  OBVIOUS
<1> DEFINE p == m \div cap
           q == n \div cap
<1>1. /\ p \in Int /\ q \in Int
      /\ m = (cap * p) + (m % cap) /\ n = (cap * q) + (n % cap)
  OBVIOUS
<1>2. n - m = cap * (q - p)
  <2> HIDE DEF p, q
  <2>1. m % cap \in Int
    OBVIOUS
  <2> QED
    BY <1>1, <2>1
<1>3. 0 < cap * (q - p) /\ cap * (q - p) < cap
  BY <1>2
<1>4. q - p \in Int
  BY <1>1
<1> HIDE DEF p, q
<1> QED
  <2>1. CASE q - p <= 0
    <3>1. cap * (q - p) <= 0
      BY <1>4, <2>1
    <3> QED
      BY <3>1, <1>3, <1>4
  <2>2. CASE q - p >= 1
    <3>1. cap * (q - p) >= cap
      BY <1>4, <2>2
    <3> QED
      BY <3>1, <1>3, <1>4
  <2> QED
    BY <1>4, <2>1, <2>2

\* The number of places is the length of the buffer.
LEMMA RoomIsCapacity ==
    ASSUME NEW cap \in Nat, DOMAIN storage = 0 .. (cap - 1)
    PROVE  Capacity = cap
<1>1. Cardinality(0 .. (cap - 1)) = cap
  <2>1. CASE cap = 0
    <3>1. 0 .. (cap - 1) = {}
      BY <2>1
    <3> QED
      BY <3>1, <2>1, FS_EmptySet
  <2>2. CASE cap > 0
    BY <2>2, FS_Interval
  <2> QED
    BY <2>1, <2>2
<1> QED
  BY <1>1 DEF Capacity

\* A place of the buffer is written with the next data point.
LEMMA PushKeepsRing ==
    ASSUME RingInv, phase = "open", NEW operation, NEW duration, Push(operation, duration),
           phase' = "open"
    PROVE  RingInv'
<1>1. PICK cap \in Nat :
        /\ DOMAIN storage = 0 .. (cap - 1)
        /\ cap > 0
        /\ \A m \in Nat : m < num_pushed /\ num_pushed <= m + cap =>
             storage[m % cap].start = m
  BY DEF RingInv
<1>2. num_pushed \in Nat
  BY DEF RingInv
<1>3. PICK dp : dp = DataPoint(operation, duration, num_pushed)
  OBVIOUS
<1>4. dp.start = num_pushed
  BY <1>3 DEF DataPoint
<1>5. PICK at \in 0 .. (cap - 1) : at = num_pushed % cap
  BY <1>1, <1>2, PlaceInBuffer
<1>6. /\ storage' = [storage EXCEPT ![at] = dp] /\ num_pushed' = num_pushed + 1
  BY <1>1, <1>3, <1>5, RoomIsCapacity DEF Push, Slot
<1>7. DOMAIN storage' = 0 .. (cap - 1)
  BY <1>1, <1>6
<1>8. ASSUME NEW m \in Nat, m < num_pushed', num_pushed' <= m + cap
      PROVE  storage'[m % cap].start = m
  <2>1. CASE m = num_pushed
    BY <2>1, <1>1, <1>4, <1>5, <1>6
  <2>2. CASE m < num_pushed
    <3>1. m % cap # at
      <4>1. num_pushed < m + cap
        BY <1>8, <1>2, <1>6
      <4> QED
        BY <4>1, <2>2, <1>1, <1>2, <1>5, PlacesDiffer
    <3>2. m % cap \in 0 .. (cap - 1)
      BY <1>1, PlaceInBuffer
    <3>3. storage[m % cap].start = m
      BY <2>2, <1>8, <1>1, <1>2, <1>6
    <3> QED
      BY <3>1, <3>2, <3>3, <1>1, <1>6
  <2> QED
    BY <2>1, <2>2, <1>8, <1>2, <1>6
<1>9. num_pushed' \in Nat
  BY <1>2, <1>6
<1>10. \E c \in Nat :
         /\ DOMAIN storage' = 0 .. (c - 1)
         /\ phase' = "open" => c > 0
         /\ c = 0 => num_pushed' = 0
         /\ \A m \in Nat : m < num_pushed' /\ num_pushed' <= m + c =>
              storage'[m % c].start = m
  <2>1. cap > 0 /\ (cap = 0 => num_pushed' = 0)
    BY <1>1
  <2> WITNESS cap \in Nat
  <2> QED
    BY <1>7, <1>8, <2>1
<1> QED
  BY <1>9, <1>10 DEF RingInv

\* Metrics::new and the first data point, or the panic of a buffer without room.
LEMMA OpenKeepsRing ==
    ASSUME NEW operation, NEW cap \in Nat, NEW duration, Open(operation, cap, duration)
    PROVE  RingInv'
<1>1. CASE cap = 0
  <2>1. /\ DOMAIN storage' = 0 .. (cap - 1) /\ num_pushed' = 0 /\ phase' = "panicked"
    BY <1>1 DEF Open, NewMetrics, Min2
  <2> QED
    BY <2>1, <1>1 DEF RingInv
<1>2. CASE cap > 0
  <2>1. 0 % cap = 0 /\ 0 \in 0 .. (cap - 1)
    BY <1>2
  <2>2. PICK dp : dp = DataPoint(operation, duration, 0)
    OBVIOUS
  <2>3. dp.start = 0
    BY <2>2 DEF DataPoint
  <2>4. storage' = [NewMetrics(cap) EXCEPT ![0] = dp]
    <3>1. storage' = [NewMetrics(cap) EXCEPT
                        ![Slot(cap, 0)] = DataPoint(operation, duration, 0)]
      BY <1>2 DEF Open
    <3>2. Slot(cap, 0) = 0
      BY <2>1 DEF Slot
    <3> QED
      BY <3>1, <3>2, <2>2
  <2>5. /\ DOMAIN storage' = 0 .. (cap - 1) /\ storage'[0].start = 0
    BY <2>1, <2>3, <2>4 DEF NewMetrics
  <2>6. num_pushed' = 1
    BY <1>2 DEF Open, Min2
  <2>7. \A m \in Nat : m < num_pushed' => m = 0
    BY <2>6
  <2> QED
    BY <2>1, <2>5, <2>6, <2>7, <1>2 DEF RingInv
<1> QED
  BY <1>1, <1>2

\* Every action of the backend keeps the ring.
LEMMA RingStep == Capacities \subseteq Nat /\ RingInv /\ [MeteredNext]_metered => RingInv'
<1> SUFFICES ASSUME Capacities \subseteq Nat, RingInv, [MeteredNext]_metered PROVE RingInv'
  OBVIOUS
<1>1. ASSUME NEW d, NEW op, NEW cap \in Capacities, Open(op, cap, d) PROVE RingInv'
  BY <1>1, OpenKeepsRing
<1>2. ASSUME NEW d, NEW op, Measure(op, d) PROVE RingInv'
  BY <1>2, PushKeepsRing DEF Measure
<1>3. ASSUME NEW d, NEW op, OpenIterator(op, d) PROVE RingInv'
  BY <1>3, PushKeepsRing DEF OpenIterator
<1>4. ASSUME NEW d, NEW k, NextItem(k, d) PROVE RingInv'
  BY <1>4, PushKeepsRing DEF NextItem
<1>5. ASSUME NEW k, DropIterator(k) PROVE RingInv'
  BY <1>5 DEF DropIterator, RingInv
<1>6. CASE UNCHANGED metered
  BY <1>6 DEF metered, RingInv
<1> QED
  BY <1>1, <1>2, <1>3, <1>4, <1>5, <1>6 DEF MeteredNext

\* The entries that the buffer shows are the newest data points.
LEMMA RingKeepsNewest == RingInv => KeepsNewest
<1> SUFFICES ASSUME RingInv PROVE KeepsNewest
  OBVIOUS
<1>1. PICK cap \in Nat :
        /\ DOMAIN storage = 0 .. (cap - 1)
        /\ cap = 0 => num_pushed = 0
        /\ \A m \in Nat : m < num_pushed /\ num_pushed <= m + cap =>
             storage[m % cap].start = m
  BY DEF RingInv
<1>2. num_pushed \in Nat /\ Capacity = cap
  BY <1>1, RoomIsCapacity DEF RingInv
<1>3. PICK held \in Nat : held = Min2(num_pushed, cap)
  BY <1>2 DEF Min2
<1>4. held <= num_pushed /\ held <= cap /\ (held = num_pushed \/ held = cap)
  BY <1>2, <1>3 DEF Min2
<1>5. Entries = [i \in 1 .. held |-> storage[i - 1]]
  <2>1. CASE num_pushed > cap
    <3>1. held = cap
      BY <2>1, <1>2, <1>3 DEF Min2
    <3> QED
      BY <2>1, <3>1, <1>2 DEF Entries
  <2>2. CASE ~ (num_pushed > cap)
    <3>1. held = num_pushed
      BY <2>2, <1>2, <1>3 DEF Min2
    <3> QED
      BY <2>2, <3>1, <1>2 DEF Entries
  <2> QED
    BY <2>1, <2>2
<1>6. PICK es : es = Entries
  OBVIOUS
<1>7. DOMAIN es = 1 .. held /\ \A i \in 1 .. held : es[i] = storage[i - 1]
  BY <1>5, <1>6
<1>8. ASSUME NEW i \in 1 .. held
      PROVE  es[i].start \in (num_pushed - held) .. (num_pushed - 1)
  <2>0. PICK p \in Nat : p = i - 1 /\ p < held
    BY <1>8
  <2>1. cap > 0
    BY <1>4, <2>0
  <2>2. PICK m \in Nat : m < num_pushed /\ num_pushed <= m + cap /\ m % cap = p
    <3>1. CASE held = num_pushed
      <4>1. p % cap = p
        BY <2>0, <1>4, <2>1
      <4> QED
        BY <4>1, <3>1, <2>0, <1>4
    <3>2. CASE held = cap
      \* Going back from the newest, the places come one after another.
      <4>1. PICK r \in 0 .. (cap - 1), q \in Nat : num_pushed = (cap * q) + r
        <5>1. /\ num_pushed % cap \in 0 .. (cap - 1) /\ num_pushed \div cap \in Nat
              /\ num_pushed = (cap * (num_pushed \div cap)) + (num_pushed % cap)
          BY <1>2, <2>1
        <5> QED
          BY <5>1
      <4>2. CASE p < r
        <5>1. (cap * q) + p \in Nat /\ ((cap * q) + p) % cap = p
          BY <2>1, <2>0, <4>1, <1>4
        <5>2. (cap * q) + p < num_pushed /\ num_pushed <= ((cap * q) + p) + cap
          <6> PICK t \in Nat : t = cap * q
            BY <4>1
          <6> QED
            BY <4>1, <4>2, <2>0
        <5> QED
          BY <5>1, <5>2
      <4>3. CASE p >= r
        <5>1. q >= 1
          <6>1. CASE q = 0
            BY <6>1, <4>1, <1>4, <3>2
          <6> QED
            BY <6>1, <4>1
        <5>2. PICK u \in Nat : u = q - 1
          BY <5>1, <4>1
        <5>3. cap * q = (cap * u) + cap
          BY <5>2, <4>1
        <5>4. (cap * u) + p \in Nat /\ ((cap * u) + p) % cap = p
          BY <2>1, <2>0, <5>2, <3>2
        <5>5. (cap * u) + p < num_pushed /\ num_pushed <= ((cap * u) + p) + cap
          <6> PICK t \in Nat : t = cap * u
            BY <5>2
          <6> QED
            BY <4>1, <4>3, <5>3, <2>0, <3>2
        <5> QED
          BY <5>4, <5>5
      <4> QED
        BY <4>1, <4>2, <4>3, <2>0
    <3> QED
      BY <3>1, <3>2, <1>4
  <2>3. storage[p].start = m
    BY <2>2, <1>1
  <2>4. es[i].start = m
    BY <2>3, <2>0, <1>7
  <2>5. num_pushed - held <= m
    BY <2>2, <1>2, <1>4
  <2> QED
    BY <2>2, <2>4, <2>5, <1>2, <1>4
<1>9. ASSUME NEW m \in (num_pushed - held) .. (num_pushed - 1)
      PROVE  \E i \in 1 .. held : es[i].start = m
  <2>1. m \in Nat /\ m < num_pushed /\ num_pushed <= m + held
    BY <1>2, <1>4
  <2>2. cap > 0 /\ num_pushed <= m + cap
    BY <2>1, <1>1, <1>2, <1>4
  <2>3. PICK p \in 0 .. (cap - 1) : p = m % cap
    BY <2>1, <2>2, PlaceInBuffer
  <2>4. storage[p].start = m
    BY <2>1, <2>2, <2>3, <1>1
  <2>5. p < held
    <3>1. CASE held = num_pushed
      <4>1. m < cap
        BY <3>1, <2>1, <1>4
      <4>2. m % cap = m
        BY <4>1, <2>1, <2>2
      <4> QED
        BY <4>2, <3>1, <2>1, <2>3
    <3> QED
      BY <3>1, <1>4, <2>3
  <2>6. p + 1 \in 1 .. held /\ (p + 1) - 1 = p
    BY <2>3, <2>5
  <2> QED
    BY <2>4, <2>6, <1>7
<1>10. {es[i].start : i \in DOMAIN es} = (num_pushed - held) .. (num_pushed - 1)
  BY <1>7, <1>8, <1>9
<1> QED
  BY <1>10, <1>2, <1>3, <1>6 DEF KeepsNewest

\* For every length of the buffer, what it keeps are the newest data points, as
\* many as there are or as fit (Metrics, "overwriting the oldest entries").
THEOREM NewestAreKept == MeteredSpec => []KeepsNewest
<1>1. MeteredInit => RingInv
  BY DEF MeteredInit, RingInv, NewMetrics
<1>2. RingInv /\ [MeteredNext]_metered => RingInv'
  BY RingStep, MeteredAssumption
<1> QED
  BY <1>1, <1>2, RingKeepsNewest, PTL DEF MeteredSpec

(****************************************************************************)
(* InMemory implements KeyedState.                                           *)
(****************************************************************************)

\* The operators of StateKeys are the same in every module that has them.
LEMMA SameBytes ==
    /\ InMemory!EmptyTable = EmptyTable /\ InMemory!Keys = Keys /\ InMemory!Values = Values
    /\ InMemory!Handles = Handles
    /\ \A h : InMemory!Metakeys(h) = Metakeys(h) /\ Keyed!Metakeys(h) = Metakeys(h)
    /\ \A mk : InMemory!SerializeMetakeys(mk) = SerializeMetakeys(mk)
    /\ \A mk, k : InMemory!SerializeMetakeysAndKey(mk, k) = SerializeMetakeysAndKey(mk, k)
    /\ \A n, b : InMemory!KeyAfter(n, b) = KeyAfter(n, b)
    /\ Keyed!Keys = Keys /\ Keyed!Values = Values /\ Keyed!Handles = Handles
<1>1. \A k : InMemory!Serialize(k) = Serialize(k)
  BY DEF InMemory!Serialize, Serialize, InMemory!Payload, Payload
<1>2. \A mk : InMemory!SerializeMetakeys(mk) = SerializeMetakeys(mk)
  BY DEF InMemory!SerializeMetakeys, SerializeMetakeys, InMemory!FixedBytes, FixedBytes
<1>3. \A mk, k : InMemory!SerializeMetakeysAndKey(mk, k) = SerializeMetakeysAndKey(mk, k)
  BY <1>1, <1>2 DEF InMemory!SerializeMetakeysAndKey, SerializeMetakeysAndKey
<1>4. \A n, b : InMemory!KeyAfter(n, b) = KeyAfter(n, b)
  BY DEF InMemory!KeyAfter, KeyAfter, InMemory!Deserialize, Deserialize
<1>5. \A h : InMemory!Metakeys(h) = Metakeys(h) /\ Keyed!Metakeys(h) = Metakeys(h)
  BY DEF InMemory!Metakeys, Keyed!Metakeys, Metakeys
<1> QED
  BY <1>2, <1>3, <1>4, <1>5 DEF InMemory!EmptyTable, EmptyTable, InMemory!Keys, Keys, InMemory!Values, Values,
     InMemory!Handles, Handles, Keyed!Keys, Keyed!Values, Keyed!Handles

\* And those on tables.
LEMMA SameTables ==
    /\ \A t, key : InMemory!Lookup(t, key) = Lookup(t, key)
    /\ \A t, key, v : InMemory!With(t, key, v) = With(t, key, v)
    /\ \A t, K : InMemory!Without(t, K) = Without(t, K)
    /\ \A t, p : InMemory!WithPrefix(t, p) = WithPrefix(t, p)
    /\ \A es : InMemory!CountOf(es) = CountOf(es) /\ Keyed!CountOf(es) = CountOf(es)
    /\ \A S : InMemory!Cardinality(S) = Cardinality(S) /\ Keyed!Cardinality(S) = Cardinality(S)
<1>0. \A S : InMemory!Cardinality(S) = Cardinality(S) /\ Keyed!Cardinality(S) = Cardinality(S)
  BY DEF InMemory!Cardinality, Keyed!Cardinality, Cardinality
<1>1. \A es : InMemory!CountOf(es) = CountOf(es) /\ Keyed!CountOf(es) = CountOf(es)
  BY <1>0 DEF InMemory!CountOf, CountOf, InMemory!Values, Values, Keyed!CountOf, Keyed!Values
<1>2. \A t, p : InMemory!WithPrefix(t, p) = WithPrefix(t, p)
  <2>1. \A s, b : InMemory!IsPrefix(s, b) <=> IsPrefix(s, b)
    BY DEF InMemory!IsPrefix, IsPrefix
  <2> QED
    BY <2>1 DEF InMemory!WithPrefix, WithPrefix
<1> QED
  BY <1>0, <1>1, <1>2 DEF InMemory!Lookup, Lookup, InMemory!With, With, InMemory!Without, Without

\* The bytes of the metakeys tell them,
LEMMA MetakeyOf ==
    ASSUME NEW h, NEW mk \in Metakeys(h), NEW mg \in Metakeys(h), NEW m, m = SerializeMetakeys(mk),
           NEW g, g = SerializeMetakeys(mg)
    PROVE  /\ m \in Seq(Nat) /\ g \in Seq(Nat) /\ Len(m) = Len(g) /\ Len(m) \in Nat /\ Len(mk) = Len(m)
           /\ (\A i \in 1..Len(m) : m[i] = g[i]) => mk = mg
<1>1. \A x : SlowerFaster!SerializeMetakeys(x) = SerializeMetakeys(x)
  BY DEF SlowerFaster!SerializeMetakeys, SerializeMetakeys, SlowerFaster!FixedBytes, FixedBytes
<1>2. SlowerFaster!Metakeys(h) = Metakeys(h)
  BY DEF SlowerFaster!Metakeys, Metakeys
<1>3. /\ m \in Seq(Nat) /\ g \in Seq(Nat)
      /\ h \in UnitStates => mk = <<>> /\ mg = <<>> /\ Len(m) = 0 /\ Len(g) = 0
      /\ h \notin UnitStates => Len(m) = 2 /\ Len(g) = 2 /\ mk = <<m[1], m[2]>> /\ mg = <<g[1], g[2]>>
  BY <1>1, <1>2, MetakeyBytes
<1>4. CASE h \in UnitStates
  <2>1. Len(<<>>) = 0
    OBVIOUS
  <2> QED
    BY <1>3, <1>4, <2>1
<1>5. CASE h \notin UnitStates
  <2>0. 1 \in 1..2 /\ 2 \in 1..2
    OBVIOUS
  <2>1. PICK a, b, c, d : a = m[1] /\ b = m[2] /\ c = g[1] /\ d = g[2]
    OBVIOUS
  <2>2. mk = <<a, b>> /\ mg = <<c, d>> /\ Len(m) = 2 /\ Len(g) = 2
    BY <1>3, <1>5, <2>1
  <2>3. Len(mk) = 2
    BY <2>2
  <2>4. (\A i \in 1..Len(m) : m[i] = g[i]) => a = c /\ b = d
    BY <2>0, <2>1, <2>2
  <2>5. Len(m) \in Nat /\ Len(m) = Len(g) /\ Len(mk) = Len(m)
    BY <2>2, <2>3
  <2>6. a = c /\ b = d => mk = mg
    BY <2>2
  <2> QED
    BY <1>3, <2>4, <2>5, <2>6
<1> QED
  BY <1>4, <1>5

\* and the bytes of a number the number.
LEMMA KeyOf ==
    ASSUME NEW k \in Nat, NEW b, b = Serialize(k)
    PROVE  /\ b \in Seq(Nat) /\ Len(b) \in 1..2 /\ Deserialize(b) = k
<1>1. k \in Nat
  OBVIOUS
<1>2. b \in Seq(Nat) /\ Len(b) \in 1..2
  BY KeyBytes DEF SlowerFaster!Serialize, Serialize, SlowerFaster!Payload, Payload
<1>3. CASE k = 0
  <2>0. PICK e : e = <<>> /\ e \in Seq(Nat) /\ Len(e) = 0
    <3>1. <<>> \in Seq(Nat) /\ Len(<<>>) = 0
      OBVIOUS
    <3> QED
      BY <3>1
  <2>1. b = <<0>> \o e
    BY <1>3, <2>0 DEF Serialize, Payload
  <2>2. b[1] = 0
    BY <2>0, <2>1, Prefixed
  <2>3. Head(b) = 0
    BY <1>2, <2>2
  <2> QED
    BY <1>2, <1>3, <2>3 DEF Deserialize
<1>4. CASE k # 0
  <2>0. PICK e : e = <<k>> /\ e \in Seq(Nat) /\ Len(e) = 1
    <3>1. <<k>> \in Seq(Nat) /\ Len(<<k>>) = 1
      BY <1>1
    <3> QED
      BY <3>1
  <2>1. b = <<1>> \o <<k>>
    BY <1>4, <2>0 DEF Serialize, Payload
  <2>2. b[1] = 1 /\ b[2] = k
    BY <1>1, <2>1, TwoBytes
  <2>3. Head(b) = 1
    BY <1>2, <2>2
  <2> QED
    BY <1>2, <2>2, <2>3 DEF Deserialize
<1> QED
  BY <1>2, <1>3, <1>4

\* What follows a prefix.
LEMMA BehindPrefix ==
    ASSUME NEW S, NEW m \in Seq(S), NEW b \in Seq(S), NEW e, e = m \o b
    PROVE  /\ e \in Seq(S) /\ Len(e) = Len(m) + Len(b)
           /\ \A i \in 1..Len(m) : e[i] = m[i]
           /\ SubSeq(e, Len(m) + 1, Len(e)) = b
<1>1. PICK x \in Nat, y \in Nat : x = Len(m) /\ y = Len(b)
  OBVIOUS
<1>2. /\ e \in Seq(S) /\ Len(e) = x + y
      /\ \A i \in 1..(x + y) : e[i] = IF i <= x THEN m[i] ELSE b[i - x]
  BY <1>1, ConcatProperties
<1>3. \A i \in 1..x : e[i] = m[i]
  <2>1. \A i \in 1..x : i \in 1..(x + y) /\ i <= x
    OBVIOUS
  <2> QED
    BY <1>2, <2>1
<1>4. \A i \in (x + 1)..(x + y) : e[i] \in S
  BY <1>2
<1>5. x + 1 \in Int /\ x + y \in Int
  OBVIOUS
<1>6. PICK f \in Seq(S) : f = SubSeq(e, x + 1, x + y) /\ Len(f) = y /\ \A i \in 1..y : f[i] = e[x + i]
  <2>1. SubSeq(e, x + 1, x + y) \in Seq(S)
    BY <1>2, <1>4, <1>5, SubSeqProperties
  <2>2. PICK f \in Seq(S) : f = SubSeq(e, x + 1, x + y)
    BY <2>1
  <2>3. Len(f) = y /\ \A i \in 1..y : f[i] = e[x + i]
    <3>1. /\ Len(f) = (IF x + 1 <= x + y THEN ((x + y) - (x + 1)) + 1 ELSE 0)
          /\ \A i \in 1..(((x + y) - (x + 1)) + 1) : f[i] = e[((x + 1) + i) - 1]
      BY <1>2, <1>4, <1>5, <2>2, SubSeqProperties
    <3>2. (IF x + 1 <= x + y THEN ((x + y) - (x + 1)) + 1 ELSE 0) = y /\ ((x + y) - (x + 1)) + 1 = y
      OBVIOUS
    <3>3. \A i \in 1..y : ((x + 1) + i) - 1 = x + i
      OBVIOUS
    <3> QED
      BY <3>1, <3>2, <3>3
  <2> QED
    BY <2>2, <2>3
<1>7. \A i \in 1..y : f[i] = b[i]
  <2> SUFFICES ASSUME NEW i \in 1..y PROVE f[i] = b[i]
    OBVIOUS
  <2>1. x + i \in 1..(x + y) /\ ~ (x + i <= x) /\ (x + i) - x = i
    OBVIOUS
  <2> QED
    BY <1>2, <1>6, <2>1
<1>8. f = b
  <2>1. Len(f) = Len(b) /\ \A i \in 1..Len(f) : f[i] = b[i]
    BY <1>1, <1>6, <1>7
  <2> QED
    BY <2>1, SeqEqual
<1> QED
  BY <1>1, <1>2, <1>3, <1>6, <1>8

\* The key of an entry of a map is the metakeys', followed by the map's.
EntryIs(e, m, mk, k) ==
    /\ e \in Seq(Nat) /\ Len(e) \in Nat /\ Len(m) <= Len(e)
    /\ \A i \in 1..Len(m) : e[i] = m[i]
    /\ KeyAfter(Len(mk), e) = k

\* It is.
LEMMA EntryBytes ==
    ASSUME NEW h, NEW mk \in Metakeys(h), NEW k \in Keys, NEW m, m = SerializeMetakeys(mk),
           NEW e, e = SerializeMetakeysAndKey(mk, k)
    PROVE  EntryIs(e, m, mk, k)
<1>1. m \in Seq(Nat) /\ Len(m) \in Nat /\ Len(mk) = Len(m)
  BY MetakeyOf
<1>2. PICK b : b = Serialize(k)
  OBVIOUS
<1>3. b \in Seq(Nat) /\ Len(b) \in 1..2 /\ Deserialize(b) = k
  <2>1. k \in Nat
    BY KeysAssumption DEF Keys, U8Max
  <2> QED
    BY <1>2, <2>1, KeyOf
<1>4. e = m \o b
  BY <1>2 DEF SerializeMetakeysAndKey
<1>5. /\ e \in Seq(Nat) /\ Len(e) = Len(m) + Len(b)
      /\ \A i \in 1..Len(m) : e[i] = m[i]
      /\ SubSeq(e, Len(m) + 1, Len(e)) = b
  BY <1>1, <1>3, <1>4, BehindPrefix
<1>6. Len(e) \in Nat /\ Len(m) <= Len(e)
  BY <1>1, <1>3, <1>5
<1>7. KeyAfter(Len(mk), e) = k
  BY <1>1, <1>3, <1>5 DEF KeyAfter
<1> QED
  BY <1>5, <1>6, <1>7 DEF EntryIs

\* A prefix is one.
LEMMA PrefixIs ==
    ASSUME NEW m \in Seq(Nat), NEW e \in Seq(Nat), Len(m) <= Len(e)
    PROVE  IsPrefix(m, e) <=> \A i \in 1..Len(m) : m[i] = e[i]
<1>1. PICK x \in Nat : x = Len(m) /\ x <= Len(e)
  OBVIOUS
<1>2. SubSeq(m, 1, x) = m
  BY <1>1
<1>3. SubSeq(e, 1, x) \in Seq(Nat) /\ Len(SubSeq(e, 1, x)) = x /\ \A i \in 1..x : SubSeq(e, 1, x)[i] = e[i]
  BY <1>1
<1>4. PICK f \in Seq(Nat) : f = SubSeq(e, 1, x) /\ Len(f) = x /\ \A i \in 1..x : f[i] = e[i]
  BY <1>3
<1>5. m = f <=> \A i \in 1..x : m[i] = e[i]
  BY <1>1, <1>4
<1> QED
  BY <1>1, <1>2, <1>4, <1>5 DEF IsPrefix

\* No two maps, item keys and namespaces share a key.
LEMMA EntriesApart ==
    ASSUME NEW h, NEW mk \in Metakeys(h), NEW mg \in Metakeys(h), NEW k \in Keys, NEW j \in Keys
    PROVE  /\ SerializeMetakeysAndKey(mk, k) = SerializeMetakeysAndKey(mg, j) => mk = mg /\ k = j
           /\ IsPrefix(SerializeMetakeys(mk), SerializeMetakeysAndKey(mg, j)) <=> mk = mg
           /\ SerializeMetakeys(mk) = SerializeMetakeys(mg) => mk = mg
<1>1. PICK m, g, d, e : /\ m = SerializeMetakeys(mk) /\ g = SerializeMetakeys(mg)
                        /\ d = SerializeMetakeysAndKey(mk, k) /\ e = SerializeMetakeysAndKey(mg, j)
  OBVIOUS
<1>2. /\ m \in Seq(Nat) /\ g \in Seq(Nat) /\ Len(m) = Len(g) /\ Len(m) \in Nat
      /\ (\A i \in 1..Len(m) : m[i] = g[i]) => mk = mg
  BY <1>1, MetakeyOf
<1>3. EntryIs(d, m, mk, k) /\ EntryIs(e, g, mg, j)
  BY <1>1, EntryBytes
<1>4. /\ \A i \in 1..Len(m) : d[i] = m[i]
      /\ e \in Seq(Nat) /\ Len(e) \in Nat /\ Len(g) <= Len(e)
      /\ \A i \in 1..Len(g) : e[i] = g[i]
  BY <1>3 DEF EntryIs
<1>5. KeyAfter(Len(mk), d) = k /\ KeyAfter(Len(mg), e) = j
  BY <1>3 DEF EntryIs
<1>6. IsPrefix(m, e) <=> \A i \in 1..Len(m) : m[i] = e[i]
  BY <1>2, <1>4, PrefixIs
<1>7. mk = mg => m = g
  BY <1>1
<1> QED
  BY <1>1, <1>2, <1>4, <1>5, <1>6, <1>7

\* What a table has for a state, an item key and a namespace.
MemHas(T, h, mk) ==
    IF h \in MapStates THEN [k \in Keys |-> Lookup(T, SerializeMetakeysAndKey(mk, k))]
    ELSE IF h \in ValueStates \cup ReducerStates THEN Lookup(T, SerializeMetakeys(mk))
    ELSE IF SerializeMetakeys(mk) \in DOMAIN T THEN T[SerializeMetakeys(mk)] ELSE <<>>
MemTable(ts, h) == IF h \in DOMAIN ts THEN ts[h] ELSE EmptyTable
MemContents(ds, ts) == [h \in ds |-> [mk \in Metakeys(h) |-> MemHas(MemTable(ts, h), h, mk)]]

\* That is what KeyedState is shown of the tables.
LEMMA MemContentsAre ==
    ASSUME backend = "InMemory", NEW ts
    PROVE  Contents(ts) = MemContents(declared, ts)
<1>1. ASSUME NEW h, NEW mk PROVE ContentIn(ts, h, mk) = MemHas(MemTable(ts, h), h, mk)
  <2>1. ContentIn(ts, h, mk) = InMemory!ContentIn(ts, h, mk)
    BY DEF ContentIn
  <2>2. PICK T : T = MemTable(ts, h)
    OBVIOUS
  <2>3. InMemory!ContentIn(ts, h, mk) =
          CASE h \in MapStates -> [k \in InMemory!Keys |-> InMemory!Lookup(T, InMemory!SerializeMetakeysAndKey(mk, k))]
            [] h \in ValueStates \cup ReducerStates -> InMemory!Lookup(T, InMemory!SerializeMetakeys(mk))
            [] OTHER -> IF InMemory!SerializeMetakeys(mk) \in DOMAIN T
                        THEN T[InMemory!SerializeMetakeys(mk)] ELSE <<>>
    BY <2>2, SameBytes DEF InMemory!ContentIn, MemTable
  <2>4. CASE h \in MapStates
    <3>1. h \notin ValueStates \cup ReducerStates
      BY <2>4, IdsAssumption
    <3>2. InMemory!ContentIn(ts, h, mk) = [k \in InMemory!Keys |-> InMemory!Lookup(T, InMemory!SerializeMetakeysAndKey(mk, k))]
      BY <2>3, <2>4, <3>1
    <3> QED
      BY <2>1, <2>2, <2>4, <3>2, SameBytes, SameTables DEF MemHas
  <2>5. CASE h \notin MapStates /\ h \in ValueStates \cup ReducerStates
    BY <2>1, <2>2, <2>3, <2>5, SameBytes, SameTables DEF MemHas
  <2>6. CASE h \notin MapStates /\ h \notin ValueStates \cup ReducerStates
    BY <2>1, <2>2, <2>3, <2>6, SameBytes DEF MemHas
  <2> QED
    BY <2>4, <2>5, <2>6
<1> QED
  BY <1>1 DEF Contents, MemContents

\* What KeyedState is shown of a backend without checkpoints.
MemShown ==
    backend = "InMemory" =>
        /\ Contents(store) = MemContents(declared, store)
        /\ Contents(IF backend = "SledCheckpoints" THEN Sled!Exported ELSE saved)
             = MemContents(declared, saved)
        /\ (backend \notin {"InMemory", "Sled"}) = FALSE

\* It is.
LEMMA MemIsShown == MemShown
  BY MemContentsAre DEF MemShown

\* Nothing is in an empty table.
LEMMA MemNothing ==
    ASSUME NEW h, NEW mk
    PROVE  MemHas(EmptyTable, h, mk) = Keyed!Nothing(h)
<1>1. DOMAIN EmptyTable = {} /\ \A key : Lookup(EmptyTable, key) = None
  BY DEF EmptyTable, Lookup
<1>2. CASE h \in MapStates
  <2>1. h \notin ValueStates \cup ReducerStates
    BY <1>2, IdsAssumption
  <2>2. Keyed!Nothing(h) = [k \in Keyed!Keys |-> None]
    BY <1>2, <2>1 DEF Keyed!Nothing
  <2> QED
    BY <1>1, <1>2, <2>2, SameBytes DEF MemHas
<1>3. CASE h \notin MapStates
  BY <1>1, <1>3 DEF MemHas, Keyed!Nothing
<1> QED
  BY <1>2, <1>3

\* A table in which all but one place are as before.
MemSame(T, U, h, mk) == \A m \in Metakeys(h) : m # mk => MemHas(U, h, m) = MemHas(T, h, m)

\* A table of one state is replaced by one that differs in one place.
LEMMA MemOneChange ==
    ASSUME NEW ds, NEW ts, NEW h \in ds, h \in DOMAIN ts, NEW mk \in Metakeys(h), NEW T, NEW new,
           new = MemHas(T, h, mk), MemSame(ts[h], T, h, mk)
    PROVE  MemContents(ds, [ts EXCEPT ![h] = T]) = [MemContents(ds, ts) EXCEPT ![h][mk] = new]
<1>1. PICK us : us = [ts EXCEPT ![h] = T]
  OBVIOUS
<1>2. MemTable(us, h) = T /\ MemTable(ts, h) = ts[h] /\ \A g : g # h => MemTable(us, g) = MemTable(ts, g)
  BY <1>1 DEF MemTable
<1>3. PICK C : C = MemContents(ds, ts)
  OBVIOUS
<1>4. /\ DOMAIN C = ds
      /\ \A g \in ds : C[g] = [m \in Metakeys(g) |-> MemHas(MemTable(ts, g), g, m)]
  BY <1>3 DEF MemContents
<1>5. [m \in Metakeys(h) |-> MemHas(T, h, m)] = [C[h] EXCEPT ![mk] = new]
  BY <1>2, <1>4 DEF MemSame
<1>6. C = [g \in ds |-> C[g]]
  BY <1>3 DEF MemContents
<1>7. [C EXCEPT ![h] = [C[h] EXCEPT ![mk] = new]] = [g \in ds |-> [m \in Metakeys(g) |-> MemHas(MemTable(us, g), g, m)]]
  <2>1. ASSUME NEW g \in ds
        PROVE  (IF g = h THEN [C[h] EXCEPT ![mk] = new] ELSE C[g]) = [m \in Metakeys(g) |-> MemHas(MemTable(us, g), g, m)]
    <3>1. CASE g = h
      BY <1>2, <1>5, <3>1
    <3>2. CASE g # h
      BY <1>2, <1>4, <3>2
    <3> QED
      BY <3>1, <3>2
  <2>2. [C EXCEPT ![h] = [C[h] EXCEPT ![mk] = new]] = [g \in ds |-> IF g = h THEN [C[h] EXCEPT ![mk] = new] ELSE C[g]]
    BY <1>4, <1>6
  <2> QED
    BY <2>1, <2>2
<1> QED
  BY <1>1, <1>3, <1>7 DEF MemContents

\* The operations that change a table, and the ones that do not.
MemWrites(h, T, op, answer) == store' = [store EXCEPT ![h] = T] /\ reply' = <<h, op, answer>>
MemReads(h, op, answer) == UNCHANGED store /\ reply' = <<h, op, answer>>

\* What the operations do not change.
MemKept == backend = "InMemory" /\ UNCHANGED <<backend, declared, saved>>

\* They are the ones of KeyedState.
LEMMA MemWriteIs ==
    ASSUME MemKept, NEW h \in declared, h \in DOMAIN store, NEW mk \in Metakeys(h), NEW T, NEW op, NEW answer, NEW new,
           new = MemHas(T, h, mk), MemSame(store[h], T, h, mk),
           MemWrites(h, T, op, answer)
    PROVE  Keyed!Writes(h, mk, new, op, answer)
<1>1. MemShown /\ MemShown'
  BY MemIsShown, PTL
<1>2. MemContents(declared, [store EXCEPT ![h] = T]) = [MemContents(declared, store) EXCEPT ![h][mk] = new]
  BY MemOneChange
<1>3. /\ Contents(store) = MemContents(declared, store)
      /\ Contents(IF backend = "SledCheckpoints" THEN Sled!Exported ELSE saved) = MemContents(declared, saved)
      /\ (backend \notin {"InMemory", "Sled"}) = FALSE
  BY <1>1 DEF MemKept, MemShown
<1>4. /\ Contents(store)' = MemContents(declared, store')
      /\ Contents(IF backend = "SledCheckpoints" THEN Sled!Exported ELSE saved)' = MemContents(declared, saved)
      /\ (backend \notin {"InMemory", "Sled"})' = FALSE
  BY <1>1 DEF MemKept, MemShown
<1> QED
  BY <1>2, <1>3, <1>4 DEF Keyed!Writes, MemWrites
\* The same of the ones that read.
LEMMA MemReadIs ==
    ASSUME MemKept, NEW h, NEW op, NEW answer, MemReads(h, op, answer)
    PROVE  Keyed!Reads(h, op, answer)
<1>1. MemShown /\ MemShown'
  BY MemIsShown, PTL
<1>2. /\ Contents(store) = MemContents(declared, store)
      /\ Contents(IF backend = "SledCheckpoints" THEN Sled!Exported ELSE saved) = MemContents(declared, saved)
      /\ (backend \notin {"InMemory", "Sled"}) = FALSE
  BY <1>1 DEF MemKept, MemShown
<1>3. /\ Contents(store)' = MemContents(declared, store')
      /\ Contents(IF backend = "SledCheckpoints" THEN Sled!Exported ELSE saved)' = MemContents(declared, saved)
      /\ (backend \notin {"InMemory", "Sled"})' = FALSE
  BY <1>1 DEF MemKept, MemShown
<1> QED
  BY <1>2, <1>3 DEF Keyed!Reads, MemReads

\* The value, vec or aggregate of a state is written,
LEMMA MemCell ==
    ASSUME NEW h, h \notin MapStates, NEW mk \in Metakeys(h), NEW T, NEW v, NEW U, U = With(T, SerializeMetakeys(mk), v)
    PROVE  MemHas(U, h, mk) = v /\ MemSame(T, U, h, mk)
<1>1. PICK b : b = SerializeMetakeys(mk)
  OBVIOUS
<1>2. DOMAIN U = DOMAIN T \cup {b} /\ U[b] = v /\ \A x \in DOMAIN T : x # b => U[x] = T[x]
  BY <1>1 DEF With
<1>3. MemHas(U, h, mk) = v
  BY <1>1, <1>2 DEF MemHas, Lookup
<1>4. ASSUME NEW m \in Metakeys(h), m # mk PROVE MemHas(U, h, m) = MemHas(T, h, m)
  <2>1. PICK x : x = SerializeMetakeys(m)
    OBVIOUS
  <2>2. 0 \in Keys
    BY KeysAssumption DEF Keys, U8Max
  <2>3. x # b
    BY <1>1, <1>4, <2>1, <2>2, EntriesApart
  <2> QED
    BY <1>2, <2>1, <2>3 DEF MemHas, Lookup
<1> QED
  BY <1>3, <1>4 DEF MemSame

\* or removed.
LEMMA MemNoCell ==
    ASSUME NEW h, h \notin MapStates, NEW mk \in Metakeys(h), NEW T, NEW U, U = Without(T, {SerializeMetakeys(mk)})
    PROVE  MemHas(U, h, mk) = Keyed!Nothing(h) /\ MemSame(T, U, h, mk)
<1>1. PICK b : b = SerializeMetakeys(mk)
  OBVIOUS
<1>2. DOMAIN U = DOMAIN T \ {b} /\ \A x \in DOMAIN T : x # b => U[x] = T[x]
  BY <1>1 DEF Without
<1>3. MemHas(U, h, mk) = Keyed!Nothing(h)
  BY <1>1, <1>2 DEF MemHas, Lookup, Keyed!Nothing
<1>4. ASSUME NEW m \in Metakeys(h), m # mk PROVE MemHas(U, h, m) = MemHas(T, h, m)
  <2>1. PICK x : x = SerializeMetakeys(m)
    OBVIOUS
  <2>2. 0 \in Keys
    BY KeysAssumption DEF Keys, U8Max
  <2>3. x # b
    BY <1>1, <1>4, <2>1, <2>2, EntriesApart
  <2> QED
    BY <1>2, <2>1, <2>3 DEF MemHas, Lookup
<1> QED
  BY <1>3, <1>4 DEF MemSame

\* An entry of a map is written.
LEMMA MemEntry ==
    ASSUME NEW h \in MapStates, NEW mk \in Metakeys(h), NEW T, NEW k \in Keys, NEW v
    PROVE  /\ MemHas(With(T, SerializeMetakeysAndKey(mk, k), v), h, mk) = [MemHas(T, h, mk) EXCEPT ![k] = v]
           /\ MemSame(T, With(T, SerializeMetakeysAndKey(mk, k), v), h, mk)
<1>1. PICK b : b = SerializeMetakeysAndKey(mk, k)
  OBVIOUS
<1>2. PICK U : U = With(T, b, v)
  OBVIOUS
<1>3. DOMAIN U = DOMAIN T \cup {b} /\ U[b] = v /\ \A x \in DOMAIN T : x # b => U[x] = T[x]
  BY <1>2 DEF With
<1>4. \A m \in Metakeys(h), j \in Keys : (m # mk \/ j # k) => SerializeMetakeysAndKey(m, j) # b
  BY <1>1, EntriesApart
<1>5. \A x : x # b => Lookup(U, x) = Lookup(T, x)
  BY <1>3 DEF Lookup
<1>6. Lookup(U, b) = v
  BY <1>3 DEF Lookup
<1>7. MemHas(U, h, mk) = [MemHas(T, h, mk) EXCEPT ![k] = v]
  BY <1>1, <1>4, <1>5, <1>6 DEF MemHas
<1>8. MemSame(T, U, h, mk)
  BY <1>4, <1>5 DEF MemSame, MemHas
<1> QED
  BY <1>1, <1>2, <1>7, <1>8

\* A table without one entry has the map without it, and every other map as it was.
MemEntryGone(T, U, h, mk, k) ==
    MemHas(U, h, mk) = [MemHas(T, h, mk) EXCEPT ![k] = None] /\ MemSame(T, U, h, mk)

\* An entry that is removed leaves such a table,
LEMMA MemNoEntry ==
    ASSUME NEW h \in MapStates, NEW mk \in Metakeys(h), NEW T, NEW k \in Keys,
           NEW U, U = Without(T, {SerializeMetakeysAndKey(mk, k)})
    PROVE  MemEntryGone(T, U, h, mk, k)
<1> DEFINE b == SerializeMetakeysAndKey(mk, k)
<1>1. DOMAIN U = DOMAIN T \ {b} /\ \A x \in DOMAIN T : x # b => U[x] = T[x]
  BY DEF Without
<1>2. \A m \in Metakeys(h), j \in Keys : (m # mk \/ j # k) => SerializeMetakeysAndKey(m, j) # b
  BY EntriesApart
<1>3. \A x : x # b => Lookup(U, x) = Lookup(T, x)
  BY <1>1 DEF Lookup
<1>4. Lookup(U, b) = None
  BY <1>1 DEF Lookup
<1>5. MemHas(U, h, mk) = [MemHas(T, h, mk) EXCEPT ![k] = None]
  BY <1>2, <1>3, <1>4 DEF MemHas
<1>6. MemSame(T, U, h, mk)
  BY <1>2, <1>3 DEF MemSame, MemHas
<1> QED
  BY <1>5, <1>6 DEF MemEntryGone

\* and all of them with one item key and namespace.
LEMMA MemNoEntries ==
    ASSUME NEW h \in MapStates, NEW mk \in Metakeys(h), NEW T
    PROVE  /\ MemHas(Without(T, WithPrefix(T, SerializeMetakeys(mk))), h, mk) = Keyed!Nothing(h)
           /\ MemSame(T, Without(T, WithPrefix(T, SerializeMetakeys(mk))), h, mk)
<1>1. PICK K : K = WithPrefix(T, SerializeMetakeys(mk))
  OBVIOUS
<1>2. PICK U : U = Without(T, K)
  OBVIOUS
<1>3. DOMAIN U = DOMAIN T \ K /\ \A x \in DOMAIN T : x \notin K => U[x] = T[x]
  BY <1>2 DEF Without
<1>4. \A m \in Metakeys(h), j \in Keys :
        SerializeMetakeysAndKey(m, j) \in DOMAIN T => (SerializeMetakeysAndKey(m, j) \in K <=> m = mk)
  BY <1>1, EntriesApart DEF WithPrefix
<1>5. \A j \in Keys : Lookup(U, SerializeMetakeysAndKey(mk, j)) = None
  BY <1>3, <1>4 DEF Lookup
<1>6. \A m \in Metakeys(h), j \in Keys :
        m # mk => Lookup(U, SerializeMetakeysAndKey(m, j)) = Lookup(T, SerializeMetakeysAndKey(m, j))
  BY <1>3, <1>4 DEF Lookup
<1>7. MemHas(U, h, mk) = Keyed!Nothing(h)
  <2>1. h \notin ValueStates \cup ReducerStates
    BY IdsAssumption
  <2>2. Keyed!Nothing(h) = [k \in Keys |-> None]
    BY <2>1, SameBytes DEF Keyed!Nothing
  <2> QED
    BY <1>5, <2>2 DEF MemHas
<1>8. MemSame(T, U, h, mk)
  BY <1>6 DEF MemSame, MemHas
<1> QED
  BY <1>1, <1>2, <1>7, <1>8

\* Keys and values of the tables.
MemFits(T, h) ==
    h \in MapStates =>
        /\ \A b \in DOMAIN T : T[b] \in Values /\ \E mk \in Metakeys(h), k \in Keys : b = SerializeMetakeysAndKey(mk, k)
MemInv ==
    backend = "InMemory" =>
        /\ saved = EmptyTable /\ DOMAIN store \subseteq declared
        /\ \A h \in DOMAIN store : MemFits(store[h], h)

\* The entries of a map, as KeyedState lists them.
MemEntriesOf(c) == {<<k, c[k]>> : k \in {k \in Keys : c[k] # None}}

\* The first components of some pairs.
LEMMA FirstsAre ==
    ASSUME NEW E, NEW I, \A e \in E : e[1] \in I, \A k \in I : \E e \in E : k = e[1]
    PROVE  {e[1] : e \in E} = I
    OBVIOUS

\* As many as a function tells apart.
LEMMA SameCount ==
    ASSUME NEW S, IsFiniteSet(S), NEW R, NEW f \in [S -> R],
           \A x, y \in S : f[x] = f[y] => x = y, \A z \in R : \E x \in S : z = f[x]
    PROVE  Cardinality(R) = Cardinality(S)
<1>1. f \in Injection(S, R)
  BY DEF Injection, IsInjective
<1>2. f \in Surjection(S, R)
  BY DEF Surjection
<1>3. ExistsBijection(S, R)
  BY <1>1, <1>2 DEF ExistsBijection, Bijection
<1> QED
  BY <1>3, FS_Bijection

\* What is found under the metakeys are the entries.
MemFoundAre(T, mk, c, K, E) ==
    /\ {<<KeyAfter(Len(mk), b), T[b]>> : b \in K} = E
    /\ {KeyAfter(Len(mk), b) : b \in K} = {e[1] : e \in E}
    /\ CountOf({<<b, T[b]>> : b \in K}) = CountOf(E)
    /\ Cardinality(K) = Cardinality(E)
    /\ K = {} <=> E = {}
    /\ \A k \in Keys : SerializeMetakeysAndKey(mk, k) \in DOMAIN T <=> c[k] # None

\* They are.
LEMMA MemFound ==
    ASSUME NEW h \in MapStates, NEW mk \in Metakeys(h), NEW T, MemFits(T, h), NEW c, c = MemHas(T, h, mk),
           NEW K, K = WithPrefix(T, SerializeMetakeys(mk)), NEW E, E = MemEntriesOf(c)
    PROVE  MemFoundAre(T, mk, c, K, E)
<1>1. PICK key : key = [k \in Keys |-> SerializeMetakeysAndKey(mk, k)]
  OBVIOUS
<1>2. \A k \in Keys : key[k] = SerializeMetakeysAndKey(mk, k)
  BY <1>1
<1>3. \A k, j \in Keys : key[k] = key[j] => k = j
  BY <1>2, EntriesApart
<1>4. \A k \in Keys : KeyAfter(Len(mk), key[k]) = k
  <2>1. \A k \in Keys : EntryIs(key[k], SerializeMetakeys(mk), mk, k)
    BY <1>2, EntryBytes
  <2> QED
    BY <2>1 DEF EntryIs
<1>5. \A b \in K : \E k \in Keys : b = key[k]
  <2> SUFFICES ASSUME NEW b \in K PROVE \E k \in Keys : b = key[k]
    OBVIOUS
  <2>1. b \in DOMAIN T /\ IsPrefix(SerializeMetakeys(mk), b)
    BY DEF WithPrefix
  <2>2. PICK m \in Metakeys(h), k \in Keys : b = SerializeMetakeysAndKey(m, k)
    BY <2>1 DEF MemFits
  <2>3. m = mk
    BY <2>1, <2>2, EntriesApart
  <2> QED
    BY <1>2, <2>2, <2>3
<1>6. \A k \in Keys : key[k] \in DOMAIN T <=> key[k] \in K
  BY <1>2, EntriesApart DEF WithPrefix
<1>7. \A k \in Keys : c[k] = Lookup(T, key[k])
  BY <1>2 DEF MemHas
<1>8. None \notin Values
  BY KeysAssumption DEF Values
<1>9. \A k \in Keys : key[k] \in DOMAIN T => T[key[k]] \in Values /\ c[k] = T[key[k]]
  BY <1>7 DEF MemFits, Lookup
<1>10. \A k \in Keys : key[k] \in K <=> c[k] # None
  BY <1>6, <1>7, <1>8, <1>9 DEF Lookup
<1>11. PICK I : I = {k \in Keys : c[k] # None}
  OBVIOUS
<1>12. E = {<<k, c[k]>> : k \in I}
  BY <1>11 DEF MemEntriesOf
<1>13. \A k \in I : k \in Keys /\ key[k] \in K /\ T[key[k]] = c[k]
  BY <1>6, <1>9, <1>10, <1>11
<1>14. \A b \in K : \E k \in I : b = key[k]
  BY <1>5, <1>10, <1>11
<1>15. {<<KeyAfter(Len(mk), b), T[b]>> : b \in K} = E
  <2>1. \A b \in K : \E k \in I : <<KeyAfter(Len(mk), b), T[b]>> = <<k, c[k]>>
    BY <1>4, <1>13, <1>14
  <2>2. \A k \in I : \E b \in K : <<k, c[k]>> = <<KeyAfter(Len(mk), b), T[b]>>
    BY <1>4, <1>13
  <2> QED
    BY <1>12, <2>1, <2>2
<1>16. {KeyAfter(Len(mk), b) : b \in K} = {e[1] : e \in E}
  <2>1. {KeyAfter(Len(mk), b) : b \in K} = I
    BY <1>4, <1>13, <1>14
  <2>2. {e[1] : e \in E} = I
    <3>1. \A e \in E : e[1] \in I
      BY <1>12
    <3>2. \A k \in I : \E e \in E : k = e[1]
      <4>1. \A k \in I : <<k, c[k]>> \in E /\ k = <<k, c[k]>>[1]
        BY <1>12
      <4> QED
        BY <4>1, Zenon
    <3> QED
      BY <3>1, <3>2, FirstsAre
  <2> QED
    BY <2>1, <2>2
<1>17. IsFiniteSet(I)
  <2>1. 0 \in Int /\ MaxKey \in Int
    BY KeysAssumption
  <2>2. IsFiniteSet(Keys)
    BY <2>1, FS_Interval DEF Keys
  <2> QED
    BY <1>11, <2>2, FS_Subset
<1>18. Cardinality(K) = Cardinality(E)
  <2>1. Cardinality(K) = Cardinality(I)
    <3>1. PICK f : f = [k \in I |-> key[k]]
      OBVIOUS
    <3>2. f \in [I -> K] /\ \A k \in I : f[k] = key[k]
      BY <1>13, <3>1
    <3>3. /\ \A x, y \in I : f[x] = f[y] => x = y
          /\ \A z \in K : \E x \in I : z = f[x]
      BY <1>3, <1>13, <1>14, <3>2
    <3> QED
      BY <1>17, <3>2, <3>3, SameCount
  <2>2. Cardinality(E) = Cardinality(I)
    <3>1. PICK f : f = [k \in I |-> <<k, c[k]>>]
      OBVIOUS
    <3>2. f \in [I -> E] /\ \A k \in I : f[k] = <<k, c[k]>>
      BY <1>12, <3>1
    <3>3. /\ \A x, y \in I : f[x] = f[y] => x = y
          /\ \A z \in E : \E x \in I : z = f[x]
      BY <1>12, <3>2
    <3> QED
      BY <1>17, <3>2, <3>3, SameCount
  <2> QED
    BY <2>1, <2>2
<1>19. CountOf({<<b, T[b]>> : b \in K}) = CountOf(E)
  <2>1. PICK P : P = {<<b, T[b]>> : b \in K}
    OBVIOUS
  <2>2. ASSUME NEW v PROVE Cardinality({e \in P : e[2] = v}) = Cardinality({e \in E : e[2] = v})
    <3>1. PICK J : J = {k \in I : c[k] = v}
      OBVIOUS
    <3>2. PICK R, Q : R = {e \in P : e[2] = v} /\ Q = {e \in E : e[2] = v}
      OBVIOUS
    <3>3. IsFiniteSet(J)
      BY <1>17, <3>1, FS_Subset
    <3>4. \A z \in R : \E x \in J : z = <<key[x], c[x]>>
      <4> SUFFICES ASSUME NEW z \in R PROVE \E x \in J : z = <<key[x], c[x]>>
        OBVIOUS
      <4>1. PICK b \in K : z = <<b, T[b]>> /\ z[2] = v
        BY <2>1, <3>2
      <4>2. PICK x \in I : b = key[x]
        BY <1>14
      <4>3. z = <<key[x], c[x]>> /\ c[x] = v
        BY <1>13, <4>1, <4>2
      <4> QED
        BY <3>1, <4>3
    <3>5. \A x \in J : <<key[x], c[x]>> \in R
      <4> SUFFICES ASSUME NEW x \in J PROVE <<key[x], c[x]>> \in R
        OBVIOUS
      <4>1. x \in I /\ c[x] = v /\ key[x] \in K /\ T[key[x]] = c[x]
        BY <1>13, <3>1
      <4>2. <<key[x], c[x]>> \in P
        BY <2>1, <4>1
      <4> QED
        BY <3>2, <4>1, <4>2
    <3>6. Cardinality(R) = Cardinality(J)
      <4>1. PICK f : f = [k \in J |-> <<key[k], c[k]>>]
        OBVIOUS
      <4>2. f \in [J -> R] /\ \A k \in J : f[k] = <<key[k], c[k]>>
        BY <3>5, <4>1
      <4>3. /\ \A x, y \in J : f[x] = f[y] => x = y
            /\ \A z \in R : \E x \in J : z = f[x]
        BY <1>3, <1>13, <3>1, <3>4, <4>2
      <4> QED
        BY <3>3, <4>2, <4>3, SameCount
    <3>7. Cardinality(Q) = Cardinality(J)
      <4>1. PICK f : f = [k \in J |-> <<k, c[k]>>]
        OBVIOUS
      <4>2. f \in [J -> Q] /\ \A k \in J : f[k] = <<k, c[k]>>
        BY <1>12, <3>1, <3>2, <4>1
      <4>3. /\ \A x, y \in J : f[x] = f[y] => x = y
            /\ \A z \in Q : \E x \in J : z = f[x]
        BY <1>12, <3>1, <3>2, <4>2
      <4> QED
        BY <3>3, <4>2, <4>3, SameCount
    <3> QED
      BY <3>2, <3>6, <3>7
  <2> QED
    BY <2>1, <2>2 DEF CountOf
<1>20. K = {} <=> E = {}
  <2>1. K = {} <=> I = {}
    BY <1>13, <1>14
  <2>2. I = {} <=> E = {}
    BY <1>12
  <2> QED
    BY <2>1, <2>2
<1>21. \A k \in Keys : SerializeMetakeysAndKey(mk, k) \in DOMAIN T <=> c[k] # None
  BY <1>2, <1>6, <1>10
<1> QED
  BY <1>15, <1>16, <1>18, <1>19, <1>20, <1>21, Zenon DEF MemFoundAre

\* What KeyedState has for a registered state.
LEMMA MemContentOf ==
    ASSUME backend = "InMemory", NEW h \in declared, h \in DOMAIN store, NEW mk \in Metakeys(h)
    PROVE  Contents(store)[h][mk] = MemHas(store[h], h, mk)
  BY MemContentsAre DEF MemContents, MemTable

\* The state an operation works on.
MemOn(h, mk) == MemKept /\ MemInv /\ h \in declared /\ h \in DOMAIN store /\ mk \in Metakeys(h)

\* What is written under the metakeys of a state that is no map,
LEMMA MemCellWritten ==
    ASSUME NEW h, h \notin MapStates, NEW mk, MemOn(h, mk), NEW v, NEW op, NEW answer,
           MemWrites(h, With(store[h], SerializeMetakeys(mk), v), op, answer)
    PROVE  Keyed!Writes(h, mk, v, op, answer)
<1>1. PICK T, U : T = store[h] /\ U = With(T, SerializeMetakeys(mk), v)
  OBVIOUS
<1>2. MemHas(U, h, mk) = v /\ MemSame(T, U, h, mk)
  <2>1. mk \in Metakeys(h)
    BY DEF MemOn
  <2> QED
    BY <1>1, <2>1, MemCell
<1> QED
  BY <1>1, <1>2, MemWriteIs DEF MemOn
\* and removed.
LEMMA MemCellCleared ==
    ASSUME NEW h, h \notin MapStates, NEW mk, MemOn(h, mk),
           MemWrites(h, Without(store[h], {SerializeMetakeys(mk)}), "clear", mk)
    PROVE  Keyed!Operation(h, mk)
<1>1. PICK U : U = Without(store[h], {SerializeMetakeys(mk)})
  OBVIOUS
<1>2. MemHas(U, h, mk) = Keyed!Nothing(h) /\ MemSame(store[h], U, h, mk)
  BY <1>1, MemNoCell DEF MemOn
<1>3. PICK new : new = Keyed!Nothing(h)
  OBVIOUS
<1>4. Keyed!Writes(h, mk, new, "clear", mk)
  BY <1>1, <1>2, <1>3, MemWriteIs DEF MemOn
<1> QED
  BY <1>3, <1>4 DEF Keyed!Clear, Keyed!Operation

\* The operations on values,
LEMMA MemValueOps ==
    ASSUME NEW h \in ValueStates, NEW mk, MemOn(h, mk), InMemory!ValueOps(h, mk)
    PROVE  Keyed!Operation(h, mk)
<1>1. h \notin MapStates /\ mk \in Metakeys(h) /\ h \in declared /\ h \in DOMAIN store /\ backend = "InMemory" /\ MemKept
  BY IdsAssumption DEF MemOn, MemKept
<1>2. PICK b, T : b = SerializeMetakeys(mk) /\ T = store[h]
  OBVIOUS
<1>3. PICK c : c = Contents(store)[h][mk]
  OBVIOUS
<1>4. c = Lookup(T, b)
  BY <1>1, <1>2, <1>3, MemContentOf DEF MemHas
<1>5. CASE InMemory!ValueClear(h, mk)
  <2>1. MemWrites(h, Without(T, {b}), "clear", mk)
    BY <1>2, <1>5, SameBytes, SameTables DEF InMemory!ValueClear, InMemory!Writes, MemWrites
  <2> QED
    BY <1>1, <1>2, <2>1, MemCellCleared
<1>6. CASE InMemory!ValueGet(h, mk)
  <2>1. MemReads(h, "get", c)
    BY <1>2, <1>4, <1>6, SameBytes, SameTables DEF InMemory!ValueGet, InMemory!Reads, MemReads
  <2> QED
    BY <1>1, <1>3, <2>1, MemReadIs DEF Keyed!Value, Keyed!Operation
<1>7. ASSUME NEW v \in Values, InMemory!ValueSet(h, mk, v) \/ InMemory!ValueFastSet(h, mk, v)
      PROVE  Keyed!Operation(h, mk)
  <2>1. MemWrites(h, With(T, b, v), "set", c) \/ MemWrites(h, With(T, b, v), "fast_set", None)
    BY <1>2, <1>4, <1>7, SameBytes, SameTables DEF InMemory!ValueSet, InMemory!ValueFastSet, InMemory!Writes, MemWrites
  <2>2. Keyed!Writes(h, mk, v, "set", c) \/ Keyed!Writes(h, mk, v, "fast_set", None)
    BY <1>1, <1>2, <2>1, MemCellWritten
  <2> QED
    BY <1>3, <1>7, <2>2, SameBytes DEF Keyed!Value, Keyed!Operation
<1> QED
  BY <1>5, <1>6, <1>7, SameBytes DEF InMemory!ValueOps

\* on maps,
LEMMA MemMapOps ==
    ASSUME NEW h \in MapStates, NEW mk, MemOn(h, mk), InMemory!MapOps(h, mk)
    PROVE  Keyed!Operation(h, mk)
<1>1. mk \in Metakeys(h) /\ h \in declared /\ h \in DOMAIN store /\ backend = "InMemory" /\ MemKept
  BY DEF MemOn, MemKept
<1>2. PICK T : T = store[h]
  OBVIOUS
<1>3. PICK c : c = Contents(store)[h][mk]
  OBVIOUS
<1>4. c = MemHas(T, h, mk) /\ MemFits(T, h)
  BY <1>1, <1>2, <1>3, MemContentOf DEF MemOn, MemInv
<1>5. PICK K, E : K = WithPrefix(T, SerializeMetakeys(mk)) /\ E = MemEntriesOf(c)
  OBVIOUS
<1>20. MemFoundAre(T, mk, c, K, E)
  BY <1>1, <1>4, <1>5, MemFound
<1>6. /\ {<<KeyAfter(Len(mk), b), T[b]>> : b \in K} = E
      /\ {KeyAfter(Len(mk), b) : b \in K} = {e[1] : e \in E}
      /\ CountOf({<<b, T[b]>> : b \in K}) = CountOf(E)
      /\ Cardinality(K) = Cardinality(E)
      /\ K = {} <=> E = {}
      /\ \A k \in Keys : SerializeMetakeysAndKey(mk, k) \in DOMAIN T <=> c[k] # None
  BY <1>20 DEF MemFoundAre
<1>7. E = {<<k, c[k]>> : k \in {k \in Keyed!Keys : c[k] # None}}
  BY <1>5, SameBytes DEF MemEntriesOf
<1>8. \A k \in Keys : c[k] = Lookup(T, SerializeMetakeysAndKey(mk, k))
  BY <1>4 DEF MemHas
<1>9. InMemory!Found(h, mk) = K
  BY <1>2, <1>5, SameBytes, SameTables DEF InMemory!Found
<1>10. ASSUME Keyed!Map(h, mk) PROVE Keyed!Operation(h, mk)
  BY <1>10 DEF Keyed!Operation
<1>11. CASE InMemory!MapClear(h, mk)
  <2>1. MemWrites(h, Without(T, K), "clear", mk)
    BY <1>2, <1>5, <1>11, SameBytes, SameTables DEF InMemory!MapClear, InMemory!Writes, MemWrites
  <2>3. PICK U : U = Without(T, K)
    OBVIOUS
  <2>4. MemHas(U, h, mk) = Keyed!Nothing(h) /\ MemSame(T, U, h, mk)
    BY <1>1, <1>5, <2>3, MemNoEntries
  <2>2. Keyed!Writes(h, mk, Keyed!Nothing(h), "clear", mk)
    BY <1>1, <1>2, <2>1, <2>3, <2>4, MemWriteIs
  <2> QED
    BY <2>2 DEF Keyed!Clear, Keyed!Operation
<1>12. CASE InMemory!MapIter(h, mk)
  <2>1. MemReads(h, "iter", E)
    <3>1. {<<InMemory!KeyAfter(Len(mk), b), store[h][b]>> : b \in InMemory!Found(h, mk)} = E
      BY <1>2, <1>6, <1>9, SameBytes
    <3> QED
      BY <1>12, <3>1 DEF InMemory!MapIter, InMemory!Reads, MemReads
  <2>2. Keyed!Reads(h, "iter", E)
    BY <1>1, <2>1, MemReadIs
  <2> QED
    BY <1>3, <1>7, <1>10, <2>2 DEF Keyed!Map
<1>13. CASE InMemory!MapKeys(h, mk)
  <2>1. MemReads(h, "keys", {e[1] : e \in E})
    <3>1. {InMemory!KeyAfter(Len(mk), b) : b \in InMemory!Found(h, mk)} = {e[1] : e \in E}
      BY <1>6, <1>9, SameBytes
    <3> QED
      BY <1>13, <3>1 DEF InMemory!MapKeys, InMemory!Reads, MemReads
  <2>2. Keyed!Reads(h, "keys", {e[1] : e \in E})
    BY <1>1, <2>1, MemReadIs
  <2> QED
    BY <1>3, <1>7, <1>10, <2>2 DEF Keyed!Map
<1>14. CASE InMemory!MapValues(h, mk)
  <2>1. MemReads(h, "values", CountOf(E))
    <3>1. InMemory!CountOf({<<b, store[h][b]>> : b \in InMemory!Found(h, mk)}) = CountOf(E)
      BY <1>2, <1>6, <1>9, SameTables
    <3> QED
      BY <1>14, <3>1 DEF InMemory!MapValues, InMemory!Reads, MemReads
  <2>2. Keyed!Reads(h, "values", Keyed!CountOf(E))
    BY <1>1, <2>1, MemReadIs, SameTables
  <2> QED
    BY <1>3, <1>7, <1>10, <2>2 DEF Keyed!Map
<1>15. CASE InMemory!MapLen(h, mk)
  <2>1. MemReads(h, "len", Cardinality(E))
    BY <1>6, <1>9, <1>15, SameTables DEF InMemory!MapLen, InMemory!Reads, MemReads
  <2>2. Keyed!Reads(h, "len", Keyed!Cardinality(E))
    BY <1>1, <2>1, MemReadIs, SameTables
  <2> QED
    BY <1>3, <1>7, <1>10, <2>2 DEF Keyed!Map
<1>16. CASE InMemory!MapIsEmpty(h, mk)
  <2>1. MemReads(h, "is_empty", E = {})
    <3>1. (K = {}) = (E = {})
      BY <1>6
    <3> QED
      BY <1>9, <1>16, <3>1 DEF InMemory!MapIsEmpty, InMemory!Reads, MemReads
  <2>2. Keyed!Reads(h, "is_empty", E = {})
    BY <1>1, <2>1, MemReadIs
  <2> QED
    BY <1>3, <1>7, <1>10, <2>2 DEF Keyed!Map
<1>17. ASSUME NEW k \in Keys,
              \/ InMemory!MapGet(h, mk, k) \/ InMemory!MapContains(h, mk, k)
              \/ InMemory!MapRemove(h, mk, k) \/ InMemory!MapFastRemove(h, mk, k)
       PROVE  Keyed!Operation(h, mk)
  <2>1. PICK b : b = SerializeMetakeysAndKey(mk, k)
    OBVIOUS
  <2>2. CASE InMemory!MapGet(h, mk, k)
    <3>1. MemReads(h, "get", c[k])
      BY <1>2, <1>8, <2>2, SameBytes, SameTables DEF InMemory!MapGet, InMemory!Reads, MemReads
    <3>2. Keyed!Reads(h, "get", c[k])
      BY <1>1, <3>1, MemReadIs
    <3> QED
      BY <1>3, <1>10, <3>2, SameBytes DEF Keyed!Map
  <2>3. CASE InMemory!MapContains(h, mk, k)
    <3>1. MemReads(h, "contains", c[k] # None)
      <4>1. (SerializeMetakeysAndKey(mk, k) \in DOMAIN T) = (c[k] # None)
        BY <1>6
      <4> QED
        BY <1>2, <2>3, <4>1, SameBytes DEF InMemory!MapContains, InMemory!Reads, MemReads
    <3>2. Keyed!Reads(h, "contains", c[k] # None)
      BY <1>1, <3>1, MemReadIs
    <3> QED
      BY <1>3, <1>10, <3>2, SameBytes DEF Keyed!Map
  <2>4. CASE InMemory!MapRemove(h, mk, k) \/ InMemory!MapFastRemove(h, mk, k)
    <3>1. MemWrites(h, Without(T, {b}), "remove", c[k]) \/ MemWrites(h, Without(T, {b}), "fast_remove", None)
      BY <1>2, <1>8, <2>1, <2>4, SameBytes, SameTables
         DEF InMemory!MapRemove, InMemory!MapFastRemove, InMemory!Writes, MemWrites
    <3>2. \/ Keyed!Writes(h, mk, [c EXCEPT ![k] = None], "remove", c[k])
          \/ Keyed!Writes(h, mk, [c EXCEPT ![k] = None], "fast_remove", None)
      <4>1. PICK U, new : U = Without(T, {b}) /\ new = [c EXCEPT ![k] = None]
        OBVIOUS
      <4>2. MemHas(U, h, mk) = new /\ MemSame(T, U, h, mk)
        <5>1. b = SerializeMetakeysAndKey(mk, k) /\ c = MemHas(T, h, mk)
          BY <1>1, <1>4, <2>1
        <5>2. MemEntryGone(T, U, h, mk, k)
          BY <1>1, <4>1, <5>1, MemNoEntry
        <5> QED
          BY <4>1, <5>1, <5>2 DEF MemEntryGone
      <4>3. Keyed!Writes(h, mk, new, "remove", c[k]) \/ Keyed!Writes(h, mk, new, "fast_remove", None)
        BY <1>1, <1>2, <3>1, <4>1, <4>2, MemWriteIs
      <4> QED
        BY <4>1, <4>3
    <3> QED
      BY <1>3, <1>10, <3>2, SameBytes DEF Keyed!Map
  <2> QED
    BY <1>17, <2>2, <2>3, <2>4
<1>18. ASSUME NEW k \in Keys, NEW v \in Values, InMemory!MapInsert(h, mk, k, v) \/ InMemory!MapFastInsert(h, mk, k, v)
       PROVE  Keyed!Operation(h, mk)
  <2>1. PICK b : b = SerializeMetakeysAndKey(mk, k)
    OBVIOUS
  <2>2. MemWrites(h, With(T, b, v), "insert", c[k]) \/ MemWrites(h, With(T, b, v), "fast_insert", None)
    BY <1>2, <1>8, <1>18, <2>1, SameBytes, SameTables
       DEF InMemory!MapInsert, InMemory!MapFastInsert, InMemory!Writes, MemWrites
  <2>3. \/ Keyed!Writes(h, mk, [c EXCEPT ![k] = v], "insert", c[k])
        \/ Keyed!Writes(h, mk, [c EXCEPT ![k] = v], "fast_insert", None)
    <3>1. PICK U, new : U = With(T, b, v) /\ new = [c EXCEPT ![k] = v]
      OBVIOUS
    <3>2. MemHas(U, h, mk) = new /\ MemSame(T, U, h, mk)
      BY <1>1, <1>4, <2>1, <3>1, MemEntry
    <3>3. Keyed!Writes(h, mk, new, "insert", c[k]) \/ Keyed!Writes(h, mk, new, "fast_insert", None)
      BY <1>1, <1>2, <2>2, <3>1, <3>2, MemWriteIs
    <3> QED
      BY <3>1, <3>3
  <2> QED
    BY <1>3, <1>10, <2>3, SameBytes DEF Keyed!Map
<1>19. ASSUME NEW i \in Keys, NEW j \in Keys, NEW v \in Values, NEW w \in Values, InMemory!MapInsertAll(h, mk, i, v, j, w)
       PROVE  Keyed!Operation(h, mk)
  <2>1. PICK a, b : a = SerializeMetakeysAndKey(mk, i) /\ b = SerializeMetakeysAndKey(mk, j)
    OBVIOUS
  <2>2. PICK U : U = With(T, a, v)
    OBVIOUS
  <2>3. MemWrites(h, With(U, b, w), "insert_all", None)
    BY <1>2, <1>19, <2>1, <2>2, SameBytes, SameTables DEF InMemory!MapInsertAll, InMemory!Writes, MemWrites
  <2>4. MemHas(U, h, mk) = [c EXCEPT ![i] = v] /\ MemSame(T, U, h, mk)
    BY <1>1, <1>4, <2>1, <2>2, MemEntry
  <2>5. PICK W, new : W = With(U, b, w) /\ new = [[c EXCEPT ![i] = v] EXCEPT ![j] = w]
    OBVIOUS
  <2>6. MemHas(W, h, mk) = [MemHas(U, h, mk) EXCEPT ![j] = w] /\ MemSame(U, W, h, mk)
    BY <1>1, <2>1, <2>5, MemEntry
  <2>7. MemHas(W, h, mk) = new /\ MemSame(T, W, h, mk)
    BY <2>4, <2>5, <2>6 DEF MemSame
  <2>8. Keyed!Writes(h, mk, new, "insert_all", None)
    BY <1>1, <1>2, <2>3, <2>5, <2>7, MemWriteIs
  <2> QED
    BY <1>3, <1>10, <2>5, <2>8, SameBytes DEF Keyed!Map
<1> QED
  BY <1>11, <1>12, <1>13, <1>14, <1>15, <1>16, <1>17, <1>18, <1>19, SameBytes DEF InMemory!MapOps

\* on vecs,
LEMMA MemVecOps ==
    ASSUME NEW h \in VecStates, NEW mk, MemOn(h, mk), InMemory!VecOps(h, mk)
    PROVE  Keyed!Operation(h, mk)
<1>1. /\ h \notin MapStates /\ h \notin ValueStates \cup ReducerStates /\ mk \in Metakeys(h) /\ h \in declared
      /\ h \in DOMAIN store /\ backend = "InMemory" /\ MemKept
  BY IdsAssumption DEF MemOn, MemKept
<1>2. PICK b, T : b = SerializeMetakeys(mk) /\ T = store[h]
  OBVIOUS
<1>3. PICK c : c = Contents(store)[h][mk]
  OBVIOUS
<1>4. c = InMemory!VecAt(h, mk)
  BY <1>1, <1>2, <1>3, MemContentOf, SameBytes DEF MemHas, InMemory!VecAt
<1>5. ASSUME Keyed!Vec(h, mk) PROVE Keyed!Operation(h, mk)
  BY <1>5 DEF Keyed!Operation
<1>6. ASSUME NEW op, NEW new, MemWrites(h, With(T, b, new), op, None) PROVE Keyed!Writes(h, mk, new, op, None)
  BY <1>1, <1>2, <1>6, MemCellWritten
<1>7. CASE InMemory!VecClear(h, mk)
  <2>1. MemWrites(h, Without(T, {b}), "clear", mk)
    BY <1>2, <1>7, SameBytes, SameTables DEF InMemory!VecClear, InMemory!Writes, MemWrites
  <2> QED
    BY <1>1, <1>2, <2>1, MemCellCleared
<1>8. CASE InMemory!VecGet(h, mk) \/ InMemory!VecIter(h, mk) \/ InMemory!VecLen(h, mk) \/ InMemory!VecIsEmpty(h, mk)
  <2>1. \/ MemReads(h, "get", c) \/ MemReads(h, "iter", c) \/ MemReads(h, "len", Len(c))
        \/ MemReads(h, "is_empty", c = <<>>)
    BY <1>4, <1>8 DEF InMemory!VecGet, InMemory!VecIter, InMemory!VecLen, InMemory!VecIsEmpty, InMemory!Reads, MemReads
  <2>2. \/ Keyed!Reads(h, "get", c) \/ Keyed!Reads(h, "iter", c) \/ Keyed!Reads(h, "len", Len(c))
        \/ Keyed!Reads(h, "is_empty", c = <<>>)
    BY <1>1, <2>1, MemReadIs
  <2> QED
    BY <1>3, <1>5, <2>2 DEF Keyed!Vec
<1>9. ASSUME NEW v \in Values, InMemory!VecAppend(h, mk, v) PROVE Keyed!Operation(h, mk)
  <2>1. MemWrites(h, With(T, b, Append(c, v)), "append", None)
    BY <1>2, <1>4, <1>9, SameBytes, SameTables DEF InMemory!VecAppend, InMemory!Writes, MemWrites
  <2> QED
    BY <1>3, <1>5, <1>6, <2>1, SameBytes DEF Keyed!Vec
<1>10. ASSUME NEW s \in InMemory!Lists, InMemory!VecSet(h, mk, s) \/ InMemory!VecAddAll(h, mk, s)
       PROVE  Keyed!Operation(h, mk)
  <2>1. MemWrites(h, With(T, b, s), "set", None) \/ MemWrites(h, With(T, b, c \o s), "add_all", None)
    BY <1>2, <1>4, <1>10, SameBytes, SameTables DEF InMemory!VecSet, InMemory!VecAddAll, InMemory!Writes, MemWrites
  <2>2. s \in Keyed!Lists
    BY SameBytes DEF InMemory!Lists, Keyed!Lists, InMemory!BoundedSeq, Keyed!BoundedSeq,
                      InMemory!SeqOf, Keyed!SeqOf
  <2> QED
    BY <1>3, <1>5, <1>6, <2>1, <2>2 DEF Keyed!Vec
<1> QED
  BY <1>7, <1>8, <1>9, <1>10, SameBytes DEF InMemory!VecOps

\* on reducers,
LEMMA MemReducerOps ==
    ASSUME NEW h \in ReducerStates, NEW mk, MemOn(h, mk), InMemory!ReducerOps(h, mk)
    PROVE  Keyed!Operation(h, mk)
<1>1. h \notin MapStates /\ mk \in Metakeys(h) /\ h \in declared /\ h \in DOMAIN store /\ backend = "InMemory" /\ MemKept
  BY IdsAssumption DEF MemOn, MemKept
<1>2. PICK b, T : b = SerializeMetakeys(mk) /\ T = store[h]
  OBVIOUS
<1>3. PICK c : c = Contents(store)[h][mk]
  OBVIOUS
<1>4. c = Lookup(T, b)
  BY <1>1, <1>2, <1>3, MemContentOf DEF MemHas
<1>5. CASE InMemory!ReducerClear(h, mk)
  <2>1. MemWrites(h, Without(T, {b}), "clear", mk)
    BY <1>2, <1>5, SameBytes, SameTables DEF InMemory!ReducerClear, InMemory!Writes, MemWrites
  <2> QED
    BY <1>1, <1>2, <2>1, MemCellCleared
<1>6. CASE InMemory!ReducerGet(h, mk)
  <2>1. MemReads(h, "get", c)
    BY <1>2, <1>4, <1>6, SameBytes, SameTables DEF InMemory!ReducerGet, InMemory!Reads, MemReads
  <2> QED
    BY <1>1, <1>3, <2>1, MemReadIs DEF Keyed!Reducer, Keyed!Operation
<1>7. ASSUME NEW v \in Values, InMemory!ReducerReduce(h, mk, v) PROVE Keyed!Operation(h, mk)
  <2>1. PICK new : new = IF c = None THEN v ELSE Keyed!Reduce(c, v)
    OBVIOUS
  <2>2. MemWrites(h, With(T, b, new), "reduce", None)
    <3>1. new = IF c = None THEN v ELSE InMemory!Reduce(c, v)
      BY <2>1 DEF Keyed!Reduce, InMemory!Reduce
    <3> QED
      BY <1>2, <1>4, <1>7, <3>1, SameBytes, SameTables DEF InMemory!ReducerReduce, InMemory!Writes, MemWrites
  <2>3. Keyed!Writes(h, mk, new, "reduce", None)
    BY <1>1, <1>2, <2>2, MemCellWritten
  <2> QED
    BY <1>3, <1>7, <2>1, <2>3, SameBytes DEF Keyed!Reducer, Keyed!Operation
<1> QED
  BY <1>5, <1>6, <1>7, SameBytes DEF InMemory!ReducerOps

\* and on aggregators are those of KeyedState.
LEMMA MemAggregatorOps ==
    ASSUME NEW h \in AggregatorStates, NEW mk, MemOn(h, mk), InMemory!AggregatorOps(h, mk)
    PROVE  Keyed!Operation(h, mk)
<1>1. /\ h \notin MapStates /\ h \notin ValueStates \cup ReducerStates /\ mk \in Metakeys(h) /\ h \in declared
      /\ h \in DOMAIN store /\ backend = "InMemory" /\ MemKept
  BY IdsAssumption DEF MemOn, MemKept
<1>2. PICK b, T : b = SerializeMetakeys(mk) /\ T = store[h]
  OBVIOUS
<1>3. PICK c : c = Contents(store)[h][mk]
  OBVIOUS
<1>4. c = InMemory!AccumulatorAt(h, mk)
  BY <1>1, <1>2, <1>3, MemContentOf, SameBytes DEF MemHas, InMemory!AccumulatorAt, InMemory!CreateAccumulator
<1>5. CASE InMemory!AggregatorClear(h, mk)
  <2>1. MemWrites(h, Without(T, {b}), "clear", mk)
    BY <1>2, <1>5, SameBytes, SameTables DEF InMemory!AggregatorClear, InMemory!Writes, MemWrites
  <2> QED
    BY <1>1, <1>2, <2>1, MemCellCleared
<1>6. CASE InMemory!AggregatorGet(h, mk)
  <2>1. MemReads(h, "get", c)
    BY <1>4, <1>6 DEF InMemory!AggregatorGet, InMemory!Reads, MemReads
  <2> QED
    BY <1>1, <1>3, <2>1, MemReadIs DEF Keyed!Aggregator, Keyed!Operation
<1>7. ASSUME NEW v \in Values, InMemory!AggregatorAggregate(h, mk, v) PROVE Keyed!Operation(h, mk)
  <2>1. PICK new : new = Keyed!Add(c, v)
    OBVIOUS
  <2>2. MemWrites(h, With(T, b, new), "aggregate", None)
    <3>1. new = InMemory!Add(c, v)
      BY <2>1 DEF Keyed!Add, InMemory!Add
    <3> QED
      BY <1>2, <1>4, <1>7, <3>1, SameBytes, SameTables DEF InMemory!AggregatorAggregate, InMemory!Writes, MemWrites
  <2>3. Keyed!Writes(h, mk, new, "aggregate", None)
    BY <1>1, <1>2, <2>2, MemCellWritten
  <2> QED
    BY <1>3, <1>7, <2>1, <2>3, SameBytes DEF Keyed!Aggregator, Keyed!Operation
<1> QED
  BY <1>5, <1>6, <1>7, SameBytes DEF InMemory!AggregatorOps

\* The tables keep to their keys and values.
LEMMA MemKeepsFit ==
    ASSUME NEW h, NEW mk \in Metakeys(h), NEW T, MemFits(T, h), NEW k \in Keys, NEW v \in Values, NEW K
    PROVE  /\ MemFits(With(T, SerializeMetakeysAndKey(mk, k), v), h)
           /\ MemFits(Without(T, K), h)
<1>1. PICK U, N : U = With(T, SerializeMetakeysAndKey(mk, k), v) /\ N = Without(T, K)
  OBVIOUS
<1>2. /\ \A b \in DOMAIN U : (b = SerializeMetakeysAndKey(mk, k) /\ U[b] = v) \/ (b \in DOMAIN T /\ U[b] = T[b])
      /\ \A b \in DOMAIN N : b \in DOMAIN T /\ N[b] = T[b]
  BY <1>1 DEF With, Without
<1> QED
  BY <1>1, <1>2 DEF MemFits

\* An operation keeps what is known of the tables.
LEMMA MemStepKeeps ==
    ASSUME MemInv, MemKept, NEW h \in DOMAIN store, NEW mk \in Metakeys(h), NEW T, MemFits(T, h), store' = [store EXCEPT ![h] = T]
    PROVE  MemInv'
<1>1. saved' = EmptyTable /\ DOMAIN store' = DOMAIN store /\ DOMAIN store' \subseteq declared'
  BY DEF MemInv, MemKept
<1>2. ASSUME NEW g \in DOMAIN store' PROVE MemFits(store'[g], g)
  BY <1>1 DEF MemInv, MemKept
<1> QED
  BY <1>1, <1>2 DEF MemInv

\* One after the other.
LEMMA MemOpsKeep ==
    ASSUME NEW h \in DOMAIN store, NEW mk, MemInv, MemKept, mk \in Metakeys(h),
           \/ h \in ValueStates /\ InMemory!ValueOps(h, mk)
           \/ h \in MapStates /\ InMemory!MapOps(h, mk)
           \/ h \in VecStates /\ InMemory!VecOps(h, mk)
           \/ h \in ReducerStates /\ InMemory!ReducerOps(h, mk)
           \/ h \in AggregatorStates /\ InMemory!AggregatorOps(h, mk)
    PROVE  MemInv'
<1>1. MemFits(store[h], h)
  BY DEF MemInv, MemKept
<1>2. ASSUME UNCHANGED store PROVE MemInv'
  BY <1>2 DEF MemInv, MemKept
<1>3. ASSUME NEW T, h \notin MapStates \/ MemFits(T, h), store' = [store EXCEPT ![h] = T] PROVE MemInv'
  <2>1. MemFits(T, h)
    BY <1>3 DEF MemFits
  <2> QED
    BY <1>3, <2>1, MemStepKeeps
<1>4. CASE h \in ValueStates /\ InMemory!ValueOps(h, mk)
  <2>1. UNCHANGED store \/ \E T : store' = [store EXCEPT ![h] = T]
    BY <1>4 DEF InMemory!ValueOps, InMemory!ValueClear, InMemory!ValueGet, InMemory!ValueSet, InMemory!ValueFastSet,
                InMemory!Reads, InMemory!Writes
  <2> QED
    BY <1>2, <1>3, <1>4, <2>1, IdsAssumption
<1>5. CASE h \in VecStates /\ InMemory!VecOps(h, mk)
  <2>1. UNCHANGED store \/ \E T : store' = [store EXCEPT ![h] = T]
    BY <1>5 DEF InMemory!VecOps, InMemory!VecClear, InMemory!VecGet, InMemory!VecIter, InMemory!VecLen,
                InMemory!VecIsEmpty, InMemory!VecAppend, InMemory!VecSet, InMemory!VecAddAll, InMemory!Reads, InMemory!Writes
  <2> QED
    BY <1>2, <1>3, <1>5, <2>1, IdsAssumption
<1>6. CASE h \in ReducerStates /\ InMemory!ReducerOps(h, mk)
  <2>1. UNCHANGED store \/ \E T : store' = [store EXCEPT ![h] = T]
    BY <1>6 DEF InMemory!ReducerOps, InMemory!ReducerClear, InMemory!ReducerGet, InMemory!ReducerReduce,
                InMemory!Reads, InMemory!Writes
  <2> QED
    BY <1>2, <1>3, <1>6, <2>1, IdsAssumption
<1>7. CASE h \in AggregatorStates /\ InMemory!AggregatorOps(h, mk)
  <2>1. UNCHANGED store \/ \E T : store' = [store EXCEPT ![h] = T]
    BY <1>7 DEF InMemory!AggregatorOps, InMemory!AggregatorClear, InMemory!AggregatorGet, InMemory!AggregatorAggregate,
                InMemory!Reads, InMemory!Writes
  <2> QED
    BY <1>2, <1>3, <1>7, <2>1, IdsAssumption
<1>8. CASE h \in MapStates /\ InMemory!MapOps(h, mk)
  <2>0. PICK T : T = store[h]
    OBVIOUS
  <2>1. CASE InMemory!MapClear(h, mk)
    <3>1. PICK K : K = WithPrefix(T, SerializeMetakeys(mk))
      OBVIOUS
    <3>2. store' = [store EXCEPT ![h] = Without(T, K)]
      BY <2>0, <2>1, <3>1, SameBytes, SameTables DEF InMemory!MapClear, InMemory!Writes
    <3>3. \E k \in Keys, v \in Values : TRUE
      BY KeysAssumption DEF Keys, Values
    <3>4. MemFits(Without(T, K), h)
      BY <1>1, <2>0, <3>3, MemKeepsFit
    <3> QED
      BY <1>3, <3>2, <3>4
  <2>2. CASE InMemory!MapIter(h, mk) \/ InMemory!MapKeys(h, mk) \/ InMemory!MapValues(h, mk) \/ InMemory!MapLen(h, mk)
              \/ InMemory!MapIsEmpty(h, mk)
    BY <1>2, <2>2 DEF InMemory!MapIter, InMemory!MapKeys, InMemory!MapValues, InMemory!MapLen, InMemory!MapIsEmpty,
                      InMemory!Reads
  <2>3. ASSUME NEW k \in Keys, InMemory!MapGet(h, mk, k) \/ InMemory!MapContains(h, mk, k) PROVE MemInv'
    BY <1>2, <2>3 DEF InMemory!MapGet, InMemory!MapContains, InMemory!Reads
  <2>4. ASSUME NEW k \in Keys, InMemory!MapRemove(h, mk, k) \/ InMemory!MapFastRemove(h, mk, k) PROVE MemInv'
    <3>1. PICK K : K = {SerializeMetakeysAndKey(mk, k)}
      OBVIOUS
    <3>2. store' = [store EXCEPT ![h] = Without(T, K)]
      BY <2>0, <2>4, <3>1, SameBytes, SameTables DEF InMemory!MapRemove, InMemory!MapFastRemove, InMemory!Writes
    <3>3. \E v \in Values : TRUE
      BY KeysAssumption DEF Values
    <3>4. MemFits(Without(T, K), h)
      BY <1>1, <2>0, <3>3, MemKeepsFit
    <3> QED
      BY <1>3, <3>2, <3>4
  <2>5. ASSUME NEW k \in Keys, NEW v \in Values, InMemory!MapInsert(h, mk, k, v) \/ InMemory!MapFastInsert(h, mk, k, v)
        PROVE  MemInv'
    <3>1. PICK U : U = With(T, SerializeMetakeysAndKey(mk, k), v)
      OBVIOUS
    <3>2. store' = [store EXCEPT ![h] = U]
      BY <2>0, <2>5, <3>1, SameBytes, SameTables DEF InMemory!MapInsert, InMemory!MapFastInsert, InMemory!Writes
    <3>3. MemFits(U, h)
      BY <1>1, <2>0, <3>1, MemKeepsFit
    <3> QED
      BY <1>3, <3>2, <3>3
  <2>6. ASSUME NEW i \in Keys, NEW j \in Keys, NEW v \in Values, NEW w \in Values, InMemory!MapInsertAll(h, mk, i, v, j, w)
        PROVE  MemInv'
    <3>1. PICK U, W : U = With(T, SerializeMetakeysAndKey(mk, i), v) /\ W = With(U, SerializeMetakeysAndKey(mk, j), w)
      OBVIOUS
    <3>2. store' = [store EXCEPT ![h] = W]
      BY <2>0, <2>6, <3>1, SameBytes, SameTables DEF InMemory!MapInsertAll, InMemory!Writes
    <3>3. MemFits(U, h)
      BY <1>1, <2>0, <3>1, MemKeepsFit
    <3>4. MemFits(W, h)
      BY <3>1, <3>3, MemKeepsFit
    <3> QED
      BY <1>3, <3>2, <3>4
  <2> QED
    BY <1>8, <2>1, <2>2, <2>3, <2>4, <2>5, <2>6, SameBytes DEF InMemory!MapOps
<1> QED
  BY <1>4, <1>5, <1>6, <1>7, <1>8

\* The steps of the backend that are not operations.
LEMMA MemInitIs ==
    ASSUME Init, backend = "InMemory" PROVE MemInv /\ Keyed!Init
<1>1. store = EmptyTable /\ saved = EmptyTable /\ reply = <<None, "none", None>> /\ DOMAIN store = {}
  BY SameBytes DEF Init, InMemory!Init, EmptyTable
<1>2. MemInv
  BY <1>1 DEF MemInv
<1>3. PICK d \in Deployments : backend = d[1] /\ declared = d[2]
  BY DEF Init
<1>4. declared \in SUBSET Handles
  BY <1>3, BackendsAssumption
<1>5. MemContents(declared, EmptyTable) = Keyed!Fresh(declared)
  <2>1. \A h : MemTable(EmptyTable, h) = EmptyTable
    BY <1>1 DEF MemTable
  <2> QED
    BY <2>1, MemNothing, SameBytes DEF MemContents, Keyed!Fresh
<1>6. /\ Contents(store) = Keyed!Fresh(declared)
      /\ Contents(IF backend = "SledCheckpoints" THEN Sled!Exported ELSE saved) = Contents(store)
      /\ (backend \notin {"InMemory", "Sled"}) \in BOOLEAN
  BY <1>1, <1>5, MemIsShown DEF MemShown
<1>7. declared \in SUBSET Keyed!Handles
  BY <1>4, SameBytes
<1> QED
  BY <1>1, <1>2, <1>6, <1>7 DEF Keyed!Init

\* Every step of the backend is one of KeyedState, or none.
LEMMA MemStepIs ==
    ASSUME MemInv, backend = "InMemory", Next PROVE MemInv' /\ [Keyed!Next]_(Keyed!vars)
<1>1. UNCHANGED <<backend, declared>>
  BY DEF Next
<1>2. ASSUME NEW h \in declared, InMemory!Register(h), UNCHANGED <<registered, saved, status>>
      PROVE  MemInv' /\ UNCHANGED Keyed!vars
  <2>1. MemKept /\ reply' = reply
    BY <1>1, <1>2 DEF MemKept, InMemory!Register
  <2>2. PICK ts, us : ts = store /\ us = store'
    OBVIOUS
  <2>3. /\ DOMAIN us = DOMAIN ts \cup {h} /\ \A g \in DOMAIN ts : us[g] = ts[g]
        /\ h \notin DOMAIN ts => us[h] = EmptyTable
    BY <1>2, <2>2, SameBytes DEF InMemory!Register
  <2>4. \A g : MemTable(us, g) = MemTable(ts, g)
    BY <2>3 DEF MemTable
  <2>5. MemFits(EmptyTable, h)
    BY DEF MemFits, EmptyTable
  <2>6. MemInv'
    <3>1. saved' = EmptyTable /\ DOMAIN us \subseteq declared /\ \A g \in DOMAIN us : MemFits(us[g], g)
      BY <2>1, <2>2, <2>3, <2>5 DEF MemInv, MemKept
    <3> QED
      BY <2>1, <2>2, <3>1 DEF MemInv, MemKept
  <2>7. MemContents(declared, us) = MemContents(declared, ts)
    BY <2>4 DEF MemContents
  <2>8. MemShown /\ MemShown'
    BY MemIsShown, PTL
  <2>9. UNCHANGED Keyed!vars
    BY <2>1, <2>2, <2>7, <2>8 DEF MemShown, MemKept, Keyed!vars
  <2> QED
    BY <2>6, <2>9
<1>3. ASSUME InMemory!Step, UNCHANGED <<registered, saved, status>> PROVE MemInv' /\ Keyed!Next
  <2>0. MemKept
    BY <1>1, <1>3 DEF MemKept
  <2>1. ASSUME NEW h, h \in DOMAIN store, NEW mk \in Metakeys(h),
               \/ h \in ValueStates /\ InMemory!ValueOps(h, mk)
               \/ h \in MapStates /\ InMemory!MapOps(h, mk)
               \/ h \in VecStates /\ InMemory!VecOps(h, mk)
               \/ h \in ReducerStates /\ InMemory!ReducerOps(h, mk)
               \/ h \in AggregatorStates /\ InMemory!AggregatorOps(h, mk)
        PROVE  MemInv' /\ Keyed!Next
    <3>1. MemOn(h, mk)
      BY <2>0, <2>1 DEF MemOn, MemInv
    <3>2. Keyed!Operation(h, mk)
      BY <2>1, <3>1, MemValueOps, MemMapOps, MemVecOps, MemReducerOps, MemAggregatorOps
    <3>3. h \in DOMAIN Contents(store) /\ mk \in Keyed!Metakeys(h)
      BY <2>1, <3>1, SameBytes DEF MemOn, Contents
    <3>4. MemInv'
      BY <2>0, <2>1, MemOpsKeep
    <3> QED
      BY <3>2, <3>3, <3>4 DEF Keyed!Next
  <2>2. CASE InMemory!Checkpoint
    <3>1. reply' = <<None, "checkpoint", None>> /\ UNCHANGED store
      BY <2>2 DEF InMemory!Checkpoint
    <3>2. MemShown /\ MemShown'
      BY MemIsShown, PTL
    <3>3. Keyed!Checkpoint
      BY <2>0, <3>1, <3>2 DEF Keyed!Checkpoint, MemShown, MemKept
    <3>4. MemInv'
      BY <2>0, <3>1 DEF MemInv, MemKept
    <3> QED
      BY <3>3, <3>4 DEF Keyed!Next
  <2>3. CASE InMemory!Restart
    <3>1. reply' = <<None, "none", None>> /\ store' = EmptyTable /\ saved = EmptyTable
      BY <2>0, <2>3, SameBytes DEF InMemory!Restart, MemInv, MemKept
    <3>2. MemShown /\ MemShown'
      BY MemIsShown, PTL
    <3>3. Keyed!Restart
      BY <2>0, <3>1, <3>2 DEF Keyed!Restart, MemShown, MemKept
    <3>4. DOMAIN EmptyTable = {}
      BY DEF EmptyTable
    <3>5. MemInv'
      BY <2>0, <3>1, <3>4 DEF MemInv, MemKept
    <3> QED
      BY <3>3, <3>5 DEF Keyed!Next
  <2> QED
    BY <1>3, <2>1, <2>2, <2>3, SameBytes DEF InMemory!Step, InMemory!Registered
<1> QED
  BY <1>2, <1>3 DEF Next, Step, Register

\* For every set of states, keys and values, the InMemory backend is what
\* KeyedState describes: every operation works on the contents of its own
\* handle, item key and namespace only and answers from them, and a restart
\* leaves nothing (in_memory/mod.rs and *_ops.rs).
THEOREM InMemoryImplements == Spec /\ backend = "InMemory" => ImplementsKeyedState
<1> DEFINE Inv == backend = "InMemory" /\ MemInv
<1>1. Init /\ backend = "InMemory" => Inv /\ Keyed!Init
  BY MemInitIs
<1>2. Inv /\ [Next]_vars => Inv' /\ [Keyed!Next]_(Keyed!vars)
  <2> SUFFICES ASSUME Inv, [Next]_vars PROVE Inv' /\ [Keyed!Next]_(Keyed!vars)
    OBVIOUS
  <2>1. CASE Next
    <3>1. backend' = backend
      BY <2>1 DEF Next
    <3> QED
      BY <2>1, <3>1, MemStepIs
  <2>2. CASE UNCHANGED vars
    <3>1. MemInv'
      BY <2>2 DEF vars, MemInv
    <3>2. MemShown /\ MemShown'
      BY MemIsShown, PTL
    <3>3. UNCHANGED Keyed!vars
      BY <2>2, <3>2 DEF vars, Keyed!vars, MemShown
    <3> QED
      BY <2>2, <3>1, <3>3 DEF vars
  <2> QED
    BY <2>1, <2>2
<1> QED
  BY <1>1, <1>2, PTL DEF Spec, ImplementsKeyedState, Keyed!Spec

(****************************************************************************)
(* Faster implements KeyedState, with and without slower_faster.             *)
(****************************************************************************)

FasterBackends == {"Faster", "SlowerFaster"}

\* The operators of StateKeys are the same in both builds,
LEMMA FasterBytes ==
    /\ Faster!EmptyTable = EmptyTable /\ Faster!Keys = Keys /\ Faster!Values = Values /\ Faster!Lists = Lists
    /\ SlowerFaster!EmptyTable = EmptyTable /\ SlowerFaster!Keys = Keys /\ SlowerFaster!Values = Values
    /\ SlowerFaster!Lists = Lists /\ Keyed!Lists = Lists
    /\ \A h : Faster!Metakeys(h) = Metakeys(h) /\ SlowerFaster!Metakeys(h) = Metakeys(h)
    /\ \A n : Faster!Serialize(n) = Serialize(n) /\ SlowerFaster!Serialize(n) = Serialize(n)
    /\ \A b : Faster!Deserialize(b) = Deserialize(b) /\ SlowerFaster!Deserialize(b) = Deserialize(b)
    /\ \A n, b : SlowerFaster!KeyAfter(n, b) = KeyAfter(n, b)
    /\ \A a : Faster!AccumulatorBytes(a) = AccumulatorBytes(a) /\ SlowerFaster!AccumulatorBytes(a) = AccumulatorBytes(a)
    /\ \A b : Faster!ReadAccumulator(b) = ReadAccumulator(b) /\ SlowerFaster!ReadAccumulator(b) = ReadAccumulator(b)
<1>1. \A n : Faster!Serialize(n) = Serialize(n) /\ SlowerFaster!Serialize(n) = Serialize(n)
  BY DEF Faster!Serialize, SlowerFaster!Serialize, Serialize, Faster!Payload, SlowerFaster!Payload, Payload
<1>2. \A b : Faster!Deserialize(b) = Deserialize(b) /\ SlowerFaster!Deserialize(b) = Deserialize(b)
  BY DEF Faster!Deserialize, SlowerFaster!Deserialize, Deserialize
<1>3. \A n, b : SlowerFaster!KeyAfter(n, b) = KeyAfter(n, b)
  BY <1>2 DEF SlowerFaster!KeyAfter, KeyAfter
<1>4. /\ \A a : Faster!AccumulatorBytes(a) = AccumulatorBytes(a) /\ SlowerFaster!AccumulatorBytes(a) = AccumulatorBytes(a)
      /\ \A b : Faster!ReadAccumulator(b) = ReadAccumulator(b) /\ SlowerFaster!ReadAccumulator(b) = ReadAccumulator(b)
  BY DEF Faster!AccumulatorBytes, SlowerFaster!AccumulatorBytes, AccumulatorBytes, Faster!ReadAccumulator,
     SlowerFaster!ReadAccumulator, ReadAccumulator, Faster!ACCUMULATOR_MARKER, SlowerFaster!ACCUMULATOR_MARKER,
     ACCUMULATOR_MARKER
<1>5. /\ Faster!EmptyTable = EmptyTable /\ Faster!Keys = Keys /\ Faster!Values = Values
      /\ SlowerFaster!EmptyTable = EmptyTable /\ SlowerFaster!Keys = Keys /\ SlowerFaster!Values = Values
  BY DEF Faster!EmptyTable, SlowerFaster!EmptyTable, EmptyTable, Faster!Keys, SlowerFaster!Keys, Keys,
     Faster!Values, SlowerFaster!Values, Values
<1>6. Faster!Lists = Lists /\ SlowerFaster!Lists = Lists /\ Keyed!Lists = Lists
  BY <1>5, SameBytes DEF Faster!Lists, SlowerFaster!Lists, Keyed!Lists, Lists, Faster!BoundedSeq, SlowerFaster!BoundedSeq,
     Keyed!BoundedSeq, BoundedSeq, Faster!SeqOf, SlowerFaster!SeqOf, Keyed!SeqOf, SeqOf
<1>7. \A h : Faster!Metakeys(h) = Metakeys(h) /\ SlowerFaster!Metakeys(h) = Metakeys(h)
  BY DEF Faster!Metakeys, SlowerFaster!Metakeys, Metakeys
<1> QED
  BY <1>1, <1>2, <1>3, <1>4, <1>5, <1>6, <1>7

\* and so are the keys of the database, and what is read of a record.
LEMMA FasterKeys ==
    /\ \A h, mk : Faster!Key(h, mk) = ListKey(h, mk) /\ SlowerFaster!Key(h, mk) = ListKey(h, mk)
    /\ \A h, mk, k : Faster!EntryKey(h, mk, k) = SlowerFaster!EntryKey(h, mk, k)
    /\ \A r : Faster!AsVec(r) = SlowerFaster!AsVec(r)
    /\ \A t, key, v : Faster!With(t, key, v) = SlowerFaster!With(t, key, v)
    /\ \A t, K : Faster!Without(t, K) = SlowerFaster!Without(t, K)
    /\ \A op, d : Faster!Rec(op, d) = SlowerFaster!Rec(op, d)
    /\ \A t, key : Faster!Aggregated(t, key) = SlowerFaster!Aggregated(t, key)
<1>1. \A h, mk : Faster!Key(h, mk) = ListKey(h, mk) /\ SlowerFaster!Key(h, mk) = ListKey(h, mk)
  BY DEF ListKey, Faster!Key, SlowerFaster!Key, Faster!SerializeIdAndMetakeys, SlowerFaster!SerializeIdAndMetakeys,
     Faster!SerializeMetakeys, SlowerFaster!SerializeMetakeys, Faster!FixedBytes, SlowerFaster!FixedBytes
<1>2. \A h, mk, k : Faster!EntryKey(h, mk, k) = SlowerFaster!EntryKey(h, mk, k)
  BY <1>1, FasterBytes DEF Faster!EntryKey, SlowerFaster!EntryKey, Faster!SerializeIdMetakeysAndKey,
     SlowerFaster!SerializeIdMetakeysAndKey, Faster!Key, SlowerFaster!Key
<1>3. \A r : Faster!AsVec(r) = SlowerFaster!AsVec(r)
  BY DEF Faster!AsVec, SlowerFaster!AsVec
<1>4. /\ \A t, key, v : Faster!With(t, key, v) = SlowerFaster!With(t, key, v)
      /\ \A t, K : Faster!Without(t, K) = SlowerFaster!Without(t, K)
      /\ \A op, d : Faster!Rec(op, d) = SlowerFaster!Rec(op, d)
  BY DEF Faster!With, SlowerFaster!With, Faster!Without, SlowerFaster!Without, Faster!Rec, SlowerFaster!Rec
<1>5. \A t, key : Faster!Aggregated(t, key) = SlowerFaster!Aggregated(t, key)
  BY FasterBytes DEF Faster!Aggregated, SlowerFaster!Aggregated, Faster!AccumulatorOf, SlowerFaster!AccumulatorOf,
     Faster!CreateAccumulator, SlowerFaster!CreateAccumulator, Faster!Add, SlowerFaster!Add,
     Faster!ACCUMULATOR_MARKER, SlowerFaster!ACCUMULATOR_MARKER
<1> QED
  BY <1>1, <1>2, <1>3, <1>4, <1>5

\* What the database has for a state, an item key and a namespace.
RawIn(T, b) == IF b \in DOMAIN T THEN Deserialize(T[b].data) ELSE None
ListIn(T, b) == IF b \in DOMAIN T THEN SlowerFaster!AsVec(T[b]) ELSE <<>>
DecodedItems(list) == [i \in 1..Len(list) |-> Deserialize(list[i])]
FasterHas(T, h, mk) ==
    IF h \in MapStates THEN [k \in Keys |-> RawIn(T, SlowerFaster!EntryKey(h, mk, k))]
    ELSE IF h \in ValueStates \cup ReducerStates THEN RawIn(T, ListKey(h, mk))
    ELSE IF h \in VecStates THEN DecodedItems(ListIn(T, ListKey(h, mk)))
    ELSE SlowerFaster!Aggregated(T, ListKey(h, mk))
FasterContents(ds, T) == [h \in ds |-> [mk \in Metakeys(h) |-> FasterHas(T, h, mk)]]

\* That is what KeyedState is shown of it.
LEMMA FasterContentsAre ==
    ASSUME backend \in FasterBackends, NEW T
    PROVE  Contents(T) = FasterContents(declared, T)
<1>1. ASSUME NEW h, NEW mk PROVE ContentIn(T, h, mk) = FasterHas(T, h, mk)
  <2>1. ContentIn(T, h, mk) = Faster!ContentIn(T, h, mk)
    BY DEF ContentIn, FasterBackends
  <2>2. CASE h \in MapStates
    <3>1. h \notin ValueStates \cup ReducerStates /\ h \notin VecStates
      BY <2>2, IdsAssumption
    <3>2. Faster!ContentIn(T, h, mk) = [k \in Faster!Keys |-> IF Faster!EntryKey(h, mk, k) \in DOMAIN T
                                          THEN Faster!Deserialize(T[Faster!EntryKey(h, mk, k)].data) ELSE None]
      BY <2>2, <3>1 DEF Faster!ContentIn
    <3> QED
      BY <2>1, <2>2, <3>2, FasterBytes, FasterKeys DEF FasterHas, RawIn
  <2>3. CASE h \notin MapStates /\ h \in ValueStates \cup ReducerStates
    <3>1. h \notin VecStates
      BY <2>3, IdsAssumption
    <3>2. Faster!ContentIn(T, h, mk) = IF Faster!Key(h, mk) \in DOMAIN T
                                       THEN Faster!Deserialize(T[Faster!Key(h, mk)].data) ELSE None
      BY <2>3, <3>1 DEF Faster!ContentIn
    <3> QED
      BY <2>1, <2>3, <3>2, FasterBytes, FasterKeys DEF FasterHas, RawIn
  <2>4. CASE h \notin MapStates /\ h \notin ValueStates \cup ReducerStates /\ h \in VecStates
    <3>1. PICK key : key = Faster!Key(h, mk)
      OBVIOUS
    <3>2. PICK list : list = IF key \in DOMAIN T THEN Faster!AsVec(T[key]) ELSE <<>>
      OBVIOUS
    <3>3. Faster!ContentIn(T, h, mk) = [i \in 1..Len(list) |-> Faster!Deserialize(list[i])]
      BY <2>4, <3>1, <3>2 DEF Faster!ContentIn
    <3>4. list = ListIn(T, ListKey(h, mk))
      BY <3>1, <3>2, FasterKeys DEF ListIn
    <3> QED
      BY <2>1, <2>4, <3>3, <3>4, FasterBytes DEF FasterHas, DecodedItems
  <2>5. CASE h \notin MapStates /\ h \notin ValueStates \cup ReducerStates /\ h \notin VecStates
    <3>1. Faster!ContentIn(T, h, mk) = Faster!Aggregated(T, Faster!Key(h, mk))
      BY <2>5 DEF Faster!ContentIn
    <3> QED
      BY <2>1, <2>5, <3>1, FasterKeys DEF FasterHas
  <2> QED
    BY <2>2, <2>3, <2>4, <2>5
<1> QED
  BY <1>1 DEF Contents, FasterContents

\* And of its checkpoint, which is durable.
FasterShown ==
    backend \in FasterBackends =>
        /\ Contents(store) = FasterContents(declared, store)
        /\ Contents(IF backend = "SledCheckpoints" THEN Sled!Exported ELSE saved)
             = FasterContents(declared, saved)
        /\ (backend \notin {"InMemory", "Sled"}) = TRUE

\* It is.
LEMMA FasterIsShown == FasterShown
  BY FasterContentsAre DEF FasterShown, FasterBackends

\* An operation on one item key and namespace of one state leaves what the
\* others have: they are under other keys.
LEMMA FasterElsewhere ==
    ASSUME NEW T, NEW U, NEW h, NEW mk \in Metakeys(h), SameBut(T, U, {ListKey(h, mk)} \cup EntryKeys(h, mk)),
           NEW g, NEW mg \in Metakeys(g), g # h \/ mg # mk
    PROVE  FasterHas(U, g, mg) = FasterHas(T, g, mg)
<1>1. PICK key, K : key = ListKey(g, mg) /\ K = {ListKey(h, mk)} \cup EntryKeys(h, mk)
  OBVIOUS
<1>2. key \notin K /\ EntryKeys(g, mg) \cap K = {}
  BY <1>1, KeysApart, FasterBytes
<1>3. (key \in DOMAIN T <=> key \in DOMAIN U) /\ (key \in DOMAIN T => U[key] = T[key])
  BY <1>1, <1>2 DEF SameBut
<1>4. \A k \in Keys : RawIn(U, SlowerFaster!EntryKey(g, mg, k)) = RawIn(T, SlowerFaster!EntryKey(g, mg, k))
  <2> SUFFICES ASSUME NEW k \in Keys
               PROVE  RawIn(U, SlowerFaster!EntryKey(g, mg, k)) = RawIn(T, SlowerFaster!EntryKey(g, mg, k))
    OBVIOUS
  <2>1. PICK e : e = SlowerFaster!EntryKey(g, mg, k)
    OBVIOUS
  <2>2. e \notin K
    BY <1>2, <2>1, FasterBytes DEF EntryKeys
  <2> QED
    BY <1>1, <2>1, <2>2 DEF SameBut, RawIn
<1>5. RawIn(U, key) = RawIn(T, key) /\ ListIn(U, key) = ListIn(T, key)
      /\ SlowerFaster!Aggregated(U, key) = SlowerFaster!Aggregated(T, key)
  BY <1>3 DEF RawIn, ListIn, SlowerFaster!Aggregated
<1> QED
  BY <1>1, <1>4, <1>5 DEF FasterHas

\* One place of the contents changes.
ChangedAt(C, D, h, mk, new) == D = [C EXCEPT ![h][mk] = new]
\* It is the one that the keys belong to.
LEMMA FasterOneChange ==
    ASSUME NEW ds, NEW T, NEW U, NEW h \in ds, NEW mk \in Metakeys(h), NEW new, new = FasterHas(U, h, mk),
           SameBut(T, U, {ListKey(h, mk)} \cup EntryKeys(h, mk))
    PROVE  ChangedAt(FasterContents(ds, T), FasterContents(ds, U), h, mk, new)
<1>1. PICK C : C = FasterContents(ds, T)
  OBVIOUS
<1>2. /\ DOMAIN C = ds /\ C = [g \in ds |-> C[g]]
      /\ \A g \in ds : C[g] = [m \in Metakeys(g) |-> FasterHas(T, g, m)]
  BY <1>1 DEF FasterContents
<1>6. \A m \in Metakeys(h) : m # mk => FasterHas(U, h, m) = FasterHas(T, h, m)
  BY FasterElsewhere
<1>3. [m \in Metakeys(h) |-> FasterHas(U, h, m)] = [C[h] EXCEPT ![mk] = new]
  BY <1>2, <1>6
<1>4. ASSUME NEW g \in ds
      PROVE  (IF g = h THEN [C[h] EXCEPT ![mk] = new] ELSE C[g]) = [m \in Metakeys(g) |-> FasterHas(U, g, m)]
  <2>1. CASE g = h
    BY <1>3, <2>1
  <2>2. CASE g # h
    <3>1. \A m \in Metakeys(g) : FasterHas(U, g, m) = FasterHas(T, g, m)
      BY <2>2, FasterElsewhere
    <3> QED
      BY <1>2, <2>2, <3>1
  <2> QED
    BY <2>1, <2>2
<1>5. [C EXCEPT ![h] = [C[h] EXCEPT ![mk] = new]] = [g \in ds |-> IF g = h THEN [C[h] EXCEPT ![mk] = new] ELSE C[g]]
  BY <1>2
<1> QED
  BY <1>1, <1>4, <1>5 DEF FasterContents, ChangedAt

\* The operations that change the database, and the ones that do not.
FasterWrites(h, U, op, answer) == store' = U /\ saved' = saved /\ reply' = <<h, op, answer>>
FasterReads(h, op, answer) == FasterWrites(h, store, op, answer)

\* They are the ones of both builds.
LEMMA FasterWriteIs ==
    ASSUME NEW h, NEW U, NEW op, NEW answer
    PROVE  /\ SlowerFaster!Writes(h, U, op, answer) \/ Faster!Writes(h, U, op, answer) => FasterWrites(h, U, op, answer)
           /\ SlowerFaster!Reads(h, op, answer) \/ Faster!Reads(h, op, answer) => FasterReads(h, op, answer)
  BY DEF SlowerFaster!Writes, Faster!Writes, FasterWrites, SlowerFaster!Reads, Faster!Reads, FasterReads

\* And those of KeyedState.
LEMMA FasterRead ==
    ASSUME backend \in FasterBackends, UNCHANGED <<backend, declared>>, NEW h, NEW op, NEW answer,
           FasterReads(h, op, answer)
    PROVE  Keyed!Reads(h, op, answer)
<1>1. FasterShown /\ FasterShown'
  BY FasterIsShown, PTL
<1>2. /\ Contents(store) = FasterContents(declared, store)
      /\ Contents(IF backend = "SledCheckpoints" THEN Sled!Exported ELSE saved) = FasterContents(declared, saved)
      /\ (backend \notin {"InMemory", "Sled"}) = TRUE
  BY <1>1 DEF FasterShown
<1>3. /\ Contents(store)' = FasterContents(declared, store)
      /\ Contents(IF backend = "SledCheckpoints" THEN Sled!Exported ELSE saved)' = FasterContents(declared, saved)
      /\ (backend \notin {"InMemory", "Sled"})' = TRUE
  BY <1>1 DEF FasterShown, FasterReads, FasterWrites
<1> QED
  BY <1>2, <1>3 DEF Keyed!Reads, FasterReads, FasterWrites

\* The state an operation works on.
FasterOn(h, mk) ==
    backend \in FasterBackends /\ UNCHANGED <<backend, declared>> /\ h \in declared /\ mk \in Metakeys(h)

\* A write changes what the state has under the item key and namespace.
LEMMA FasterWritten ==
    ASSUME NEW h, NEW mk, FasterOn(h, mk), NEW U, NEW new, NEW op, NEW answer, new = FasterHas(U, h, mk),
           SameBut(store, U, {ListKey(h, mk)} \cup EntryKeys(h, mk)), FasterWrites(h, U, op, answer)
    PROVE  Keyed!Writes(h, mk, new, op, answer)
<1>1. FasterShown /\ FasterShown'
  BY FasterIsShown, PTL
<1>0. h \in declared /\ mk \in Metakeys(h)
  BY DEF FasterOn
<1>2. ChangedAt(FasterContents(declared, store), FasterContents(declared, U), h, mk, new)
  BY <1>0, FasterOneChange
<1>3. /\ Contents(store) = FasterContents(declared, store)
      /\ Contents(IF backend = "SledCheckpoints" THEN Sled!Exported ELSE saved) = FasterContents(declared, saved)
      /\ (backend \notin {"InMemory", "Sled"}) = TRUE
  BY <1>1 DEF FasterShown, FasterOn
<1>4. /\ Contents(store)' = FasterContents(declared, U)
      /\ Contents(IF backend = "SledCheckpoints" THEN Sled!Exported ELSE saved)' = FasterContents(declared, saved)
      /\ (backend \notin {"InMemory", "Sled"})' = TRUE
  BY <1>1 DEF FasterShown, FasterOn, FasterWrites
<1> QED
  BY <1>2, <1>3, <1>4 DEF Keyed!Writes, FasterWrites, ChangedAt

\* A read answers from it.
LEMMA FasterContentOf ==
    ASSUME NEW h, NEW mk, FasterOn(h, mk)
    PROVE  Contents(store)[h][mk] = FasterHas(store, h, mk)
  BY FasterContentsAre DEF FasterContents, FasterOn

\* The bytes of values, and of aggregates: accumulators and single values.
ValuesBytes == {Serialize(v) : v \in Values}
Aggregates == {AccumulatorBytes(acc) : acc \in Seq(Nat)} \cup {<<VALUE_MARKER>> \o Serialize(v) : v \in Values}

\* A value is read back,
LEMMA ValueRead ==
    /\ \A v \in Values : Serialize(v) \in ValuesBytes /\ Deserialize(Serialize(v)) = v
    /\ \A b \in ValuesBytes : b # None /\ b \in Seq(Nat) /\ Deserialize(b) \in Values /\ Serialize(Deserialize(b)) = b
    /\ None \notin Values /\ Values \subseteq Nat
<1>1. None \notin Values /\ Values \subseteq Nat
  BY KeysAssumption DEF Values, U8Max
<1>2. \A v \in Values : Serialize(v) \in Seq(Nat) /\ Deserialize(Serialize(v)) = v
  BY <1>1, KeyOf
<1> QED
  BY <1>1, <1>2, KeysAssumption DEF ValuesBytes

\* an accumulator,
LEMMA AccumulatorRead ==
    ASSUME NEW acc \in Seq(Nat), NEW b, b = AccumulatorBytes(acc)
    PROVE  b # None /\ Head(b) = ACCUMULATOR_MARKER /\ ReadAccumulator(b) = acc
<1>1. acc \in Seq(Nat) /\ Len(acc) \in Nat
  OBVIOUS
<1>2. PICK n, m : n \in Nat /\ n = Len(acc) /\ m = <<172, n>>
  BY <1>1
<1>3. Len(m) = 2 /\ m[1] = 172
  BY <1>2
<1>9. m \in Seq(Nat)
  BY <1>2
<1>4. b = m \o acc
  BY <1>2 DEF AccumulatorBytes, ACCUMULATOR_MARKER
<1>5. /\ b \in Seq(Nat) /\ Len(b) = Len(m) + Len(acc) /\ \A i \in 1..Len(m) : b[i] = m[i]
      /\ SubSeq(b, Len(m) + 1, Len(b)) = acc
  BY <1>4, <1>9, BehindPrefix
<1>6. b[1] = 172 /\ b # <<>>
  BY <1>1, <1>3, <1>5
<1>7. Head(b) = 172
  BY <1>5, <1>6
<1>8. ReadAccumulator(b) = acc
  BY <1>3, <1>5 DEF ReadAccumulator
<1> QED
  BY <1>5, <1>7, <1>8, KeysAssumption DEF ACCUMULATOR_MARKER

\* and a value behind its marker.
LEMMA MarkedRead ==
    ASSUME NEW v \in Values, NEW b, b = <<VALUE_MARKER>> \o Serialize(v)
    PROVE  b # None /\ Head(b) # ACCUMULATOR_MARKER /\ Deserialize(Tail(b)) = v
<1>1. PICK s : s = Serialize(v)
  OBVIOUS
<1>2. s \in Seq(Nat) /\ Deserialize(s) = v
  BY <1>1, ValueRead
<1>3. PICK z \in Nat : z = 0 /\ b = <<z>> \o s
  BY <1>1 DEF VALUE_MARKER
<1>4. b \in Seq(Nat) /\ Len(b) = Len(s) + 1 /\ b[1] = 0 /\ \A i \in 1..Len(s) : b[i + 1] = s[i]
  <2>1. /\ <<z>> \o s \in Seq(Nat) /\ Len(<<z>> \o s) = Len(s) + 1 /\ (<<z>> \o s)[1] = z
        /\ \A i \in 1..Len(s) : (<<z>> \o s)[i + 1] = s[i]
    BY <1>2, Prefixed
  <2> QED
    BY <1>3, <2>1, Zenon
<1>8. Len(s) \in Nat /\ b # <<>>
  BY <1>2, <1>4
<1>9. Tail(b) \in Seq(Nat) /\ Len(Tail(b)) = Len(b) - 1 /\ \A i \in 1..Len(Tail(b)) : Tail(b)[i] = b[i + 1]
  BY <1>4, <1>8, HeadTailProperties
<1>5. PICK t : t = Tail(b)
  OBVIOUS
<1>6. t = s
  <2>1. (Len(s) + 1) - 1 = Len(s)
    BY <1>8
  <2>2. Len(t) = Len(s)
    BY <1>4, <1>5, <1>9, <2>1
  <2>3. t \in Seq(Nat) /\ \A i \in 1..Len(t) : t[i] = b[i + 1]
    BY <1>5, <1>9
  <2>4. \A i \in 1..Len(t) : t[i] = s[i]
    BY <1>4, <2>2, <2>3
  <2> QED
    BY <1>2, <2>2, <2>3, <2>4, SeqEqual
<1>7. Head(b) = 0
  BY <1>4, <1>8
<1>10. b # None
  BY <1>4, KeysAssumption
<1>11. Head(b) # ACCUMULATOR_MARKER
  BY <1>7 DEF ACCUMULATOR_MARKER
<1> QED
  BY <1>2, <1>5, <1>6, <1>10, <1>11

\* The key of a map is behind the id and the metakeys in that of an entry.
LEMMA EntryKeyRead ==
    ASSUME NEW h, NEW mk \in Metakeys(h), NEW k \in Keys
    PROVE  KeyAfter(Len(mk) + 1, SlowerFaster!EntryKey(h, mk, k)) = k
<1>1. PICK m : m = SerializeMetakeys(mk)
  OBVIOUS
<1>2. m \in Seq(Nat) /\ Len(m) \in Nat /\ Len(mk) = Len(m)
  BY <1>1, MetakeyOf
<1>3. PICK p : p = <<h>> \o m
  OBVIOUS
<1>4. m \in Seq(Nat \cup {h})
  BY <1>2
<1>5. p \in Seq(Nat \cup {h}) /\ Len(p) = Len(m) + 1
  BY <1>3, <1>4, Prefixed
<1>6. PICK b : b = Serialize(k)
  OBVIOUS
<1>7. b \in Seq(Nat) /\ Deserialize(b) = k
  <2>1. k \in Nat
    BY KeysAssumption DEF Keys, U8Max
  <2> QED
    BY <1>6, <2>1, KeyOf
<1>8. b \in Seq(Nat \cup {h})
  BY <1>7
<1>9. PICK e : e = SlowerFaster!EntryKey(h, mk, k)
  OBVIOUS
<1>10. e = p \o b
  <2>1. SlowerFaster!SerializeMetakeys(mk) = m
    BY <1>1 DEF SlowerFaster!SerializeMetakeys, SerializeMetakeys, SlowerFaster!FixedBytes, FixedBytes
  <2> QED
    BY <1>3, <1>6, <1>9, <2>1, FasterBytes DEF SlowerFaster!EntryKey, SlowerFaster!SerializeIdMetakeysAndKey,
       SlowerFaster!SerializeIdAndMetakeys
<1>11. SubSeq(e, Len(p) + 1, Len(e)) = b
  BY <1>5, <1>8, <1>10, BehindPrefix
<1> QED
  BY <1>2, <1>5, <1>7, <1>9, <1>11 DEF KeyAfter

\* What is stored under the keys of a state.
FitsAt(T, h, mk) ==
    /\ h \in MapStates => \A e \in EntryKeys(h, mk) \cap DOMAIN T : T[e].data \in ValuesBytes
    /\ ListKey(h, mk) \in DOMAIN T =>
         /\ h \in ValueStates \cup ReducerStates => T[ListKey(h, mk)].data \in ValuesBytes
         /\ h \in VecStates => SlowerFaster!AsVec(T[ListKey(h, mk)]) \in Seq(ValuesBytes)
         /\ h \in AggregatorStates => T[ListKey(h, mk)].data \in Aggregates
Fits(T) == \A h \in Handles : \A mk \in Metakeys(h) : FitsAt(T, h, mk)

\* An operation on one state leaves what fits the others.
LEMMA FitsStill ==
    ASSUME NEW T, NEW U, Fits(T), NEW h, NEW mk \in Metakeys(h), FitsAt(U, h, mk),
           SameBut(T, U, {ListKey(h, mk)} \cup EntryKeys(h, mk))
    PROVE  Fits(U)
<1> SUFFICES ASSUME NEW g \in Handles, NEW mg \in Metakeys(g) PROVE FitsAt(U, g, mg)
  BY DEF Fits
<1>1. FitsAt(T, g, mg)
  BY DEF Fits
<1>2. CASE g = h /\ mg = mk
  BY <1>2
<1>3. CASE g # h \/ mg # mk
  <2>1. PICK key, K, E : key = ListKey(g, mg) /\ K = {ListKey(h, mk)} \cup EntryKeys(h, mk) /\ E = EntryKeys(g, mg)
    OBVIOUS
  <2>2. key \notin K /\ E \cap K = {}
    BY <1>3, <2>1, KeysApart, FasterBytes
  <2>3. (key \in DOMAIN T <=> key \in DOMAIN U) /\ (key \in DOMAIN T => U[key] = T[key])
    BY <2>1, <2>2 DEF SameBut
  <2>4. \A e \in E : (e \in DOMAIN T <=> e \in DOMAIN U) /\ (e \in DOMAIN T => U[e] = T[e])
    BY <2>1, <2>2 DEF SameBut
  <2> QED
    BY <1>1, <2>1, <2>3, <2>4 DEF FitsAt
<1> QED
  BY <1>2, <1>3

\* What an operation makes of the database and of the contents.
FasterDoes(h, mk) == Keyed!Operation(h, mk) /\ Fits(store') /\ saved' = saved

\* An operation that only reads,
LEMMA FasterReadDone ==
    ASSUME NEW h, NEW mk, FasterOn(h, mk), Fits(store), NEW op, NEW answer, FasterReads(h, op, answer)
    PROVE  Keyed!Reads(h, op, answer) /\ Fits(store') /\ saved' = saved
  BY FasterRead DEF FasterReads, FasterWrites, FasterOn

\* and one that writes.
LEMMA FasterWriteDone ==
    ASSUME NEW h, NEW mk, FasterOn(h, mk), Fits(store), NEW U, NEW new, NEW op, NEW answer,
           new = FasterHas(U, h, mk), FitsAt(U, h, mk),
           SameBut(store, U, {ListKey(h, mk)} \cup EntryKeys(h, mk)), FasterWrites(h, U, op, answer)
    PROVE  Keyed!Writes(h, mk, new, op, answer) /\ Fits(store') /\ saved' = saved
<1>1. Keyed!Writes(h, mk, new, op, answer)
  BY FasterWritten
<1>2. mk \in Metakeys(h)
  BY DEF FasterOn
<1>3. Fits(U)
  BY <1>2, FitsStill
<1> QED
  BY <1>1, <1>3 DEF FasterWrites

\* The key of a state that is no map is written
LEMMA CellWritten ==
    ASSUME NEW h, h \notin MapStates, NEW mk, FasterOn(h, mk), Fits(store), NEW rec, NEW U, NEW new, NEW op, NEW answer,
           U = SlowerFaster!With(store, ListKey(h, mk), rec),
           new = FasterHas(U, h, mk), FitsAt(U, h, mk), FasterWrites(h, U, op, answer)
    PROVE  Keyed!Writes(h, mk, new, op, answer) /\ Fits(store') /\ saved' = saved
<1>1. SameBut(store, U, {ListKey(h, mk)} \cup EntryKeys(h, mk))
  BY DEF SameBut, SlowerFaster!With
<1> QED
  BY <1>1, FasterWriteDone

\* or removed.
LEMMA CellCleared ==
    ASSUME NEW h, h \notin MapStates, NEW mk, FasterOn(h, mk), Fits(store), NEW U,
           U = SlowerFaster!Without(store, {ListKey(h, mk)}), FasterWrites(h, U, "clear", mk)
    PROVE  FasterDoes(h, mk)
<1>1. PICK key : key = ListKey(h, mk)
  OBVIOUS
<1>2. SameBut(store, U, {key}) /\ key \notin DOMAIN U
  BY <1>1 DEF SameBut, SlowerFaster!Without
<1>3. SameBut(store, U, {ListKey(h, mk)} \cup EntryKeys(h, mk))
  BY <1>1, <1>2 DEF SameBut
<1>4. FitsAt(U, h, mk)
  BY <1>1, <1>2 DEF FitsAt
<1>5. FasterHas(U, h, mk) = Keyed!Nothing(h)
  <2>1. DecodedItems(<<>>) = <<>>
    BY DEF DecodedItems
  <2> QED
    BY <1>1, <1>2, <2>1 DEF FasterHas, RawIn, ListIn, SlowerFaster!Aggregated, SlowerFaster!CreateAccumulator,
       Keyed!Nothing
<1>6. Keyed!Writes(h, mk, Keyed!Nothing(h), "clear", mk) /\ Fits(store') /\ saved' = saved
  BY <1>3, <1>4, <1>5, FasterWriteDone
<1> QED
  BY <1>6 DEF FasterDoes, Keyed!Operation, Keyed!Clear

\* The operations on values,
LEMMA FasterValueOps ==
    ASSUME NEW h \in ValueStates, NEW mk, FasterOn(h, mk), Fits(store), SlowerFaster!ValueOps(h, mk)
    PROVE  FasterDoes(h, mk)
<1>1. h \notin MapStates /\ h \notin VecStates /\ h \notin AggregatorStates /\ h \in Handles /\ mk \in Metakeys(h)
  BY IdsAssumption DEF Handles, FasterOn
<1>2. PICK key, c : key = ListKey(h, mk) /\ c = Contents(store)[h][mk]
  OBVIOUS
<1>3. c = RawIn(store, key) /\ (key \in DOMAIN store => store[key].data \in ValuesBytes)
  BY <1>1, <1>2, FasterContentOf DEF FasterHas, Fits, FitsAt
<1>4. SlowerFaster!Decoded(SlowerFaster!Get(key)) = c
  BY <1>3, ValueRead, FasterBytes DEF SlowerFaster!Decoded, SlowerFaster!Get, RawIn
<1>5. ASSUME Keyed!Value(h, mk) PROVE Keyed!Operation(h, mk)
  BY <1>5 DEF Keyed!Operation
<1>6. CASE SlowerFaster!ValueClear(h, mk)
  BY <1>1, <1>6, FasterWriteIs, CellCleared, FasterKeys DEF SlowerFaster!ValueClear
<1>7. CASE SlowerFaster!ValueGet(h, mk)
  <2>1. Keyed!Reads(h, "get", c) /\ Fits(store') /\ saved' = saved
    BY <1>2, <1>4, <1>7, FasterWriteIs, FasterReadDone, FasterKeys DEF SlowerFaster!ValueGet
  <2> QED
    BY <1>2, <1>5, <2>1 DEF FasterDoes, Keyed!Value
<1>8. ASSUME NEW v \in Values, SlowerFaster!ValueSet(h, mk, v) \/ SlowerFaster!ValueFastSet(h, mk, v)
      PROVE  FasterDoes(h, mk)
  <2>1. PICK rec, U : rec = SlowerFaster!Rec("Raw", Serialize(v)) /\ U = SlowerFaster!With(store, key, rec)
    OBVIOUS
  <2>2. FasterWrites(h, U, "set", c) \/ FasterWrites(h, U, "fast_set", None)
    BY <1>2, <1>4, <1>8, <2>1, FasterWriteIs, FasterKeys, FasterBytes
       DEF SlowerFaster!ValueSet, SlowerFaster!ValueFastSet, SlowerFaster!Put
  <2>3. key \in DOMAIN U /\ U[key] = rec /\ rec.data = Serialize(v)
    BY <2>1 DEF SlowerFaster!With, SlowerFaster!Rec
  <2>4. FasterHas(U, h, mk) = v /\ FitsAt(U, h, mk)
    BY <1>1, <1>2, <2>3, ValueRead DEF FasterHas, RawIn, FitsAt
  <2>5. /\ Keyed!Writes(h, mk, v, "set", c) \/ Keyed!Writes(h, mk, v, "fast_set", None)
        /\ Fits(store') /\ saved' = saved
    BY <1>1, <1>2, <2>1, <2>2, <2>4, CellWritten
  <2> QED
    BY <1>2, <1>5, <1>8, <2>5, SameBytes DEF FasterDoes, Keyed!Value
<1> QED
  BY <1>6, <1>7, <1>8, FasterBytes DEF SlowerFaster!ValueOps

\* on reducers,
LEMMA FasterReducerOps ==
    ASSUME NEW h \in ReducerStates, NEW mk, FasterOn(h, mk), Fits(store), SlowerFaster!ReducerOps(h, mk)
    PROVE  FasterDoes(h, mk)
<1>1. h \notin MapStates /\ h \notin VecStates /\ h \notin AggregatorStates /\ h \in Handles /\ mk \in Metakeys(h)
  BY IdsAssumption DEF Handles, FasterOn
<1>2. PICK key, c : key = ListKey(h, mk) /\ c = Contents(store)[h][mk]
  OBVIOUS
<1>3. c = RawIn(store, key) /\ (key \in DOMAIN store => store[key].data \in ValuesBytes)
  BY <1>1, <1>2, FasterContentOf DEF FasterHas, Fits, FitsAt
<1>4. SlowerFaster!Decoded(SlowerFaster!Get(key)) = c
  BY <1>3, ValueRead, FasterBytes DEF SlowerFaster!Decoded, SlowerFaster!Get, RawIn
<1>5. ASSUME Keyed!Reducer(h, mk) PROVE Keyed!Operation(h, mk)
  BY <1>5 DEF Keyed!Operation
<1>6. CASE SlowerFaster!ReducerClear(h, mk)
  BY <1>1, <1>6, FasterWriteIs, CellCleared, FasterKeys DEF SlowerFaster!ReducerClear
<1>7. CASE SlowerFaster!ReducerGet(h, mk)
  <2>1. Keyed!Reads(h, "get", c) /\ Fits(store') /\ saved' = saved
    BY <1>2, <1>4, <1>7, FasterWriteIs, FasterReadDone, FasterKeys DEF SlowerFaster!ReducerGet
  <2> QED
    BY <1>2, <1>5, <2>1 DEF FasterDoes, Keyed!Reducer
<1>8. ASSUME NEW v \in Values, SlowerFaster!ReducerReduce(h, mk, v)
      PROVE  FasterDoes(h, mk)
  <2>0. PICK new : new = IF c = None THEN v ELSE Keyed!Reduce(c, v)
    OBVIOUS
  <2>1. PICK rec, U : /\ rec = IF key \notin DOMAIN store THEN SlowerFaster!Rec("Modify", Serialize(v))
                               ELSE SlowerFaster!Rec("Value", SlowerFaster!ReduceFn(store[key].data, Serialize(v)))
                      /\ U = SlowerFaster!With(store, key, rec)
    OBVIOUS
  <2>2. FasterWrites(h, U, "reduce", None)
    BY <1>2, <1>8, <2>1, FasterWriteIs, FasterKeys, FasterBytes DEF SlowerFaster!ReducerReduce, SlowerFaster!Aggregate
  <2>3. rec.data = Serialize(new) /\ new \in Values
    <3>1. CASE key \notin DOMAIN store
      BY <1>3, <2>0, <2>1, <3>1 DEF RawIn, SlowerFaster!Rec
    <3>2. CASE key \in DOMAIN store
      <4>1. PICK old : old = store[key].data
        OBVIOUS
      <4>2. c = Deserialize(old) /\ c \in Values /\ c # None
        BY <1>3, <3>2, <4>1, ValueRead DEF RawIn
      <4>3. SlowerFaster!Reduce(c, v) = Keyed!Reduce(c, v) /\ Keyed!Reduce(c, v) \in {c, v}
        BY DEF SlowerFaster!Reduce, Keyed!Reduce
      <4>4. rec.data = SlowerFaster!ReduceFn(old, Serialize(v))
        BY <2>1, <3>2, <4>1 DEF SlowerFaster!Rec
      <4>5. SlowerFaster!ReduceFn(old, Serialize(v)) = Serialize(SlowerFaster!Reduce(c, v))
        BY <4>2, FasterBytes, ValueRead DEF SlowerFaster!ReduceFn
      <4> QED
        BY <2>0, <4>2, <4>3, <4>4, <4>5
    <3> QED
      BY <3>1, <3>2
  <2>4. key \in DOMAIN U /\ U[key] = rec
    BY <2>1 DEF SlowerFaster!With
  <2>5. FasterHas(U, h, mk) = new /\ FitsAt(U, h, mk)
    BY <1>1, <1>2, <2>3, <2>4, ValueRead DEF FasterHas, RawIn, FitsAt
  <2>6. Keyed!Writes(h, mk, new, "reduce", None) /\ Fits(store') /\ saved' = saved
    BY <1>1, <1>2, <2>1, <2>2, <2>5, CellWritten
  <2> QED
    BY <1>2, <1>5, <1>8, <2>0, <2>6, SameBytes DEF FasterDoes, Keyed!Reducer
<1> QED
  BY <1>6, <1>7, <1>8, FasterBytes DEF SlowerFaster!ReducerOps

\* on aggregators,
LEMMA FasterAggregatorOps ==
    ASSUME NEW h \in AggregatorStates, NEW mk, FasterOn(h, mk), Fits(store), SlowerFaster!AggregatorOps(h, mk)
    PROVE  FasterDoes(h, mk) \/ SlowerFaster!Panics
<1>1. h \notin MapStates /\ h \notin VecStates /\ h \notin ValueStates \cup ReducerStates /\ h \in Handles /\ mk \in Metakeys(h)
  BY IdsAssumption DEF Handles, FasterOn
<1>2. PICK key, c : key = ListKey(h, mk) /\ c = Contents(store)[h][mk]
  OBVIOUS
<1>3. c = SlowerFaster!Aggregated(store, key) /\ (key \in DOMAIN store => store[key].data \in Aggregates)
  BY <1>1, <1>2, FasterContentOf DEF FasterHas, Fits, FitsAt
<1>4. PICK old : old = SlowerFaster!Get(key)
  OBVIOUS
<1>9. key \in DOMAIN store => old = store[key].data
  BY <1>4 DEF SlowerFaster!Get
<1>10. key \notin DOMAIN store => old = None /\ c = <<>>
  BY <1>3, <1>4 DEF SlowerFaster!Get, SlowerFaster!Aggregated, SlowerFaster!CreateAccumulator
<1>11. ASSUME key \in DOMAIN store
       PROVE  /\ old # None
              /\ c = (IF Head(old) = ACCUMULATOR_MARKER THEN ReadAccumulator(old)
                      ELSE Append(<<>>, Deserialize(Tail(old))))
              /\ c \in Seq(Nat)
  <2>1. old \in Aggregates
    BY <1>3, <1>9, <1>11
  <2>2. c = (IF Head(old) = ACCUMULATOR_MARKER THEN ReadAccumulator(old) ELSE Append(<<>>, Deserialize(Tail(old))))
    BY <1>3, <1>9, <1>11, FasterBytes DEF SlowerFaster!Aggregated, SlowerFaster!AccumulatorOf, SlowerFaster!Add,
       SlowerFaster!CreateAccumulator, SlowerFaster!ACCUMULATOR_MARKER, ACCUMULATOR_MARKER
  <2>3. CASE \E acc \in Seq(Nat) : old = AccumulatorBytes(acc)
    <3>1. PICK acc \in Seq(Nat) : old = AccumulatorBytes(acc)
      BY <2>3
    <3>2. old # None /\ Head(old) = ACCUMULATOR_MARKER /\ ReadAccumulator(old) = acc
      BY <3>1, AccumulatorRead
    <3> QED
      BY <2>2, <3>2
  <2>4. CASE \E v \in Values : old = <<VALUE_MARKER>> \o Serialize(v)
    <3>1. PICK v \in Values : old = <<VALUE_MARKER>> \o Serialize(v)
      BY <2>4
    <3>2. old # None /\ Head(old) # ACCUMULATOR_MARKER /\ Deserialize(Tail(old)) = v
      BY <3>1, MarkedRead
    <3>3. v \in Nat
      BY ValueRead
    <3>4. Append(<<>>, v) \in Seq(Nat)
      BY <3>3
    <3> QED
      BY <2>2, <3>2, <3>4
  <2> QED
    BY <2>1, <2>2, <2>3, <2>4 DEF Aggregates
<1>12. c \in Seq(Nat)
  <2>1. <<>> \in Seq(Nat)
    OBVIOUS
  <2> QED
    BY <1>10, <1>11, <2>1, Zenon
<1>5. ASSUME Keyed!Aggregator(h, mk) PROVE Keyed!Operation(h, mk)
  BY <1>5 DEF Keyed!Operation
<1>6. CASE SlowerFaster!AggregatorClear(h, mk)
  BY <1>1, <1>6, FasterWriteIs, CellCleared, FasterKeys DEF SlowerFaster!AggregatorClear
<1>7. CASE SlowerFaster!AggregatorGet(h, mk)
  <2>1. \/ old = None /\ FasterReads(h, "get", <<>>)
        \/ old # None /\ Head(old) = ACCUMULATOR_MARKER /\ FasterReads(h, "get", ReadAccumulator(old))
        \/ SlowerFaster!Panics
    BY <1>2, <1>4, <1>7, FasterWriteIs, FasterKeys, FasterBytes
       DEF SlowerFaster!AggregatorGet, SlowerFaster!CreateAccumulator, SlowerFaster!ACCUMULATOR_MARKER, ACCUMULATOR_MARKER
  <2>2. FasterReads(h, "get", c) \/ SlowerFaster!Panics
    BY <1>10, <1>11, <2>1
  <2>3. ASSUME FasterReads(h, "get", c) PROVE FasterDoes(h, mk)
    <3>1. Keyed!Reads(h, "get", c) /\ Fits(store') /\ saved' = saved
      BY <2>3, FasterReadDone
    <3> QED
      BY <1>2, <1>5, <3>1 DEF FasterDoes, Keyed!Aggregator
  <2> QED
    BY <2>2, <2>3
<1>8. ASSUME NEW v \in Values, SlowerFaster!AggregatorAggregate(h, mk, v)
      PROVE  FasterDoes(h, mk)
  <2>0. PICK new, b : new = Append(c, v) /\ b = <<VALUE_MARKER>> \o Serialize(v)
    OBVIOUS
  <2>1. PICK rec, U : /\ rec = IF key \notin DOMAIN store THEN SlowerFaster!Rec("Modify", b)
                               ELSE SlowerFaster!Rec("Value", SlowerFaster!AggregateFn(old, b))
                      /\ U = SlowerFaster!With(store, key, rec)
    OBVIOUS
  <2>2. FasterWrites(h, U, "aggregate", None)
    BY <1>1, <1>2, <1>8, <1>9, <2>0, <2>1, FasterWriteIs, FasterKeys, FasterBytes
       DEF SlowerFaster!AggregatorAggregate, SlowerFaster!Aggregate, SlowerFaster!VALUE_MARKER, VALUE_MARKER
  <2>3. b # None /\ Head(b) # ACCUMULATOR_MARKER /\ Deserialize(Tail(b)) = v /\ b \in Aggregates /\ v \in Nat
    BY <2>0, MarkedRead, ValueRead DEF Aggregates
  <2>4. key \in DOMAIN U /\ U[key] = rec
    BY <2>1 DEF SlowerFaster!With
  <2>5. /\ rec.data \in Aggregates
        /\ new = (IF Head(rec.data) = ACCUMULATOR_MARKER THEN ReadAccumulator(rec.data)
                  ELSE Append(<<>>, Deserialize(Tail(rec.data))))
    <3>1. CASE key \notin DOMAIN store
      <4>1. rec.data = b /\ c = <<>>
        BY <1>10, <2>1, <3>1 DEF SlowerFaster!Rec
      <4> QED
        BY <2>0, <2>3, <4>1
    <3>2. CASE key \in DOMAIN store
      <4>1. SlowerFaster!AggregateFn(old, b) = AccumulatorBytes(new)
        BY <1>11, <2>0, <2>3, <3>2, FasterBytes
           DEF SlowerFaster!AggregateFn, SlowerFaster!Add, SlowerFaster!CreateAccumulator,
               SlowerFaster!ACCUMULATOR_MARKER, ACCUMULATOR_MARKER
      <4>2. new \in Seq(Nat)
        BY <1>12, <2>0, <2>3
      <4>3. rec.data = AccumulatorBytes(new)
        BY <2>1, <3>2, <4>1 DEF SlowerFaster!Rec
      <4>4. rec.data \in Aggregates
        BY <4>2, <4>3 DEF Aggregates
      <4>5. Head(rec.data) = ACCUMULATOR_MARKER /\ ReadAccumulator(rec.data) = new
        BY <4>2, <4>3, AccumulatorRead
      <4> QED
        BY <4>4, <4>5
    <3> QED
      BY <3>1, <3>2
  <2>6. FitsAt(U, h, mk)
    BY <1>1, <1>2, <2>4, <2>5 DEF FitsAt
  <2>7. FasterHas(U, h, mk) = new
    <3>1. FasterHas(U, h, mk) = SlowerFaster!Aggregated(U, key)
      BY <1>1, <1>2 DEF FasterHas
    <3> QED
      BY <2>4, <2>5, <3>1, FasterBytes DEF SlowerFaster!Aggregated, SlowerFaster!AccumulatorOf, SlowerFaster!Add,
         SlowerFaster!CreateAccumulator, SlowerFaster!ACCUMULATOR_MARKER, ACCUMULATOR_MARKER
  <2>8. Keyed!Writes(h, mk, new, "aggregate", None) /\ Fits(store') /\ saved' = saved
    BY <1>1, <1>2, <2>1, <2>2, <2>6, <2>7, CellWritten
  <2> QED
    BY <1>2, <1>5, <1>8, <2>0, <2>8, SameBytes DEF FasterDoes, Keyed!Aggregator, Keyed!Add
<1> QED
  BY <1>6, <1>7, <1>8, FasterBytes DEF SlowerFaster!AggregatorOps

\* A list of the bytes of values is read item by item.
LEMMA ItemsRead ==
    ASSUME NEW l \in Seq(ValuesBytes), NEW s \in Seq(Values)
    PROVE  /\ DecodedItems(l) \in Seq(Values) /\ Len(DecodedItems(l)) = Len(l)
           /\ \A i \in 1..Len(l) : DecodedItems(l)[i] = Deserialize(l[i])
           /\ SlowerFaster!Encoded(s) \in Seq(ValuesBytes) /\ Len(SlowerFaster!Encoded(s)) = Len(s)
           /\ \A i \in 1..Len(s) : SlowerFaster!Encoded(s)[i] = Serialize(s[i])
<1>1. PICK m \in Nat : m = Len(l) /\ \A i \in 1..m : l[i] \in ValuesBytes
  OBVIOUS
<1>2. PICK d : d = [i \in 1..m |-> Deserialize(l[i])]
  OBVIOUS
<1>3. \A i \in 1..m : Deserialize(l[i]) \in Values
  BY <1>1, ValueRead
<1>4. d \in [1..m -> Values]
  BY <1>2, <1>3
<1>5. d \in Seq(Values) /\ Len(d) = m /\ \A i \in 1..m : d[i] = Deserialize(l[i])
  BY <1>2, <1>4
<1>6. PICK n \in Nat : n = Len(s) /\ \A i \in 1..n : s[i] \in Values
  OBVIOUS
<1>7. PICK t : t = [i \in 1..n |-> Serialize(s[i])]
  OBVIOUS
<1>8. \A i \in 1..n : Serialize(s[i]) \in ValuesBytes
  BY <1>6, ValueRead
<1>9. t \in [1..n -> ValuesBytes]
  BY <1>7, <1>8
<1>10. t \in Seq(ValuesBytes) /\ Len(t) = n /\ \A i \in 1..n : t[i] = Serialize(s[i])
  BY <1>7, <1>9
<1>11. DecodedItems(l) = d
  BY <1>1, <1>2 DEF DecodedItems
<1>12. SlowerFaster!Encoded(s) = t
  BY <1>6, <1>7, FasterBytes DEF SlowerFaster!Encoded
<1> QED
  BY <1>1, <1>5, <1>6, <1>10, <1>11, <1>12

\* What was written as a list is read as it was,
LEMMA ItemsKept ==
    ASSUME NEW s \in Seq(Values), NEW l, l = SlowerFaster!Encoded(s)
    PROVE  l \in Seq(ValuesBytes) /\ DecodedItems(l) = s
<1>1. /\ l \in Seq(ValuesBytes) /\ Len(l) = Len(s)
      /\ \A i \in 1..Len(s) : l[i] = Serialize(s[i])
  <2>1. <<>> \in Seq(ValuesBytes)
    OBVIOUS
  <2> QED
    BY <2>1, ItemsRead
<1>2. PICK d : d = DecodedItems(l)
  OBVIOUS
<1>3. d \in Seq(Values) /\ Len(d) = Len(l) /\ \A i \in 1..Len(l) : d[i] = Deserialize(l[i])
  BY <1>1, <1>2, ItemsRead
<1>4. \A i \in 1..Len(s) : s[i] \in Values
  OBVIOUS
<1>5. \A i \in 1..Len(d) : d[i] = s[i]
  BY <1>1, <1>3, <1>4, ValueRead
<1>6. d = s
  BY <1>1, <1>3, <1>5, SeqEqual
<1> QED
  BY <1>1, <1>2, <1>6

\* also behind another one,
LEMMA ItemsJoined ==
    ASSUME NEW l \in Seq(ValuesBytes), NEW s \in Seq(Values), NEW r, r = l \o SlowerFaster!Encoded(s)
    PROVE  r \in Seq(ValuesBytes) /\ DecodedItems(r) = DecodedItems(l) \o s
<1>1. PICK b : b = SlowerFaster!Encoded(s)
  OBVIOUS
<1>2. b \in Seq(ValuesBytes) /\ Len(b) = Len(s) /\ \A i \in 1..Len(s) : b[i] = Serialize(s[i])
  BY <1>1, ItemsRead
<1>3. PICK c : c = DecodedItems(l)
  OBVIOUS
<1>4. c \in Seq(Values) /\ Len(c) = Len(l) /\ \A i \in 1..Len(l) : c[i] = Deserialize(l[i])
  BY <1>3, ItemsRead
<1>0. Len(l) \in Nat /\ Len(s) \in Nat
  OBVIOUS
<1>5. PICK x, y : x \in Nat /\ y \in Nat /\ x = Len(l) /\ y = Len(s)
  BY <1>0
<1>6. /\ r \in Seq(ValuesBytes) /\ Len(r) = x + y
      /\ \A i \in 1..(x + y) : r[i] = IF i <= x THEN l[i] ELSE b[i - x]
  <2>1. /\ l \o b \in Seq(ValuesBytes) /\ Len(l \o b) = Len(l) + Len(b)
        /\ \A i \in 1..(Len(l) + Len(b)) : (l \o b)[i] = IF i <= Len(l) THEN l[i] ELSE b[i - Len(l)]
    BY <1>2, ConcatProperties
  <2> QED
    BY <1>1, <1>2, <1>5, <2>1, Zenon
<1>7. PICK d : d = DecodedItems(r)
  OBVIOUS
<1>8. d \in Seq(Values) /\ Len(d) = x + y /\ \A i \in 1..(x + y) : d[i] = Deserialize(r[i])
  BY <1>6, <1>7, ItemsRead
<1>9. PICK e : e = c \o s
  OBVIOUS
<1>10. /\ e \in Seq(Values) /\ Len(e) = x + y
       /\ \A i \in 1..(x + y) : e[i] = IF i <= x THEN c[i] ELSE s[i - x]
  <2>1. /\ c \o s \in Seq(Values) /\ Len(c \o s) = Len(c) + Len(s)
        /\ \A i \in 1..(Len(c) + Len(s)) : (c \o s)[i] = IF i <= Len(c) THEN c[i] ELSE s[i - Len(c)]
    BY <1>4, ConcatProperties
  <2> QED
    BY <1>4, <1>5, <1>9, <2>1, Zenon
<1>11. ASSUME NEW i \in 1..(x + y) PROVE d[i] = e[i]
  <2>1. CASE i <= x
    <3>1. i \in 1..x
      BY <1>5, <2>1
    <3> QED
      BY <1>4, <1>5, <1>6, <1>8, <1>10, <2>1, <3>1
  <2>2. CASE ~ (i <= x)
    <3>0. i - x \in 1..y
      BY <1>5, <2>2
    <3>1. PICK j \in 1..y : j = i - x
      BY <3>0
    <3>4. j \in 1..Len(s)
      BY <1>5
    <3>2. s[j] \in Values /\ b[j] = Serialize(s[j])
      BY <1>2, <3>4
    <3>3. r[i] = b[j] /\ e[i] = s[j]
      BY <1>6, <1>10, <2>2, <3>1
    <3> QED
      BY <1>8, <3>2, <3>3, ValueRead
  <2> QED
    BY <2>1, <2>2
<1>12. d = e
  <2>1. Len(d) = Len(e) /\ \A i \in 1..Len(d) : d[i] = e[i]
    BY <1>8, <1>10, <1>11
  <2> QED
    BY <1>8, <1>10, <2>1, SeqEqual
<1> QED
  BY <1>3, <1>6, <1>7, <1>9, <1>12

\* and one item at a time.
LEMMA ItemsAppended ==
    ASSUME NEW l \in Seq(ValuesBytes), NEW v \in Values, NEW r, r = Append(l, Serialize(v))
    PROVE  r \in Seq(ValuesBytes) /\ DecodedItems(r) = Append(DecodedItems(l), v)
<1>1. PICK b : b = Serialize(v)
  OBVIOUS
<1>2. b \in ValuesBytes /\ Deserialize(b) = v
  BY <1>1, ValueRead
<1>3. PICK c : c = DecodedItems(l)
  OBVIOUS
<1>4. c \in Seq(Values) /\ Len(c) = Len(l) /\ \A i \in 1..Len(l) : c[i] = Deserialize(l[i])
  <2>1. <<>> \in Seq(Values)
    OBVIOUS
  <2> QED
    BY <1>3, <2>1, ItemsRead
<1>5. PICK x : x \in Nat /\ x = Len(l)
  OBVIOUS
<1>6. r \in Seq(ValuesBytes) /\ Len(r) = x + 1 /\ r[x + 1] = b /\ \A i \in 1..x : r[i] = l[i]
  BY <1>1, <1>2, <1>5
<1>7. PICK d : d = DecodedItems(r)
  OBVIOUS
<1>8. d \in Seq(Values) /\ Len(d) = x + 1 /\ \A i \in 1..(x + 1) : d[i] = Deserialize(r[i])
  <2>1. <<>> \in Seq(Values)
    OBVIOUS
  <2> QED
    BY <1>6, <1>7, <2>1, ItemsRead
<1>9. PICK e : e = Append(c, v)
  OBVIOUS
<1>10. e \in Seq(Values) /\ Len(e) = x + 1 /\ e[x + 1] = v /\ \A i \in 1..x : e[i] = c[i]
  BY <1>4, <1>5, <1>9
<1>11. \A i \in 1..(x + 1) : d[i] = e[i]
  <2> SUFFICES ASSUME NEW i \in 1..(x + 1) PROVE d[i] = e[i]
    OBVIOUS
  <2>1. i = x + 1 \/ i \in 1..x
    BY <1>5
  <2> QED
    BY <1>2, <1>4, <1>5, <1>6, <1>8, <1>10, <2>1
<1>12. d = e
  <2>1. Len(d) = Len(e) /\ \A i \in 1..Len(d) : d[i] = e[i]
    BY <1>8, <1>10, <1>11
  <2> QED
    BY <1>8, <1>10, <2>1, SeqEqual
<1> QED
  BY <1>3, <1>6, <1>7, <1>9, <1>12

\* The operations on vecs.
LEMMA FasterVecOps ==
    ASSUME NEW h \in VecStates, NEW mk, FasterOn(h, mk), Fits(store), SlowerFaster!VecOps(h, mk)
    PROVE  FasterDoes(h, mk)
<1>1. h \notin MapStates /\ h \notin ValueStates \cup ReducerStates /\ h \notin AggregatorStates /\ h \in Handles
      /\ mk \in Metakeys(h)
  BY IdsAssumption DEF Handles, FasterOn
<1>2. PICK key, c : key = ListKey(h, mk) /\ c = Contents(store)[h][mk]
  OBVIOUS
<1>3. PICK l : l = ListIn(store, key)
  OBVIOUS
<1>4. c = DecodedItems(l)
  BY <1>1, <1>2, <1>3, FasterContentOf DEF FasterHas
<1>5. l \in Seq(ValuesBytes)
  <2>1. <<>> \in Seq(ValuesBytes)
    OBVIOUS
  <2>2. key \in DOMAIN store => SlowerFaster!AsVec(store[key]) \in Seq(ValuesBytes)
    BY <1>1, <1>2 DEF Fits, FitsAt
  <2> QED
    BY <1>3, <2>1, <2>2 DEF ListIn
<1>6. c \in Seq(Values) /\ Len(c) = Len(l)
  <2>1. <<>> \in Seq(Values)
    OBVIOUS
  <2> QED
    BY <1>4, <1>5, <2>1, ItemsRead
<1>7. SlowerFaster!ListOf(key) = l /\ SlowerFaster!Items(h, mk) = c
  <2>1. SlowerFaster!ListOf(key) = l
    BY <1>3 DEF SlowerFaster!ListOf, ListIn
  <2>2. SlowerFaster!ListOf(SlowerFaster!Key(h, mk)) = l
    BY <1>2, <2>1, FasterKeys
  <2> QED
    BY <1>4, <2>1, <2>2, FasterBytes DEF SlowerFaster!Items, DecodedItems
<1>8. ASSUME Keyed!Vec(h, mk) PROVE Keyed!Operation(h, mk)
  BY <1>8 DEF Keyed!Operation
<1>9. CASE SlowerFaster!VecClear(h, mk)
  BY <1>1, <1>9, FasterWriteIs, CellCleared, FasterKeys DEF SlowerFaster!VecClear
<1>10. CASE \/ SlowerFaster!VecGet(h, mk) \/ SlowerFaster!VecIter(h, mk)
            \/ SlowerFaster!VecLen(h, mk) \/ SlowerFaster!VecIsEmpty(h, mk)
  <2>1. (l = <<>>) = (c = <<>>)
    BY <1>5, <1>6
  <2>2. \/ FasterReads(h, "get", c) \/ FasterReads(h, "iter", c)
        \/ FasterReads(h, "len", Len(c)) \/ FasterReads(h, "is_empty", c = <<>>)
    BY <1>2, <1>6, <1>7, <1>10, <2>1, FasterWriteIs, FasterKeys
       DEF SlowerFaster!VecGet, SlowerFaster!VecIter, SlowerFaster!VecLen, SlowerFaster!VecIsEmpty
  <2>3. /\ \/ Keyed!Reads(h, "get", c) \/ Keyed!Reads(h, "iter", c)
           \/ Keyed!Reads(h, "len", Len(c)) \/ Keyed!Reads(h, "is_empty", c = <<>>)
        /\ Fits(store') /\ saved' = saved
    BY <2>2, FasterReadDone
  <2> QED
    BY <1>2, <1>8, <2>3 DEF FasterDoes, Keyed!Vec
<1>11. ASSUME NEW rec, NEW r \in Seq(ValuesBytes), SlowerFaster!AsVec(rec) = r, NEW new, new = DecodedItems(r), NEW op,
              FasterWrites(h, SlowerFaster!With(store, key, rec), op, None)
       PROVE  Keyed!Writes(h, mk, new, op, None) /\ Fits(store') /\ saved' = saved
  <2>1. PICK U : U = SlowerFaster!With(store, key, rec)
    OBVIOUS
  <2>2. key \in DOMAIN U /\ U[key] = rec
    BY <2>1 DEF SlowerFaster!With
  <2>3. FasterHas(U, h, mk) = new /\ FitsAt(U, h, mk)
    BY <1>1, <1>2, <1>11, <2>2 DEF FasterHas, ListIn, FitsAt
  <2> QED
    BY <1>1, <1>2, <1>11, <2>1, <2>3, CellWritten
<1>12. ASSUME NEW s \in Lists PROVE s \in Seq(Values)
  BY <1>12 DEF Lists, BoundedSeq, SeqOf
<1>13. ASSUME NEW v \in Values, SlowerFaster!VecAppend(h, mk, v) PROVE FasterDoes(h, mk)
  <2>1. PICK rec : rec = IF key \in DOMAIN store
                         THEN SlowerFaster!Rec("Value", SlowerFaster!VecRmw(
                                SlowerFaster!AsVec(store[key]), SlowerFaster!Rec("Push", Serialize(v))))
                         ELSE SlowerFaster!Rec("Push", Serialize(v))
    OBVIOUS
  <2>2. FasterWrites(h, SlowerFaster!With(store, key, rec), "append", None)
    BY <1>2, <1>13, <2>1, FasterWriteIs, FasterKeys, FasterBytes DEF SlowerFaster!VecAppend, SlowerFaster!RmwVec
  <2>3. PICK r : r = Append(l, Serialize(v))
    OBVIOUS
  <2>4. SlowerFaster!AsVec(rec) = r
    <3>1. CASE key \in DOMAIN store
      <4>1. SlowerFaster!VecRmw(l, SlowerFaster!Rec("Push", Serialize(v))) = r
        BY <2>3 DEF SlowerFaster!VecRmw, SlowerFaster!Rec
      <4> QED
        BY <1>3, <2>1, <3>1, <4>1 DEF SlowerFaster!AsVec, SlowerFaster!Rec, ListIn
    <3>2. CASE key \notin DOMAIN store
      <4>1. l = <<>>
        BY <1>3, <3>2 DEF ListIn
      <4>2. PICK b : b = Serialize(v)
        OBVIOUS
      <4>3. r = <<b>>
        BY <2>3, <4>1, <4>2
      <4> QED
        BY <2>1, <3>2, <4>2, <4>3 DEF SlowerFaster!AsVec, SlowerFaster!Rec
    <3> QED
      BY <3>1, <3>2
  <2>5. r \in Seq(ValuesBytes) /\ DecodedItems(r) = Append(c, v)
    BY <1>4, <1>5, <2>3, ItemsAppended
  <2>6. Keyed!Writes(h, mk, Append(c, v), "append", None) /\ Fits(store') /\ saved' = saved
    BY <1>11, <2>2, <2>4, <2>5
  <2> QED
    BY <1>2, <1>8, <1>13, <2>6, SameBytes DEF FasterDoes, Keyed!Vec
<1>14. ASSUME NEW s \in Lists, SlowerFaster!VecSet(h, mk, s) PROVE FasterDoes(h, mk)
  <2>1. PICK r, rec : r = SlowerFaster!Encoded(s) /\ rec = SlowerFaster!Rec("Value", r)
    OBVIOUS
  <2>2. FasterWrites(h, SlowerFaster!With(store, key, rec), "set", None)
    BY <1>2, <1>14, <2>1, FasterWriteIs, FasterKeys DEF SlowerFaster!VecSet
  <2>3. SlowerFaster!AsVec(rec) = r
    BY <2>1 DEF SlowerFaster!AsVec, SlowerFaster!Rec
  <2>4. r \in Seq(ValuesBytes) /\ DecodedItems(r) = s
    BY <1>12, <1>14, <2>1, ItemsKept
  <2>5. Keyed!Writes(h, mk, s, "set", None) /\ Fits(store') /\ saved' = saved
    BY <1>11, <2>2, <2>3, <2>4
  <2> QED
    BY <1>2, <1>8, <1>14, <2>5, FasterBytes DEF FasterDoes, Keyed!Vec
<1>15. ASSUME NEW s \in Lists, SlowerFaster!VecAddAll(h, mk, s) PROVE FasterDoes(h, mk)
  <2>0. PICK b : b = SlowerFaster!Encoded(s)
    OBVIOUS
  <2>1. PICK rec : rec = IF key \in DOMAIN store
                         THEN SlowerFaster!Rec("Value", SlowerFaster!VecRmw(
                                SlowerFaster!AsVec(store[key]), SlowerFaster!Rec("Value", b)))
                         ELSE SlowerFaster!Rec("Value", b)
    OBVIOUS
  <2>2. FasterWrites(h, SlowerFaster!With(store, key, rec), "add_all", None)
    BY <1>2, <1>15, <2>0, <2>1, FasterWriteIs, FasterKeys DEF SlowerFaster!VecAddAll, SlowerFaster!RmwVec
  <2>3. PICK r : r = l \o b
    OBVIOUS
  <2>7. s \in Seq(Values)
    BY <1>12, <1>15
  <2>4. SlowerFaster!AsVec(rec) = r
    <3>1. CASE key \in DOMAIN store
      <4>1. SlowerFaster!VecRmw(l, SlowerFaster!Rec("Value", b)) = r
        BY <2>3 DEF SlowerFaster!VecRmw, SlowerFaster!Rec
      <4> QED
        BY <1>3, <2>1, <3>1, <4>1 DEF SlowerFaster!AsVec, SlowerFaster!Rec, ListIn
    <3>2. CASE key \notin DOMAIN store
      <4>1. l = <<>>
        BY <1>3, <3>2 DEF ListIn
      <4>2. b \in Seq(ValuesBytes)
        BY <2>0, <2>7, ItemsKept
      <4>3. r = b
        BY <2>3, <4>1, <4>2
      <4> QED
        BY <2>1, <3>2, <4>3 DEF SlowerFaster!AsVec, SlowerFaster!Rec
    <3> QED
      BY <3>1, <3>2
  <2>5. r \in Seq(ValuesBytes) /\ DecodedItems(r) = c \o s
    BY <1>4, <1>5, <2>0, <2>3, <2>7, ItemsJoined
  <2>6. Keyed!Writes(h, mk, c \o s, "add_all", None) /\ Fits(store') /\ saved' = saved
    BY <1>11, <2>2, <2>4, <2>5
  <2> QED
    BY <1>2, <1>8, <1>15, <2>6, FasterBytes DEF FasterDoes, Keyed!Vec
<1> QED
  BY <1>9, <1>10, <1>13, <1>14, <1>15, FasterBytes DEF SlowerFaster!VecOps

\* One entry of a map differs.
EntryChanged(c, d, k, v) == d = [c EXCEPT ![k] = v]

\* An entry of a map is written, with or without a change of the list of keys,
LEMMA EntryWritten ==
    ASSUME NEW h \in MapStates, NEW mk \in Metakeys(h), NEW k \in Keys, NEW v \in Values, NEW T, NEW U, FitsAt(T, h, mk),
           NEW e, e = SlowerFaster!EntryKey(h, mk, k), SameBut(T, U, {ListKey(h, mk), e}),
           e \in DOMAIN U, U[e].data = Serialize(v)
    PROVE  /\ EntryChanged(FasterHas(T, h, mk), FasterHas(U, h, mk), k, v) /\ FitsAt(U, h, mk)
           /\ SameBut(T, U, {ListKey(h, mk)} \cup EntryKeys(h, mk))
<1>1. e \in EntryKeys(h, mk)
  BY FasterBytes DEF EntryKeys
<1>2. ListKey(h, mk) \notin EntryKeys(h, mk)
  BY KeysApart, FasterBytes
<1>3. ASSUME NEW j \in Keys, j # k
      PROVE  RawIn(U, SlowerFaster!EntryKey(h, mk, j)) = RawIn(T, SlowerFaster!EntryKey(h, mk, j))
  <2>1. PICK d : d = SlowerFaster!EntryKey(h, mk, j)
    OBVIOUS
  <2>2. d # e
    BY <1>3, <2>1, EntryKeyRead
  <2>3. d \in EntryKeys(h, mk)
    BY <2>1, FasterBytes DEF EntryKeys
  <2>4. d \notin {ListKey(h, mk), e}
    BY <1>2, <2>2, <2>3
  <2> QED
    BY <2>1, <2>4 DEF SameBut, RawIn
<1>4. RawIn(U, e) = v
  BY ValueRead DEF RawIn
<1>5. EntryChanged(FasterHas(T, h, mk), FasterHas(U, h, mk), k, v)
  BY <1>3, <1>4 DEF FasterHas, EntryChanged
<1>6. FitsAt(U, h, mk)
  <2>1. h \notin ValueStates \cup ReducerStates /\ h \notin VecStates /\ h \notin AggregatorStates
    BY IdsAssumption
  <2>2. ASSUME NEW d \in EntryKeys(h, mk) \cap DOMAIN U PROVE U[d].data \in ValuesBytes
    <3>1. CASE d = e
      BY <3>1, ValueRead
    <3>2. CASE d # e
      <4>1. d \in DOMAIN T /\ U[d] = T[d]
        BY <1>2, <3>2 DEF SameBut
      <4> QED
        BY <4>1 DEF FitsAt
    <3> QED
      BY <3>1, <3>2
  <2> QED
    BY <2>1, <2>2 DEF FitsAt
<1>7. SameBut(T, U, {ListKey(h, mk)} \cup EntryKeys(h, mk))
  BY <1>1 DEF SameBut
<1> QED
  BY <1>5, <1>6, <1>7

\* or removed,
LEMMA EntryRemoved ==
    ASSUME NEW h \in MapStates, NEW mk \in Metakeys(h), NEW k \in Keys, NEW T, NEW U, FitsAt(T, h, mk),
           NEW e, e = SlowerFaster!EntryKey(h, mk, k), SameBut(T, U, {ListKey(h, mk), e}), e \notin DOMAIN U
    PROVE  /\ EntryChanged(FasterHas(T, h, mk), FasterHas(U, h, mk), k, None) /\ FitsAt(U, h, mk)
           /\ SameBut(T, U, {ListKey(h, mk)} \cup EntryKeys(h, mk))
<1>1. e \in EntryKeys(h, mk)
  BY FasterBytes DEF EntryKeys
<1>2. ListKey(h, mk) \notin EntryKeys(h, mk)
  BY KeysApart, FasterBytes
<1>3. ASSUME NEW j \in Keys, j # k
      PROVE  RawIn(U, SlowerFaster!EntryKey(h, mk, j)) = RawIn(T, SlowerFaster!EntryKey(h, mk, j))
  <2>1. PICK d : d = SlowerFaster!EntryKey(h, mk, j)
    OBVIOUS
  <2>2. d # e
    BY <1>3, <2>1, EntryKeyRead
  <2>3. d \in EntryKeys(h, mk)
    BY <2>1, FasterBytes DEF EntryKeys
  <2>4. d \notin {ListKey(h, mk), e}
    BY <1>2, <2>2, <2>3
  <2> QED
    BY <2>1, <2>4 DEF SameBut, RawIn
<1>4. RawIn(U, e) = None
  BY DEF RawIn
<1>5. EntryChanged(FasterHas(T, h, mk), FasterHas(U, h, mk), k, None)
  BY <1>3, <1>4 DEF FasterHas, EntryChanged
<1>6. FitsAt(U, h, mk)
  <2>1. h \notin ValueStates \cup ReducerStates /\ h \notin VecStates /\ h \notin AggregatorStates
    BY IdsAssumption
  <2>2. ASSUME NEW d \in EntryKeys(h, mk) \cap DOMAIN U PROVE U[d].data \in ValuesBytes
    <3>1. d \in DOMAIN T /\ U[d] = T[d]
      BY <1>2 DEF SameBut
    <3> QED
      BY <3>1 DEF FitsAt
  <2> QED
    BY <2>1, <2>2 DEF FitsAt
<1>7. SameBut(T, U, {ListKey(h, mk)} \cup EntryKeys(h, mk))
  BY <1>1 DEF SameBut
<1> QED
  BY <1>5, <1>6, <1>7

\* and all of them.
LEMMA EntriesRemoved ==
    ASSUME NEW h \in MapStates, NEW mk \in Metakeys(h), NEW T, NEW K, NEW U, U = SlowerFaster!Without(T, K),
           K = {ListKey(h, mk)} \cup (EntryKeys(h, mk) \cap DOMAIN T)
    PROVE  /\ FasterHas(U, h, mk) = Keyed!Nothing(h) /\ FitsAt(U, h, mk)
           /\ SameBut(T, U, {ListKey(h, mk)} \cup EntryKeys(h, mk))
<1>1. SameBut(T, U, K) /\ DOMAIN U = DOMAIN T \ K
  BY DEF SameBut, SlowerFaster!Without
<1>2. \A e \in EntryKeys(h, mk) : e \notin DOMAIN U
  BY <1>1
<1>3. ListKey(h, mk) \notin DOMAIN U
  BY <1>1
<1>4. FitsAt(U, h, mk)
  BY <1>2, <1>3 DEF FitsAt
<1>5. SameBut(T, U, {ListKey(h, mk)} \cup EntryKeys(h, mk))
  BY <1>1 DEF SameBut
<1>6. \A k \in Keys : RawIn(U, SlowerFaster!EntryKey(h, mk, k)) = None
  BY <1>2, FasterBytes DEF EntryKeys, RawIn
<1>7. Keyed!Nothing(h) = [k \in Keys |-> None]
  <2>1. h \notin ValueStates \cup ReducerStates
    BY IdsAssumption
  <2> QED
    BY <2>1, SameBytes DEF Keyed!Nothing
<1>8. FasterHas(U, h, mk) = Keyed!Nothing(h)
  BY <1>6, <1>7 DEF FasterHas
<1> QED
  BY <1>4, <1>5, <1>8

\* An insertion changes the entry, and the list of keys with slower_faster.
LEMMA InsertedIs ==
    ASSUME NEW h, NEW mk \in Metakeys(h), NEW k \in Keys, NEW v, NEW T, NEW U, NEW e,
           e = SlowerFaster!EntryKey(h, mk, k),
           U = SlowerFaster!Inserted(T, h, mk, k, v) \/ U = Faster!Inserted(T, h, mk, k, v)
    PROVE  SameBut(T, U, {ListKey(h, mk), e}) /\ e \in DOMAIN U /\ U[e].data = Serialize(v)
<1>1. PICK key : key = ListKey(h, mk)
  OBVIOUS
<1>2. key # e
  BY <1>1, KeysApart, FasterBytes DEF EntryKeys
<1>3. PICK rec, put : rec = SlowerFaster!Rec("Raw", Serialize(v)) /\ put = SlowerFaster!With(T, e, rec)
  OBVIOUS
<1>4. SameBut(T, put, {e}) /\ e \in DOMAIN put /\ put[e] = rec /\ rec.data = Serialize(v)
  BY <1>3 DEF SameBut, SlowerFaster!With, SlowerFaster!Rec
<1>5. CASE U = Faster!Inserted(T, h, mk, k, v)
  <2>1. U = put
    BY <1>3, <1>5, FasterKeys, FasterBytes DEF Faster!Inserted, Faster!Put
  <2> QED
    BY <1>1, <1>4, <2>1 DEF SameBut
<1>6. CASE U = SlowerFaster!Inserted(T, h, mk, k, v)
  <2>1. PICK r : U = SlowerFaster!With(put, key, r)
    BY <1>1, <1>3, <1>6, FasterKeys, FasterBytes DEF SlowerFaster!Inserted, SlowerFaster!Put, SlowerFaster!RmwVec
  <2>2. SameBut(put, U, {key}) /\ DOMAIN U = DOMAIN put \cup {key}
    BY <2>1 DEF SameBut, SlowerFaster!With
  <2>3. e \in DOMAIN U /\ U[e] = put[e]
    BY <1>2, <1>4, <2>2 DEF SameBut
  <2>4. SameBut(T, U, {key, e})
    BY <1>4, <2>2 DEF SameBut
  <2> QED
    BY <1>1, <1>4, <2>3, <2>4
<1> QED
  BY <1>5, <1>6

\* So does a removal.
LEMMA RemovedIs ==
    ASSUME NEW h, NEW mk \in Metakeys(h), NEW k \in Keys, NEW U, NEW e,
           e = SlowerFaster!EntryKey(h, mk, k),
           U = SlowerFaster!Removed(h, mk, k) \/ U = Faster!Removed(h, mk, k)
    PROVE  SameBut(store, U, {ListKey(h, mk), e}) /\ e \notin DOMAIN U
<1>1. PICK key : key = ListKey(h, mk)
  OBVIOUS
<1>2. key # e
  BY <1>1, KeysApart, FasterBytes DEF EntryKeys
<1>3. PICK rest : rest = SlowerFaster!Without(store, {e})
  OBVIOUS
<1>4. SameBut(store, rest, {e}) /\ e \notin DOMAIN rest
  BY <1>3 DEF SameBut, SlowerFaster!Without
<1>5. CASE U = Faster!Removed(h, mk, k)
  <2>1. U = rest
    BY <1>3, <1>5, FasterKeys, FasterBytes DEF Faster!Removed
  <2> QED
    BY <1>1, <1>4, <2>1 DEF SameBut
<1>6. CASE U = SlowerFaster!Removed(h, mk, k)
  <2>1. PICK r : U = SlowerFaster!With(rest, key, r)
    BY <1>1, <1>3, <1>6, FasterKeys, FasterBytes DEF SlowerFaster!Removed, SlowerFaster!RmwVec
  <2>2. SameBut(rest, U, {key}) /\ DOMAIN U = DOMAIN rest \cup {key}
    BY <2>1 DEF SameBut, SlowerFaster!With
  <2> QED
    BY <1>1, <1>2, <1>4, <2>2 DEF SameBut
<1> QED
  BY <1>5, <1>6

\* What is read along the list of keys are the entries.
FasterFoundAre(l, mk, K, E) ==
    /\ {<<KeyAfter(Len(mk) + 1, b), Deserialize(store[b].data)>> : b \in K} = E
    /\ {KeyAfter(Len(mk) + 1, b) : b \in K} = {e[1] : e \in E}
    /\ CountOf({<<i, Deserialize(store[l[i]].data)>> : i \in 1..Len(l)}) = CountOf(E)
    /\ Len(l) = Cardinality(E)
    /\ (l = <<>>) = (E = {})

\* As often as an index has a value, an entry has it.
LEMMA CountedAlong ==
    ASSUME NEW S, IsFiniteSet(S), NEW f, NEW w, \A x, y \in S : f[x] = f[y] => x = y,
           NEW E, E = {<<f[i], w[i]>> : i \in S}, NEW P, P = {<<i, w[i]>> : i \in S}
    PROVE  CountOf(P) = CountOf(E) /\ Cardinality(E) = Cardinality(S)
<1>1. Cardinality(E) = Cardinality(S)
  <2>1. PICK g : g = [i \in S |-> <<f[i], w[i]>>]
    OBVIOUS
  <2>2. g \in [S -> E] /\ \A i \in S : g[i] = <<f[i], w[i]>>
    BY <2>1
  <2>3. \A x, y \in S : g[x] = g[y] => x = y
    BY <2>2
  <2>4. \A z \in E : \E x \in S : z = g[x]
    BY <2>2
  <2> QED
    BY <2>2, <2>3, <2>4, SameCount
<1>2. ASSUME NEW v PROVE Cardinality({e \in P : e[2] = v}) = Cardinality({e \in E : e[2] = v})
  <2>1. PICK J : J = {i \in S : w[i] = v}
    OBVIOUS
  <2>2. PICK R, Q : R = {e \in P : e[2] = v} /\ Q = {e \in E : e[2] = v}
    OBVIOUS
  <2>3. IsFiniteSet(J)
    BY <2>1, FS_Subset
  <2>4. Cardinality(R) = Cardinality(J)
    <3>1. PICK g : g = [i \in J |-> <<i, w[i]>>]
      OBVIOUS
    <3>2. g \in [J -> R] /\ \A i \in J : g[i] = <<i, w[i]>>
      BY <2>1, <2>2, <3>1
    <3>3. \A x, y \in J : g[x] = g[y] => x = y
      BY <3>2
    <3>4. \A z \in R : \E x \in J : z = g[x]
      BY <2>1, <2>2, <3>2
    <3> QED
      BY <2>3, <3>2, <3>3, <3>4, SameCount
  <2>5. Cardinality(Q) = Cardinality(J)
    <3>1. PICK g : g = [i \in J |-> <<f[i], w[i]>>]
      OBVIOUS
    <3>2. g \in [J -> Q] /\ \A i \in J : g[i] = <<f[i], w[i]>>
      BY <2>1, <2>2, <3>1
    <3>3. \A x, y \in J : g[x] = g[y] => x = y
      BY <2>1, <3>2
    <3>4. \A z \in Q : \E x \in J : z = g[x]
      BY <2>1, <2>2, <3>2
    <3> QED
      BY <2>3, <3>2, <3>3, <3>4, SameCount
  <2> QED
    BY <2>2, <2>4, <2>5
<1>3. CountOf(P) = CountOf(E)
  BY <1>2 DEF CountOf
<1> QED
  BY <1>1, <1>3

\* They are.
LEMMA FasterFound ==
    ASSUME NEW h \in MapStates, NEW mk \in Metakeys(h), FitsAt(store, h, mk),
           NEW c, c = FasterHas(store, h, mk), NEW K, K = EntryKeys(h, mk) \cap DOMAIN store,
           NEW l, Names(l, K), NEW E, E = MemEntriesOf(c)
    PROVE  FasterFoundAre(l, mk, K, E)
<1>1. PICK ent, z : ent = [k \in Keys |-> SlowerFaster!EntryKey(h, mk, k)] /\ z = Len(mk) + 1
  OBVIOUS
<1>2. \A k \in Keys : ent[k] = SlowerFaster!EntryKey(h, mk, k) /\ KeyAfter(z, ent[k]) = k
  BY <1>1, EntryKeyRead
<1>3. \A b \in K : b \in DOMAIN store /\ store[b].data \in ValuesBytes /\ \E k \in Keys : b = ent[k]
  BY <1>2, FasterBytes DEF EntryKeys, FitsAt
<1>4. \A k \in Keys : c[k] = RawIn(store, ent[k])
  BY <1>2 DEF FasterHas
<1>5. \A k \in Keys : ent[k] \in K <=> ent[k] \in DOMAIN store
  BY <1>2, FasterBytes DEF EntryKeys
<1>6. PICK I : I = {k \in Keys : c[k] # None}
  OBVIOUS
<1>7. E = {<<k, c[k]>> : k \in I}
  BY <1>6 DEF MemEntriesOf
<1>8. \A k \in I : ent[k] \in K /\ KeyAfter(z, ent[k]) = k
  BY <1>2, <1>4, <1>5, <1>6 DEF RawIn
<1>9. \A b \in K : KeyAfter(z, b) \in I /\ b = ent[KeyAfter(z, b)] /\ Deserialize(store[b].data) = c[KeyAfter(z, b)]
  <2> SUFFICES ASSUME NEW b \in K
               PROVE  KeyAfter(z, b) \in I /\ b = ent[KeyAfter(z, b)] /\ Deserialize(store[b].data) = c[KeyAfter(z, b)]
    OBVIOUS
  <2>1. PICK k \in Keys : b = ent[k] /\ b \in DOMAIN store /\ store[b].data \in ValuesBytes
    BY <1>3
  <2>2. KeyAfter(z, b) = k
    BY <1>2, <2>1
  <2>3. c[k] = Deserialize(store[b].data)
    BY <1>4, <2>1 DEF RawIn
  <2>4. Deserialize(store[b].data) \in Values /\ None \notin Values
    BY <2>1, ValueRead
  <2> QED
    BY <1>6, <2>1, <2>2, <2>3, <2>4
<1>10. {<<KeyAfter(z, b), Deserialize(store[b].data)>> : b \in K} = E
  <2>1. \A b \in K : \E k \in I : <<KeyAfter(z, b), Deserialize(store[b].data)>> = <<k, c[k]>>
    BY <1>9
  <2>2. \A k \in I : \E b \in K : <<k, c[k]>> = <<KeyAfter(z, b), Deserialize(store[b].data)>>
    BY <1>8, <1>9
  <2> QED
    BY <1>7, <2>1, <2>2
<1>11. {KeyAfter(z, b) : b \in K} = {e[1] : e \in E}
  <2>1. {KeyAfter(z, b) : b \in K} = I
    BY <1>8, <1>9
  <2>2. {e[1] : e \in E} = I
    <3>1. \A e \in E : e[1] \in I
      BY <1>7
    <3>2. \A k \in I : \E e \in E : k = e[1]
      <4>1. \A k \in I : <<k, c[k]>> \in E /\ k = <<k, c[k]>>[1]
        BY <1>7
      <4> QED
        BY <4>1, Zenon
    <3> QED
      BY <3>1, <3>2, FirstsAre
  <2> QED
    BY <2>1, <2>2
<1>12. PICK n \in Nat : n = Len(l)
  BY DEF Names
<1>13. /\ \A i \in 1..n : l[i] \in K
       /\ \A b \in K : \E i \in 1..n : l[i] = b
       /\ \A i, j \in 1..n : l[i] = l[j] => i = j
  BY <1>12 DEF Names
<1>14. PICK f, w : f = [i \in 1..n |-> KeyAfter(z, l[i])] /\ w = [i \in 1..n |-> Deserialize(store[l[i]].data)]
  OBVIOUS
<1>15. \A i \in 1..n : f[i] \in I /\ l[i] = ent[f[i]] /\ w[i] = c[f[i]]
  BY <1>9, <1>13, <1>14
<1>16. \A x, y \in 1..n : f[x] = f[y] => x = y
  BY <1>13, <1>15
<1>21. \A k \in I : \E x \in 1..n : k = f[x]
  BY <1>8, <1>13, <1>14
<1>17. E = {<<f[i], w[i]>> : i \in 1..n}
  BY <1>7, <1>15, <1>21
<1>22. PICK P : P = {<<i, w[i]>> : i \in 1..n}
  OBVIOUS
<1>23. IsFiniteSet(1..n) /\ Cardinality(1..n) = n
  <2>1. 1 \in Int /\ n \in Int
    OBVIOUS
  <2>2. IsFiniteSet(1..n) /\ Cardinality(1..n) = IF 1 > n THEN 0 ELSE n - 1 + 1
    BY <2>1, FS_Interval
  <2>3. (IF 1 > n THEN 0 ELSE n - 1 + 1) = n
    OBVIOUS
  <2> QED
    BY <2>2, <2>3
<1>18. CountOf(P) = CountOf(E) /\ n = Cardinality(E)
  <2>1. PICK S : S = 1..n
    OBVIOUS
  <2>2. /\ IsFiniteSet(S) /\ Cardinality(S) = n /\ \A x, y \in S : f[x] = f[y] => x = y
        /\ E = {<<f[i], w[i]>> : i \in S} /\ P = {<<i, w[i]>> : i \in S}
    BY <1>16, <1>17, <1>22, <1>23, <2>1
  <2>3. CountOf(P) = CountOf(E) /\ Cardinality(E) = Cardinality(S)
    BY <2>2, CountedAlong
  <2> QED
    BY <2>2, <2>3
<1>19. {<<i, Deserialize(store[l[i]].data)>> : i \in 1..n} = P
  BY <1>14, <1>22
<1>20. (l = <<>>) = (E = {})
  <2>1. l = <<>> <=> n = 0
    BY <1>12 DEF Names
  <2>2. n = 0 => E = {}
    BY <1>17
  <2>3. n # 0 => E # {}
    <3>1. n # 0 => 1 \in 1..n
      OBVIOUS
    <3>2. n # 0 => f[1] \in I
      BY <1>15, <3>1
    <3> QED
      BY <1>7, <3>2
  <2> QED
    BY <2>1, <2>2, <2>3
<1> QED
  BY <1>1, <1>10, <1>11, <1>12, <1>18, <1>19, <1>20 DEF FasterFoundAre

\* What both builds read of an entry.
LEMMA EntryShown ==
    ASSUME NEW h \in MapStates, NEW mk, FasterOn(h, mk), Fits(store), NEW k \in Keys, NEW c, c = Contents(store)[h][mk]
    PROVE  /\ SlowerFaster!Decoded(SlowerFaster!Get(SlowerFaster!EntryKey(h, mk, k))) = c[k]
           /\ Faster!Decoded(Faster!Get(Faster!EntryKey(h, mk, k))) = c[k]
           /\ (SlowerFaster!Get(SlowerFaster!EntryKey(h, mk, k)) # None) = (c[k] # None)
           /\ (Faster!Get(Faster!EntryKey(h, mk, k)) # None) = (c[k] # None)
<1>1. PICK e : e = SlowerFaster!EntryKey(h, mk, k)
  OBVIOUS
<1>2. h \in Handles /\ mk \in Metakeys(h) /\ c = FasterHas(store, h, mk)
  BY FasterContentOf DEF Handles, FasterOn
<1>3. c[k] = RawIn(store, e)
  BY <1>1, <1>2 DEF FasterHas
<1>4. e \in DOMAIN store => store[e].data \in ValuesBytes
  BY <1>1, <1>2, FasterBytes DEF Fits, FitsAt, EntryKeys
<1>5. /\ SlowerFaster!Decoded(SlowerFaster!Get(e)) = c[k] /\ Faster!Decoded(Faster!Get(e)) = c[k]
      /\ (SlowerFaster!Get(e) # None) = (c[k] # None) /\ (Faster!Get(e) # None) = (c[k] # None)
  BY <1>3, <1>4, ValueRead, FasterBytes
     DEF RawIn, SlowerFaster!Decoded, SlowerFaster!Get, Faster!Decoded, Faster!Get
<1> QED
  BY <1>1, <1>5, FasterKeys

\* An entry is read,
LEMMA EntryReadDone ==
    ASSUME NEW h \in MapStates, NEW mk, FasterOn(h, mk), Fits(store), NEW k \in Keys, NEW c, c = Contents(store)[h][mk],
           FasterReads(h, "get", c[k]) \/ FasterReads(h, "contains", c[k] # None)
    PROVE  FasterDoes(h, mk)
<1>1. /\ Keyed!Reads(h, "get", c[k]) \/ Keyed!Reads(h, "contains", c[k] # None)
      /\ Fits(store') /\ saved' = saved
  BY FasterReadDone
<1>2. Keyed!Map(h, mk)
  BY <1>1, SameBytes DEF Keyed!Map
<1> QED
  BY <1>1, <1>2 DEF FasterDoes, Keyed!Operation

\* removed,
LEMMA EntryRemoveDone ==
    ASSUME NEW h \in MapStates, NEW mk, FasterOn(h, mk), Fits(store), NEW k \in Keys, NEW c, c = Contents(store)[h][mk],
           NEW U, U = SlowerFaster!Removed(h, mk, k) \/ U = Faster!Removed(h, mk, k),
           FasterWrites(h, U, "remove", c[k]) \/ FasterWrites(h, U, "fast_remove", None)
    PROVE  FasterDoes(h, mk)
<1>1. h \in Handles /\ mk \in Metakeys(h) /\ c = FasterHas(store, h, mk) /\ FitsAt(store, h, mk)
  BY FasterContentOf DEF Handles, FasterOn, Fits
<1>2. PICK e : e = SlowerFaster!EntryKey(h, mk, k)
  OBVIOUS
<1>3. SameBut(store, U, {ListKey(h, mk), e}) /\ e \notin DOMAIN U
  BY <1>1, <1>2, RemovedIs
<1>4. PICK new : new = [c EXCEPT ![k] = None]
  OBVIOUS
<1>5. new = FasterHas(U, h, mk) /\ FitsAt(U, h, mk) /\ SameBut(store, U, {ListKey(h, mk)} \cup EntryKeys(h, mk))
  <2>1. /\ EntryChanged(FasterHas(store, h, mk), FasterHas(U, h, mk), k, None) /\ FitsAt(U, h, mk)
        /\ SameBut(store, U, {ListKey(h, mk)} \cup EntryKeys(h, mk))
    BY <1>1, <1>2, <1>3, EntryRemoved
  <2> QED
    BY <1>1, <1>4, <2>1 DEF EntryChanged
<1>6. /\ Keyed!Writes(h, mk, new, "remove", c[k]) \/ Keyed!Writes(h, mk, new, "fast_remove", None)
      /\ Fits(store') /\ saved' = saved
  BY <1>5, FasterWriteDone
<1>7. Keyed!Map(h, mk)
  BY <1>4, <1>6, SameBytes DEF Keyed!Map
<1> QED
  BY <1>6, <1>7 DEF FasterDoes, Keyed!Operation

\* written,
LEMMA EntryInsertDone ==
    ASSUME NEW h \in MapStates, NEW mk, FasterOn(h, mk), Fits(store), NEW k \in Keys, NEW v \in Values,
           NEW c, c = Contents(store)[h][mk],
           NEW U, U = SlowerFaster!Inserted(store, h, mk, k, v) \/ U = Faster!Inserted(store, h, mk, k, v),
           FasterWrites(h, U, "insert", c[k]) \/ FasterWrites(h, U, "fast_insert", None)
    PROVE  FasterDoes(h, mk)
<1>1. h \in Handles /\ mk \in Metakeys(h) /\ c = FasterHas(store, h, mk) /\ FitsAt(store, h, mk)
  BY FasterContentOf DEF Handles, FasterOn, Fits
<1>2. PICK e : e = SlowerFaster!EntryKey(h, mk, k)
  OBVIOUS
<1>3. SameBut(store, U, {ListKey(h, mk), e}) /\ e \in DOMAIN U /\ U[e].data = Serialize(v)
  BY <1>1, <1>2, InsertedIs
<1>4. PICK new : new = [c EXCEPT ![k] = v]
  OBVIOUS
<1>5. new = FasterHas(U, h, mk) /\ FitsAt(U, h, mk) /\ SameBut(store, U, {ListKey(h, mk)} \cup EntryKeys(h, mk))
  <2>1. /\ EntryChanged(FasterHas(store, h, mk), FasterHas(U, h, mk), k, v) /\ FitsAt(U, h, mk)
        /\ SameBut(store, U, {ListKey(h, mk)} \cup EntryKeys(h, mk))
    BY <1>1, <1>2, <1>3, EntryWritten
  <2> QED
    BY <1>1, <1>4, <2>1 DEF EntryChanged
<1>6. /\ Keyed!Writes(h, mk, new, "insert", c[k]) \/ Keyed!Writes(h, mk, new, "fast_insert", None)
      /\ Fits(store') /\ saved' = saved
  BY <1>5, FasterWriteDone
<1>7. Keyed!Map(h, mk)
  BY <1>4, <1>6, SameBytes DEF Keyed!Map
<1> QED
  BY <1>6, <1>7 DEF FasterDoes, Keyed!Operation

\* and two of them are.
LEMMA EntriesInsertDone ==
    ASSUME NEW h \in MapStates, NEW mk, FasterOn(h, mk), Fits(store),
           NEW i \in Keys, NEW j \in Keys, NEW v \in Values, NEW w \in Values,
           NEW T, T = SlowerFaster!Inserted(store, h, mk, i, v) \/ T = Faster!Inserted(store, h, mk, i, v),
           NEW U, U = SlowerFaster!Inserted(T, h, mk, j, w) \/ U = Faster!Inserted(T, h, mk, j, w),
           FasterWrites(h, U, "insert_all", None)
    PROVE  FasterDoes(h, mk)
<1>0. PICK c : c = Contents(store)[h][mk]
  OBVIOUS
<1>1. h \in Handles /\ mk \in Metakeys(h) /\ c = FasterHas(store, h, mk) /\ FitsAt(store, h, mk)
  BY <1>0, FasterContentOf DEF Handles, FasterOn, Fits
<1>2. PICK d, e, K : /\ d = SlowerFaster!EntryKey(h, mk, i) /\ e = SlowerFaster!EntryKey(h, mk, j)
                     /\ K = {ListKey(h, mk)} \cup EntryKeys(h, mk)
  OBVIOUS
<1>3. SameBut(store, T, {ListKey(h, mk), d}) /\ d \in DOMAIN T /\ T[d].data = Serialize(v)
  BY <1>1, <1>2, InsertedIs
<1>4. EntryChanged(FasterHas(store, h, mk), FasterHas(T, h, mk), i, v) /\ FitsAt(T, h, mk) /\ SameBut(store, T, K)
  BY <1>1, <1>2, <1>3, EntryWritten
<1>5. SameBut(T, U, {ListKey(h, mk), e}) /\ e \in DOMAIN U /\ U[e].data = Serialize(w)
  BY <1>1, <1>2, InsertedIs
<1>6. PICK new : new = [[c EXCEPT ![i] = v] EXCEPT ![j] = w]
  OBVIOUS
<1>7. EntryChanged(FasterHas(T, h, mk), FasterHas(U, h, mk), j, w) /\ FitsAt(U, h, mk) /\ SameBut(T, U, K)
  BY <1>1, <1>2, <1>4, <1>5, EntryWritten
<1>8. new = FasterHas(U, h, mk)
  BY <1>1, <1>4, <1>6, <1>7 DEF EntryChanged
<1>9. SameBut(store, U, K)
  BY <1>4, <1>7 DEF SameBut
<1>10. Keyed!Writes(h, mk, new, "insert_all", None) /\ Fits(store') /\ saved' = saved
  BY <1>2, <1>7, <1>8, <1>9, FasterWriteDone
<1>11. Keyed!Map(h, mk)
  BY <1>0, <1>6, <1>10, SameBytes DEF Keyed!Map
<1> QED
  BY <1>10, <1>11 DEF FasterDoes, Keyed!Operation

\* A panic changes nothing that is kept or shown.
FasterPanics == UNCHANGED <<store, saved, reply>>

\* In both builds.
LEMMA FasterPanicsAre == SlowerFaster!Panics \/ Faster!Panics => FasterPanics
  BY DEF SlowerFaster!Panics, Faster!Panics, FasterPanics

\* What goes over all entries goes along the list of keys.
LEMMA FasterScans ==
    ASSUME NEW h \in MapStates, NEW mk, FasterOn(h, mk), Fits(store), Named(store, h, mk),
           \/ SlowerFaster!MapClear(h, mk) \/ SlowerFaster!MapIter(h, mk) \/ SlowerFaster!MapKeys(h, mk)
           \/ SlowerFaster!MapValues(h, mk) \/ SlowerFaster!MapLen(h, mk) \/ SlowerFaster!MapIsEmpty(h, mk)
    PROVE  FasterDoes(h, mk) \/ FasterPanics
<1>1. CASE ~ SlowerFaster!CanScan(h, mk)
  <2>1. SlowerFaster!Panics
    BY <1>1 DEF SlowerFaster!MapClear, SlowerFaster!MapIter, SlowerFaster!MapKeys, SlowerFaster!MapValues,
       SlowerFaster!MapLen, SlowerFaster!MapIsEmpty
  <2> QED
    BY <2>1, FasterPanicsAre
<1>2. CASE SlowerFaster!CanScan(h, mk)
  <2>1. PICK c, l, K, E : /\ c = Contents(store)[h][mk] /\ l = SlowerFaster!ListOf(ListKey(h, mk))
                          /\ K = EntryKeys(h, mk) \cap DOMAIN store /\ E = MemEntriesOf(c)
    OBVIOUS
  <2>2. h \in Handles /\ mk \in Metakeys(h) /\ c = FasterHas(store, h, mk) /\ FitsAt(store, h, mk)
    BY <2>1, FasterContentOf DEF Handles, FasterOn, Fits
  <2>3. SlowerFaster!KeysOf(h, mk) = K /\ Names(l, K) /\ SlowerFaster!ListOf(SlowerFaster!Key(h, mk)) = l
    BY <1>2, <2>1, ListedKeys, FasterKeys DEF SlowerFaster!CanScan
  <2>4. FasterFoundAre(l, mk, K, E)
    BY <2>1, <2>2, <2>3, FasterFound
  <2>5. /\ {<<KeyAfter(Len(mk) + 1, b), Deserialize(store[b].data)>> : b \in K} = E
        /\ {KeyAfter(Len(mk) + 1, b) : b \in K} = {e[1] : e \in E}
        /\ CountOf({<<i, Deserialize(store[l[i]].data)>> : i \in 1..Len(l)}) = CountOf(E)
        /\ Len(l) = Cardinality(E)
        /\ (l = <<>>) = (E = {})
    BY <2>4 DEF FasterFoundAre
  <2>6. \A b \in K : SlowerFaster!Get(b) = store[b].data
    BY <2>1 DEF SlowerFaster!Get
  <2>7. E = {<<k, c[k]>> : k \in {k \in Keyed!Keys : c[k] # None}}
    BY <2>1, SameBytes DEF MemEntriesOf
  <2>8. ASSUME NEW op, NEW answer, FasterReads(h, op, answer)
        PROVE  Keyed!Reads(h, op, answer) /\ Fits(store') /\ saved' = saved
    BY <2>8, FasterReadDone
  <2>9. ASSUME Keyed!Map(h, mk), Fits(store'), saved' = saved PROVE FasterDoes(h, mk)
    BY <2>9 DEF FasterDoes, Keyed!Operation
  <2>10. CASE SlowerFaster!MapClear(h, mk)
    <3>1. PICK U, D : D = {ListKey(h, mk)} \cup K /\ U = SlowerFaster!Without(store, D)
      OBVIOUS
    <3>2. FasterWrites(h, U, "clear", mk)
      BY <1>2, <2>3, <2>10, <3>1, FasterWriteIs, FasterKeys DEF SlowerFaster!MapClear
    <3>3. /\ FasterHas(U, h, mk) = Keyed!Nothing(h) /\ FitsAt(U, h, mk)
          /\ SameBut(store, U, {ListKey(h, mk)} \cup EntryKeys(h, mk))
      BY <2>1, <2>2, <3>1, EntriesRemoved
    <3>4. Keyed!Writes(h, mk, Keyed!Nothing(h), "clear", mk) /\ Fits(store') /\ saved' = saved
      BY <3>2, <3>3, FasterWriteDone
    <3> QED
      BY <3>4 DEF FasterDoes, Keyed!Operation, Keyed!Clear
  <2>11. CASE SlowerFaster!MapIter(h, mk)
    <3>1. {<<SlowerFaster!KeyAfter(Len(mk) + 1, b), SlowerFaster!Deserialize(SlowerFaster!Get(b))>> :
             b \in SlowerFaster!KeysOf(h, mk)} = E
      BY <2>3, <2>5, <2>6, FasterBytes
    <3>2. FasterReads(h, "iter", E)
      BY <1>2, <2>11, <3>1, FasterWriteIs DEF SlowerFaster!MapIter
    <3> QED
      BY <2>1, <2>7, <2>8, <2>9, <3>2 DEF Keyed!Map
  <2>12. CASE SlowerFaster!MapKeys(h, mk)
    <3>1. {SlowerFaster!KeyAfter(Len(mk) + 1, b) : b \in SlowerFaster!KeysOf(h, mk)} = {e[1] : e \in E}
      BY <2>3, <2>5, FasterBytes
    <3>2. FasterReads(h, "keys", {e[1] : e \in E})
      BY <1>2, <2>12, <3>1, FasterWriteIs DEF SlowerFaster!MapKeys
    <3>3. Keyed!Reads(h, "keys", {e[1] : e \in E}) /\ Fits(store') /\ saved' = saved
      BY <2>8, <3>2
    <3> QED
      BY <2>1, <2>7, <2>9, <3>3 DEF Keyed!Map
  <2>13. CASE SlowerFaster!MapValues(h, mk)
    <3>1. \A i \in 1..Len(l) : l[i] \in K
      BY <2>3 DEF Names
    <3>2. {<<i, SlowerFaster!Deserialize(SlowerFaster!Get(l[i]))>> : i \in 1..Len(l)}
            = {<<i, Deserialize(store[l[i]].data)>> : i \in 1..Len(l)}
      BY <2>6, <3>1, FasterBytes
    <3>3. \A S : SlowerFaster!CountOf(S) = CountOf(S)
      BY FasterBytes, SameTables DEF SlowerFaster!CountOf, CountOf, SlowerFaster!Cardinality, Cardinality
    <3>6. PICK P : P = {<<i, SlowerFaster!Deserialize(SlowerFaster!Get(l[i]))>> : i \in 1..Len(l)}
      OBVIOUS
    <3>7. SlowerFaster!Reads(h, "values", SlowerFaster!CountOf(P))
      BY <1>2, <2>3, <2>13, <3>6 DEF SlowerFaster!MapValues
    <3>8. SlowerFaster!CountOf(P) = CountOf(E)
      BY <2>5, <3>2, <3>3, <3>6
    <3>4. FasterReads(h, "values", CountOf(E))
      BY <3>7, <3>8, FasterWriteIs
    <3>5. Keyed!Reads(h, "values", Keyed!CountOf(E)) /\ Fits(store') /\ saved' = saved
      BY <2>8, <3>4, SameTables
    <3> QED
      BY <2>1, <2>7, <2>9, <3>5 DEF Keyed!Map
  <2>14. CASE SlowerFaster!MapLen(h, mk)
    <3>1. FasterReads(h, "len", Cardinality(E))
      BY <1>2, <2>3, <2>5, <2>14, FasterWriteIs DEF SlowerFaster!MapLen
    <3>2. Keyed!Reads(h, "len", Keyed!Cardinality(E)) /\ Fits(store') /\ saved' = saved
      BY <2>8, <3>1, SameTables
    <3> QED
      BY <2>1, <2>7, <2>9, <3>2 DEF Keyed!Map
  <2>15. CASE SlowerFaster!MapIsEmpty(h, mk)
    <3>1. FasterReads(h, "is_empty", E = {})
      BY <1>2, <2>3, <2>5, <2>15, FasterWriteIs DEF SlowerFaster!MapIsEmpty
    <3>2. Keyed!Reads(h, "is_empty", E = {}) /\ Fits(store') /\ saved' = saved
      BY <2>8, <3>1
    <3> QED
      BY <2>1, <2>7, <2>9, <3>2 DEF Keyed!Map
  <2> QED
    BY <2>10, <2>11, <2>12, <2>13, <2>14, <2>15
<1> QED
  BY <1>1, <1>2

\* The operations on maps with slower_faster,
LEMMA SlowerMapOps ==
    ASSUME NEW h \in MapStates, NEW mk, FasterOn(h, mk), Fits(store), Named(store, h, mk), SlowerFaster!MapOps(h, mk)
    PROVE  FasterDoes(h, mk) \/ FasterPanics
<1>0. PICK c : c = Contents(store)[h][mk]
  OBVIOUS
<1>1. ASSUME NEW k \in Keys, SlowerFaster!MapGet(h, mk, k) \/ SlowerFaster!MapContains(h, mk, k)
      PROVE  FasterDoes(h, mk)
  <2>1. FasterReads(h, "get", c[k]) \/ FasterReads(h, "contains", c[k] # None)
    BY <1>0, <1>1, EntryShown, FasterWriteIs DEF SlowerFaster!MapGet, SlowerFaster!MapContains
  <2> QED
    BY <1>0, <2>1, EntryReadDone
<1>2. ASSUME NEW k \in Keys, SlowerFaster!MapRemove(h, mk, k) \/ SlowerFaster!MapFastRemove(h, mk, k)
      PROVE  FasterDoes(h, mk) \/ FasterPanics
  <2>1. PICK U : U = SlowerFaster!Removed(h, mk, k)
    OBVIOUS
  <2>2. \/ FasterWrites(h, U, "remove", c[k]) \/ FasterWrites(h, U, "fast_remove", None) \/ FasterPanics
    BY <1>0, <1>2, <2>1, EntryShown, FasterWriteIs, FasterPanicsAre DEF SlowerFaster!MapRemove, SlowerFaster!MapFastRemove
  <2> QED
    BY <1>0, <2>1, <2>2, EntryRemoveDone
<1>3. ASSUME NEW k \in Keys, NEW v \in Values, SlowerFaster!MapInsert(h, mk, k, v) \/ SlowerFaster!MapFastInsert(h, mk, k, v)
      PROVE  FasterDoes(h, mk) \/ FasterPanics
  <2>1. PICK U : U = SlowerFaster!Inserted(store, h, mk, k, v)
    OBVIOUS
  <2>2. \/ FasterWrites(h, U, "insert", c[k]) \/ FasterWrites(h, U, "fast_insert", None) \/ FasterPanics
    BY <1>0, <1>3, <2>1, EntryShown, FasterWriteIs, FasterPanicsAre DEF SlowerFaster!MapInsert, SlowerFaster!MapFastInsert
  <2> QED
    BY <1>0, <2>1, <2>2, EntryInsertDone
<1>4. ASSUME NEW i \in Keys, NEW j \in Keys, NEW v \in Values, NEW w \in Values,
             SlowerFaster!MapInsertAll(h, mk, i, v, j, w)
      PROVE  FasterDoes(h, mk) \/ FasterPanics
  <2>1. PICK T, U : T = SlowerFaster!Inserted(store, h, mk, i, v) /\ U = SlowerFaster!Inserted(T, h, mk, j, w)
    OBVIOUS
  <2>2. FasterWrites(h, U, "insert_all", None) \/ FasterPanics
    BY <1>4, <2>1, FasterWriteIs, FasterPanicsAre DEF SlowerFaster!MapInsertAll
  <2> QED
    BY <2>1, <2>2, EntriesInsertDone
<1> QED
  BY <1>1, <1>2, <1>3, <1>4, FasterScans, FasterBytes DEF SlowerFaster!MapOps

\* and without it.
LEMMA FasterMapOps ==
    ASSUME NEW h \in MapStates, NEW mk, FasterOn(h, mk), Fits(store), Faster!MapOps(h, mk)
    PROVE  FasterDoes(h, mk) \/ FasterPanics
<1>0. PICK c : c = Contents(store)[h][mk]
  OBVIOUS
<1>1. ASSUME NEW k \in Keys, Faster!MapGet(h, mk, k) \/ Faster!MapContains(h, mk, k)
      PROVE  FasterDoes(h, mk)
  <2>1. FasterReads(h, "get", c[k]) \/ FasterReads(h, "contains", c[k] # None)
    BY <1>0, <1>1, EntryShown, FasterWriteIs DEF Faster!MapGet, Faster!MapContains
  <2> QED
    BY <1>0, <2>1, EntryReadDone
<1>2. ASSUME NEW k \in Keys, Faster!MapRemove(h, mk, k) \/ Faster!MapFastRemove(h, mk, k)
      PROVE  FasterDoes(h, mk) \/ FasterPanics
  <2>1. PICK U : U = Faster!Removed(h, mk, k)
    OBVIOUS
  <2>2. \/ FasterWrites(h, U, "remove", c[k]) \/ FasterWrites(h, U, "fast_remove", None) \/ FasterPanics
    BY <1>0, <1>2, <2>1, EntryShown, FasterWriteIs, FasterPanicsAre DEF Faster!MapRemove, Faster!MapFastRemove
  <2> QED
    BY <1>0, <2>1, <2>2, EntryRemoveDone
<1>3. ASSUME NEW k \in Keys, NEW v \in Values, Faster!MapInsert(h, mk, k, v) \/ Faster!MapFastInsert(h, mk, k, v)
      PROVE  FasterDoes(h, mk) \/ FasterPanics
  <2>1. PICK U : U = Faster!Inserted(store, h, mk, k, v)
    OBVIOUS
  <2>2. \/ FasterWrites(h, U, "insert", c[k]) \/ FasterWrites(h, U, "fast_insert", None) \/ FasterPanics
    BY <1>0, <1>3, <2>1, EntryShown, FasterWriteIs, FasterPanicsAre DEF Faster!MapInsert, Faster!MapFastInsert
  <2> QED
    BY <1>0, <2>1, <2>2, EntryInsertDone
<1>4. ASSUME NEW i \in Keys, NEW j \in Keys, NEW v \in Values, NEW w \in Values,
             Faster!MapInsertAll(h, mk, i, v, j, w)
      PROVE  FasterDoes(h, mk) \/ FasterPanics
  <2>1. PICK T, U : T = Faster!Inserted(store, h, mk, i, v) /\ U = Faster!Inserted(T, h, mk, j, w)
    OBVIOUS
  <2>2. FasterWrites(h, U, "insert_all", None) \/ FasterPanics
    BY <1>4, <2>1, FasterWriteIs, FasterPanicsAre DEF Faster!MapInsertAll
  <2> QED
    BY <2>1, <2>2, EntriesInsertDone
<1>5. ASSUME \/ Faster!MapClear(h, mk) \/ Faster!MapIter(h, mk) \/ Faster!MapKeys(h, mk)
             \/ Faster!MapValues(h, mk) \/ Faster!MapLen(h, mk) \/ Faster!MapIsEmpty(h, mk)
      PROVE  FasterPanics
  <2>1. ~ Faster!CanScan(h, mk)
    BY DEF Faster!CanScan
  <2>2. Faster!Panics
    BY <1>5, <2>1 DEF Faster!MapClear, Faster!MapIter, Faster!MapKeys, Faster!MapValues, Faster!MapLen, Faster!MapIsEmpty
  <2> QED
    BY <2>2, FasterPanicsAre
<1> QED
  BY <1>1, <1>2, <1>3, <1>4, <1>5, FasterBytes DEF Faster!MapOps

\* The operations on the other states are the same in both builds.
LEMMA FasterSameOps ==
    ASSUME NEW h, NEW mk
    PROVE  /\ Faster!ValueOps(h, mk) => SlowerFaster!ValueOps(h, mk)
           /\ Faster!VecOps(h, mk) => SlowerFaster!VecOps(h, mk)
           /\ Faster!ReducerOps(h, mk) => SlowerFaster!ReducerOps(h, mk)
           /\ Faster!AggregatorOps(h, mk) => SlowerFaster!AggregatorOps(h, mk)
<1>1. ASSUME NEW T, NEW op, NEW answer
      PROVE  /\ Faster!Writes(h, T, op, answer) <=> SlowerFaster!Writes(h, T, op, answer)
             /\ Faster!Reads(h, op, answer) <=> SlowerFaster!Reads(h, op, answer)
             /\ Faster!Panics <=> SlowerFaster!Panics
  BY DEF Faster!Writes, SlowerFaster!Writes, Faster!Reads, SlowerFaster!Reads, Faster!Panics, SlowerFaster!Panics
<1>2. /\ \A b : Faster!Decoded(b) = SlowerFaster!Decoded(b)
      /\ \A b : Faster!Get(b) = SlowerFaster!Get(b)
      /\ \A t, b, d : Faster!Put(t, b, d) = SlowerFaster!Put(t, b, d)
  BY FasterBytes, FasterKeys DEF Faster!Decoded, SlowerFaster!Decoded, Faster!Get, SlowerFaster!Get, Faster!Put, SlowerFaster!Put
<1>3. Faster!ValueOps(h, mk) => SlowerFaster!ValueOps(h, mk)
  BY <1>1, <1>2, FasterBytes, FasterKeys
     DEF Faster!ValueOps, SlowerFaster!ValueOps, Faster!ValueClear, SlowerFaster!ValueClear, Faster!ValueGet,
         SlowerFaster!ValueGet, Faster!ValueSet, SlowerFaster!ValueSet, Faster!ValueFastSet, SlowerFaster!ValueFastSet
<1>4. \A b : Faster!ListOf(b) = SlowerFaster!ListOf(b)
  BY FasterKeys DEF Faster!ListOf, SlowerFaster!ListOf
<1>5. /\ Faster!Items(h, mk) = SlowerFaster!Items(h, mk)
      /\ \A s : Faster!Encoded(s) = SlowerFaster!Encoded(s)
  BY <1>4, FasterKeys, FasterBytes DEF Faster!Items, SlowerFaster!Items, Faster!Encoded, SlowerFaster!Encoded
<1>6. \A l, m : m.op \in {"Value", "Push"} => Faster!VecRmw(l, m) = SlowerFaster!VecRmw(l, m)
  BY DEF Faster!VecRmw, SlowerFaster!VecRmw
<1>7. ASSUME NEW t, NEW b, NEW d, NEW op \in {"Value", "Push"}
      PROVE  Faster!RmwVec(t, b, Faster!Rec(op, d)) = SlowerFaster!RmwVec(t, b, SlowerFaster!Rec(op, d))
  <2>1. PICK m : m = SlowerFaster!Rec(op, d)
    OBVIOUS
  <2>2. m.op = op
    BY <2>1 DEF SlowerFaster!Rec
  <2>3. Faster!RmwVec(t, b, m) = SlowerFaster!RmwVec(t, b, m)
    BY <1>6, <2>2, FasterKeys DEF Faster!RmwVec, SlowerFaster!RmwVec
  <2> QED
    BY <2>1, <2>3, FasterKeys
<1>8. Faster!VecOps(h, mk) => SlowerFaster!VecOps(h, mk)
  <2>1. /\ Faster!VecClear(h, mk) <=> SlowerFaster!VecClear(h, mk)
        /\ Faster!VecGet(h, mk) <=> SlowerFaster!VecGet(h, mk)
        /\ Faster!VecIter(h, mk) <=> SlowerFaster!VecIter(h, mk)
        /\ Faster!VecLen(h, mk) <=> SlowerFaster!VecLen(h, mk)
        /\ Faster!VecIsEmpty(h, mk) <=> SlowerFaster!VecIsEmpty(h, mk)
    BY <1>1, <1>4, <1>5, FasterKeys
       DEF Faster!VecClear, SlowerFaster!VecClear, Faster!VecGet, SlowerFaster!VecGet, Faster!VecIter,
           SlowerFaster!VecIter, Faster!VecLen, SlowerFaster!VecLen, Faster!VecIsEmpty, SlowerFaster!VecIsEmpty
  <2>2. \A v : Faster!VecAppend(h, mk, v) <=> SlowerFaster!VecAppend(h, mk, v)
    BY <1>1, <1>7, FasterKeys, FasterBytes DEF Faster!VecAppend, SlowerFaster!VecAppend
  <2>3. \A s : Faster!VecSet(h, mk, s) <=> SlowerFaster!VecSet(h, mk, s)
    BY <1>1, <1>5, FasterKeys, FasterBytes DEF Faster!VecSet, SlowerFaster!VecSet
  <2>4. \A s : Faster!VecAddAll(h, mk, s) <=> SlowerFaster!VecAddAll(h, mk, s)
    BY <1>1, <1>5, <1>7, FasterKeys, FasterBytes DEF Faster!VecAddAll, SlowerFaster!VecAddAll
  <2> QED
    BY <1>4, <2>1, <2>2, <2>3, <2>4, FasterBytes, FasterKeys DEF Faster!VecOps, SlowerFaster!VecOps
<1>9. ASSUME NEW b, NEW new PROVE Faster!Aggregate(h, b, new) = SlowerFaster!Aggregate(h, b, new)
  <2>1. \A o : Faster!ReduceFn(o, new) = SlowerFaster!ReduceFn(o, new)
    BY FasterBytes DEF Faster!ReduceFn, SlowerFaster!ReduceFn, Faster!Reduce, SlowerFaster!Reduce
  <2>2. \A o : Faster!AggregateFn(o, new) = SlowerFaster!AggregateFn(o, new)
    BY FasterBytes DEF Faster!AggregateFn, SlowerFaster!AggregateFn, Faster!Add, SlowerFaster!Add,
       Faster!CreateAccumulator, SlowerFaster!CreateAccumulator, Faster!ACCUMULATOR_MARKER,
       SlowerFaster!ACCUMULATOR_MARKER, Faster!MergeAccumulators, SlowerFaster!MergeAccumulators
  <2> QED
    BY <2>1, <2>2, FasterKeys DEF Faster!Aggregate, SlowerFaster!Aggregate
<1>10. Faster!ReducerOps(h, mk) => SlowerFaster!ReducerOps(h, mk)
  BY <1>1, <1>2, <1>9, FasterBytes, FasterKeys
     DEF Faster!ReducerOps, SlowerFaster!ReducerOps, Faster!ReducerClear, SlowerFaster!ReducerClear, Faster!ReducerGet,
         SlowerFaster!ReducerGet, Faster!ReducerReduce, SlowerFaster!ReducerReduce
<1>11. Faster!AggregatorOps(h, mk) => SlowerFaster!AggregatorOps(h, mk)
  BY <1>1, <1>2, <1>9, FasterBytes, FasterKeys
     DEF Faster!AggregatorOps, SlowerFaster!AggregatorOps, Faster!AggregatorClear, SlowerFaster!AggregatorClear,
         Faster!AggregatorGet, SlowerFaster!AggregatorGet, Faster!AggregatorAggregate, SlowerFaster!AggregatorAggregate,
         Faster!CreateAccumulator, SlowerFaster!CreateAccumulator, Faster!ACCUMULATOR_MARKER,
         SlowerFaster!ACCUMULATOR_MARKER, Faster!VALUE_MARKER, SlowerFaster!VALUE_MARKER
<1> QED
  BY <1>3, <1>8, <1>10, <1>11

\* What is stored fits the states, in the database and its checkpoint, and only
\* declared states are registered.
FasterFits ==
    backend \in FasterBackends =>
        Fits(store) /\ Fits(saved) /\ registered \subseteq declared

\* The operator starts with nothing, as in KeyedState.
LEMMA FasterInitIs ==
    ASSUME Init, backend \in FasterBackends PROVE FasterFits /\ Keyed!Init
<1>1. /\ store = EmptyTable /\ saved = EmptyTable /\ registered = {} /\ reply = <<None, "none", None>>
      /\ DOMAIN store = {}
  <2>1. Faster!Init
    BY DEF Init, FasterBackends
  <2> QED
    BY <2>1, FasterBytes DEF Faster!Init, EmptyTable
<1>2. FasterFits
  BY <1>1 DEF FasterFits, Fits, FitsAt
<1>3. PICK d \in Deployments : backend = d[1] /\ declared = d[2]
  BY DEF Init
<1>4. declared \in SUBSET Handles
  BY <1>3, BackendsAssumption
<1>5. FasterContents(declared, store) = Keyed!Fresh(declared)
  <2>1. ASSUME NEW h, NEW mk PROVE FasterHas(store, h, mk) = Keyed!Nothing(h)
    <3>1. \A b : RawIn(store, b) = None /\ ListIn(store, b) = <<>> /\ SlowerFaster!Aggregated(store, b) = <<>>
      BY <1>1 DEF RawIn, ListIn, SlowerFaster!Aggregated, SlowerFaster!CreateAccumulator
    <3>2. DecodedItems(<<>>) = <<>>
      BY DEF DecodedItems
    <3>3. h \in MapStates => h \notin ValueStates \cup ReducerStates
      BY IdsAssumption
    <3> QED
      BY <3>1, <3>2, <3>3, SameBytes DEF FasterHas, Keyed!Nothing
  <2> QED
    BY <2>1, SameBytes DEF FasterContents, Keyed!Fresh
<1>6. /\ Contents(store) = Keyed!Fresh(declared)
      /\ Contents(IF backend = "SledCheckpoints" THEN Sled!Exported ELSE saved) = Contents(store)
      /\ (backend \notin {"InMemory", "Sled"}) \in BOOLEAN
  BY <1>1, <1>5, FasterIsShown DEF FasterShown
<1>7. declared \in SUBSET Keyed!Handles
  BY <1>4, SameBytes
<1> QED
  BY <1>1, <1>2, <1>6, <1>7 DEF Keyed!Init

\* An operation on a registered state.
FasterOperation(h, mk) ==
    \/ h \in ValueStates /\ SlowerFaster!ValueOps(h, mk)
    \/ h \in MapStates /\ Named(store, h, mk) /\ SlowerFaster!MapOps(h, mk)
    \/ h \in MapStates /\ Faster!MapOps(h, mk)
    \/ h \in VecStates /\ SlowerFaster!VecOps(h, mk)
    \/ h \in ReducerStates /\ SlowerFaster!ReducerOps(h, mk)
    \/ h \in AggregatorStates /\ SlowerFaster!AggregatorOps(h, mk)

\* It registers nothing.
LEMMA FasterKeepsRegistered ==
    ASSUME NEW h, NEW mk, FasterOperation(h, mk)
    PROVE  registered' = registered
<1>1. /\ \A T, op, answer : SlowerFaster!Writes(h, T, op, answer) \/ Faster!Writes(h, T, op, answer)
                               => registered' = registered
      /\ \A op, answer : SlowerFaster!Reads(h, op, answer) \/ Faster!Reads(h, op, answer) => registered' = registered
      /\ SlowerFaster!Panics \/ Faster!Panics => registered' = registered
  BY DEF SlowerFaster!Writes, Faster!Writes, SlowerFaster!Reads, Faster!Reads, SlowerFaster!Panics, Faster!Panics
<1>2. CASE SlowerFaster!ValueOps(h, mk)
  BY <1>1, <1>2
     DEF SlowerFaster!ValueOps, SlowerFaster!ValueClear, SlowerFaster!ValueGet, SlowerFaster!ValueSet,
         SlowerFaster!ValueFastSet
<1>3. CASE SlowerFaster!VecOps(h, mk)
  BY <1>1, <1>3
     DEF SlowerFaster!VecOps, SlowerFaster!VecClear, SlowerFaster!VecGet, SlowerFaster!VecIter,
         SlowerFaster!VecLen, SlowerFaster!VecIsEmpty, SlowerFaster!VecAppend, SlowerFaster!VecSet,
         SlowerFaster!VecAddAll
<1>4. CASE SlowerFaster!ReducerOps(h, mk)
  BY <1>1, <1>4
     DEF SlowerFaster!ReducerOps, SlowerFaster!ReducerClear, SlowerFaster!ReducerGet,
         SlowerFaster!ReducerReduce
<1>5. CASE SlowerFaster!AggregatorOps(h, mk)
  BY <1>1, <1>5
     DEF SlowerFaster!AggregatorOps, SlowerFaster!AggregatorClear, SlowerFaster!AggregatorGet,
         SlowerFaster!AggregatorAggregate
<1>6. CASE SlowerFaster!MapOps(h, mk)
  BY <1>1, <1>6
     DEF SlowerFaster!MapOps, SlowerFaster!MapClear, SlowerFaster!MapIter, SlowerFaster!MapKeys,
         SlowerFaster!MapValues, SlowerFaster!MapLen, SlowerFaster!MapIsEmpty, SlowerFaster!MapGet,
         SlowerFaster!MapContains, SlowerFaster!MapRemove, SlowerFaster!MapFastRemove,
         SlowerFaster!MapInsert, SlowerFaster!MapFastInsert, SlowerFaster!MapInsertAll
<1>7. CASE Faster!MapOps(h, mk)
  BY <1>1, <1>7
     DEF Faster!MapOps, Faster!MapClear, Faster!MapIter, Faster!MapKeys, Faster!MapValues, Faster!MapLen,
         Faster!MapIsEmpty, Faster!MapGet, Faster!MapContains, Faster!MapRemove, Faster!MapFastRemove,
         Faster!MapInsert, Faster!MapFastInsert, Faster!MapInsertAll
<1> QED
  BY <1>2, <1>3, <1>4, <1>5, <1>6, <1>7 DEF FasterOperation

\* Every step is such an operation, a checkpoint or a restart.
LEMMA FasterStepsAre ==
    ASSUME FasterInv, backend \in FasterBackends, Step
    PROVE  \/ \E h \in registered : \E mk \in Metakeys(h) : FasterOperation(h, mk)
           \/ /\ saved' = store /\ reply' = <<None, "checkpoint", None>>
              /\ UNCHANGED <<store, registered>>
           \/ /\ store' = saved /\ registered' = {} /\ reply' = <<None, "none", None>>
              /\ UNCHANGED saved
<1>1. CASE backend = "SlowerFaster"
  <2>1. SlowerFaster!Step /\ Listed(store)
    BY <1>1 DEF Step, FasterInv
  <2>2. CASE SlowerFaster!Checkpoint \/ SlowerFaster!Restart
    BY <2>2 DEF SlowerFaster!Checkpoint, SlowerFaster!Restart
  <2>3. ASSUME NEW h \in registered, NEW mk \in Metakeys(h),
               \/ h \in ValueStates /\ SlowerFaster!ValueOps(h, mk)
               \/ h \in MapStates /\ SlowerFaster!MapOps(h, mk)
               \/ h \in VecStates /\ SlowerFaster!VecOps(h, mk)
               \/ h \in ReducerStates /\ SlowerFaster!ReducerOps(h, mk)
               \/ h \in AggregatorStates /\ SlowerFaster!AggregatorOps(h, mk)
        PROVE  FasterOperation(h, mk)
    BY <2>1, <2>3, FasterBytes DEF FasterOperation, Listed
  <2> QED
    BY <2>1, <2>2, <2>3, FasterBytes DEF SlowerFaster!Step
<1>2. CASE backend = "Faster"
  <2>1. Faster!Step
    BY <1>2 DEF Step
  <2>2. CASE Faster!Checkpoint \/ Faster!Restart
    BY <2>2 DEF Faster!Checkpoint, Faster!Restart
  <2>3. ASSUME NEW h \in registered, NEW mk \in Metakeys(h),
               \/ h \in ValueStates /\ Faster!ValueOps(h, mk)
               \/ h \in MapStates /\ Faster!MapOps(h, mk)
               \/ h \in VecStates /\ Faster!VecOps(h, mk)
               \/ h \in ReducerStates /\ Faster!ReducerOps(h, mk)
               \/ h \in AggregatorStates /\ Faster!AggregatorOps(h, mk)
        PROVE  FasterOperation(h, mk)
    BY <2>3, FasterSameOps DEF FasterOperation
  <2> QED
    BY <2>1, <2>2, <2>3, FasterBytes DEF Faster!Step
<1> QED
  BY <1>1, <1>2 DEF FasterBackends

\* Every step of the backend is one of KeyedState, or none.
LEMMA FasterStepIs ==
    ASSUME FasterInv, FasterFits, backend \in FasterBackends, Next
    PROVE  FasterFits' /\ [Keyed!Next]_(Keyed!vars)
<1>1. UNCHANGED <<backend, declared>> /\ Fits(store) /\ Fits(saved) /\ registered \subseteq declared
  BY DEF Next, FasterFits
<1>2. FasterShown /\ FasterShown'
  BY FasterIsShown, PTL
<1>3. /\ Contents(store) = FasterContents(declared, store)
      /\ Contents(IF backend = "SledCheckpoints" THEN Sled!Exported ELSE saved) = FasterContents(declared, saved)
      /\ (backend \notin {"InMemory", "Sled"}) = TRUE
      /\ Contents(store)' = FasterContents(declared, store')
      /\ Contents(IF backend = "SledCheckpoints" THEN Sled!Exported ELSE saved)' = FasterContents(declared, saved')
      /\ (backend \notin {"InMemory", "Sled"})' = TRUE
  BY <1>1, <1>2 DEF FasterShown
<1>4. ASSUME Fits(store'), Fits(saved'), registered' \subseteq declared PROVE FasterFits'
  BY <1>1, <1>4 DEF FasterFits, Fits, FitsAt
<1>5. ASSUME UNCHANGED <<store, saved, reply>> PROVE UNCHANGED Keyed!vars
  BY <1>3, <1>5 DEF Keyed!vars
<1>6. ASSUME NEW h \in declared, Faster!Register(h) PROVE FasterFits' /\ UNCHANGED Keyed!vars
  <2>1. UNCHANGED <<store, saved, reply>> /\ registered' = registered \cup {h}
    BY <1>6 DEF Faster!Register
  <2> QED
    BY <1>1, <1>4, <1>5, <2>1
<1>7. ASSUME NEW h \in registered, NEW mk \in Metakeys(h), FasterOperation(h, mk)
      PROVE  FasterFits' /\ [Keyed!Next]_(Keyed!vars)
  <2>1. FasterOn(h, mk) /\ registered' = registered
    BY <1>1, <1>7, FasterKeepsRegistered DEF FasterOn
  <2>2. FasterDoes(h, mk) \/ FasterPanics
    BY <1>1, <1>7, <2>1, FasterValueOps, SlowerMapOps, FasterMapOps, FasterVecOps, FasterReducerOps, FasterAggregatorOps,
       FasterPanicsAre DEF FasterOperation
  <2>3. CASE FasterDoes(h, mk)
    <3>1. h \in DOMAIN Contents(store) /\ mk \in Keyed!Metakeys(h)
      BY <1>1, <1>7, SameBytes DEF Contents
    <3>2. Keyed!Next
      BY <2>3, <3>1 DEF FasterDoes, Keyed!Next
    <3> QED
      BY <1>1, <1>4, <2>1, <2>3, <3>2 DEF FasterDoes
  <2>4. CASE FasterPanics
    BY <1>1, <1>4, <1>5, <2>1, <2>4 DEF FasterPanics
  <2> QED
    BY <2>2, <2>3, <2>4
<1>8. ASSUME saved' = store, reply' = <<None, "checkpoint", None>>, UNCHANGED <<store, registered>>
      PROVE  FasterFits' /\ Keyed!Next
  <2>1. Keyed!Checkpoint
    BY <1>3, <1>8 DEF Keyed!Checkpoint
  <2> QED
    BY <1>1, <1>4, <1>8, <2>1 DEF Keyed!Next
<1>9. ASSUME store' = saved, registered' = {}, reply' = <<None, "none", None>>, UNCHANGED saved
      PROVE  FasterFits' /\ Keyed!Next
  <2>1. Keyed!Restart
    BY <1>3, <1>9 DEF Keyed!Restart
  <2> QED
    BY <1>1, <1>4, <1>9, <2>1 DEF Keyed!Next
<1>10. CASE Step
  BY <1>7, <1>8, <1>9, <1>10, FasterStepsAre
<1>11. CASE \E h \in declared : Register(h)
  <2>1. PICK h \in declared : Faster!Register(h)
    BY <1>11 DEF Register, FasterBackends
  <2> QED
    BY <1>6, <2>1
<1> QED
  BY <1>10, <1>11 DEF Next

\* For every set of states, keys and values, the Faster backend is what
\* KeyedState describes, with slower_faster and without it: although all states
\* share one key space and vecs, reducers and aggregators are changed by
\* modifications that FASTER stores or applies, every operation that does not
\* panic works on the contents of its own handle, item key and namespace only
\* and answers from them, one that panics changes nothing, and a restart brings
\* back what the last checkpoint had (faster/mod.rs and *_ops.rs).
THEOREM FasterImplements == Spec /\ backend \in FasterBackends => ImplementsKeyedState
<1> DEFINE Inv == backend \in FasterBackends /\ FasterFits /\ FasterInv
<1>1. Init /\ backend \in FasterBackends => Inv /\ Keyed!Init
  BY FasterInitIs, FasterInit
<1>2. Inv /\ [Next]_vars => Inv' /\ [Keyed!Next]_(Keyed!vars)
  <2> SUFFICES ASSUME Inv, [Next]_vars PROVE Inv' /\ [Keyed!Next]_(Keyed!vars)
    OBVIOUS
  <2>1. FasterInv'
    BY FasterStep
  <2>2. CASE Next
    <3>1. backend' = backend
      BY <2>2 DEF Next
    <3> QED
      BY <2>1, <2>2, <3>1, FasterStepIs
  <2>3. CASE UNCHANGED vars
    <3>1. FasterFits'
      BY <2>3 DEF vars, FasterFits, Fits, FitsAt
    <3>2. FasterShown /\ FasterShown'
      BY FasterIsShown, PTL
    <3>3. UNCHANGED Keyed!vars
      BY <2>3, <3>2 DEF vars, Keyed!vars, FasterShown
    <3> QED
      BY <2>1, <2>3, <3>1, <3>3 DEF vars
  <2> QED
    BY <2>2, <2>3
<1> QED
  BY <1>1, <1>2, PTL DEF Spec, ImplementsKeyedState, Keyed!Spec
=============================================================================
