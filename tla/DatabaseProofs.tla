---------------------------- MODULE DatabaseProofs ---------------------------
(***************************************************************************)
(* Proofs about the wrappers of the databases, for every set of tasks,     *)
(* number of reader slots and length of a batch: the invariants of         *)
(* AsyncHeed, AsyncReDb and SqliteWrapper, and that each of them keeps     *)
(* from its storage engine whatever TransactionService excludes.           *)
(***************************************************************************)
EXTENDS AsyncReDb, SqliteWrapper, FiniteSetTheorems, SequenceTheorems, TLAPS

-----------------------------------------------------------------------------
(* Queues without repetitions, as sets: what the operations on the waiting *)
(* queues of the wrappers do to them.                                      *)

\* A request that is new to a queue goes to its end.
LEMMA AppendToQueue ==
    ASSUME NEW S, NEW q \in Seq(S), NEW e \in S, IsInjective(q), e \notin ToSet(q)
    PROVE  /\ Append(q, e) \in Seq(S)
           /\ IsInjective(Append(q, e))
           /\ ToSet(Append(q, e)) = ToSet(q) \cup {e}
<1> DEFINE r == Append(q, e)
<1>1. r \in Seq(S) /\ Len(r) = Len(q) + 1
  OBVIOUS
<1>2. \A i \in 1 .. Len(q) : r[i] = q[i]
  OBVIOUS
<1>3. r[Len(q) + 1] = e
  OBVIOUS
<1>4. DOMAIN q = 1 .. Len(q) /\ DOMAIN r = 1 .. Len(q) + 1
  BY <1>1
<1> HIDE DEF r
<1>5. ToSet(r) = ToSet(q) \cup {e}
  BY <1>2, <1>3, <1>4 DEF ToSet
<1>6. IsInjective(r)
  BY <1>2, <1>3, <1>4 DEF IsInjective, ToSet
<1> QED
  BY <1>1, <1>5, <1>6 DEF r

\* The first request leaves a queue.
LEMMA TailOfQueue ==
    ASSUME NEW S, NEW q \in Seq(S), q # <<>>, IsInjective(q)
    PROVE  /\ Head(q) \in S
           /\ Head(q) \in ToSet(q)
           /\ Tail(q) \in Seq(S)
           /\ IsInjective(Tail(q))
           /\ ToSet(Tail(q)) = ToSet(q) \ {Head(q)}
<1> DEFINE r == Tail(q)
<1>1. r \in Seq(S) /\ Len(r) = Len(q) - 1 /\ Len(q) \in Nat \ {0}
  OBVIOUS
<1>2. \A i \in 1 .. Len(r) : r[i] = q[i + 1]
  OBVIOUS
<1>3. DOMAIN q = 1 .. Len(q) /\ DOMAIN r = 1 .. Len(q) - 1
  BY <1>1
<1>4. Head(q) = q[1] /\ Head(q) \in S
  BY <1>1
<1> HIDE DEF r
<1>5. \A i \in DOMAIN r : r[i] = q[i + 1] /\ i + 1 \in DOMAIN q
  BY <1>1, <1>2, <1>3
<1>6. \A j \in DOMAIN q : j # 1 => j - 1 \in DOMAIN r /\ r[j - 1] = q[j]
  BY <1>1, <1>2, <1>3
<1>7. 1 \in DOMAIN q
  BY <1>1, <1>3
<1>8. IsInjective(r)
  BY <1>5, <1>1, <1>3 DEF IsInjective
<1>9. ToSet(r) \subseteq ToSet(q) \ {q[1]}
  BY <1>5, <1>7, <1>1, <1>3 DEF IsInjective, ToSet
<1>10. ToSet(q) \ {q[1]} \subseteq ToSet(r)
  BY <1>6 DEF ToSet
<1> QED
  BY <1>1, <1>4, <1>7, <1>8, <1>9, <1>10 DEF r, ToSet

\* A request leaves a queue, wherever it stands.
LEMMA RemoveFromQueue ==
    ASSUME NEW S, NEW q \in Seq(S), IsInjective(q), NEW i \in 1 .. Len(q)
    PROVE  /\ RemoveAt(q, i) \in Seq(S)
           /\ IsInjective(RemoveAt(q, i))
           /\ ToSet(RemoveAt(q, i)) = ToSet(q) \ {q[i]}
<1> DEFINE a == SubSeq(q, 1, i - 1)
           b == SubSeq(q, i + 1, Len(q))
           r == RemoveAt(q, i)
<1>1. /\ a \in Seq(S) /\ Len(a) = i - 1
      /\ \A j \in 1 .. i - 1 : a[j] = q[j]
  OBVIOUS
<1>2. /\ b \in Seq(S) /\ Len(b) = Len(q) - i
      /\ \A j \in 1 .. Len(q) - i : b[j] = q[j + i]
  OBVIOUS
<1>3. r = a \o b
  BY DEF RemoveAt
<1> HIDE DEF a, b, r
<1>4. /\ r \in Seq(S) /\ Len(r) = Len(q) - 1
      /\ \A j \in 1 .. Len(q) - 1 : r[j] = IF j < i THEN q[j] ELSE q[j + 1]
  <2>1. r \in Seq(S) /\ Len(r) = Len(q) - 1
    <3>1. a \o b \in Seq(S) /\ Len(a \o b) = Len(a) + Len(b)
      <4>1. a \in Seq(S) /\ b \in Seq(S)
        BY <1>1, <1>2
      <4> QED
        BY <4>1, ConcatProperties
    <3>2. Len(a) + Len(b) = Len(q) - 1
      BY <1>1, <1>2
    <3> QED
      BY <3>1, <3>2, <1>3
  <2>2. ASSUME NEW j \in 1 .. Len(q) - 1, j < i PROVE r[j] = q[j]
    BY <1>1, <1>2, <1>3, <2>2
  <2>3. ASSUME NEW j \in 1 .. Len(q) - 1, ~(j < i) PROVE r[j] = q[j + 1]
    <3>1. r[j] = b[j - (i - 1)]
      BY <1>1, <1>2, <1>3, <2>3
    <3>2. j - (i - 1) \in 1 .. Len(q) - i /\ j - (i - 1) + i = j + 1
      BY <2>3
    <3> QED
      BY <3>1, <3>2, <1>2
  <2> QED
    BY <2>1, <2>2, <2>3
<1>5. DOMAIN q = 1 .. Len(q) /\ DOMAIN r = 1 .. Len(q) - 1
  BY <1>4
<1>6. \A j \in DOMAIN r : \E k \in DOMAIN q : k # i /\ r[j] = q[k]
  BY <1>4, <1>5
<1>7. \A k \in DOMAIN q : k # i => \E j \in DOMAIN r : r[j] = q[k]
  <2> SUFFICES ASSUME NEW k \in DOMAIN q, k # i
               PROVE  \E j \in DOMAIN r : r[j] = q[k]
    OBVIOUS
  <2>1. CASE k < i
    <3>1. k \in DOMAIN r
      BY <2>1, <1>5
    <3> QED
      BY <3>1, <2>1, <1>4, <1>5
  <2>2. CASE k > i
    <3>1. k - 1 \in DOMAIN r /\ ~(k - 1 < i) /\ k - 1 + 1 = k
      BY <2>2, <1>5
    <3> QED
      BY <3>1, <1>4, <1>5
  <2> QED
    BY <2>1, <2>2, <1>5
<1>8. IsInjective(r)
  <2> SUFFICES ASSUME NEW j \in DOMAIN r, NEW k \in DOMAIN r, r[j] = r[k]
               PROVE  j = k
    BY DEF IsInjective
  <2>1. /\ r[j] = q[IF j < i THEN j ELSE j + 1]
        /\ r[k] = q[IF k < i THEN k ELSE k + 1]
    BY <1>4, <1>5
  <2>2. /\ (IF j < i THEN j ELSE j + 1) \in DOMAIN q
        /\ (IF k < i THEN k ELSE k + 1) \in DOMAIN q
    BY <1>5
  <2>3. (IF j < i THEN j ELSE j + 1) = (IF k < i THEN k ELSE k + 1)
    BY <2>1, <2>2, Zenon DEF IsInjective
  <2> QED
    BY <2>3, <1>5
<1>9. ToSet(r) = ToSet(q) \ {q[i]}
  BY <1>5, <1>6, <1>7 DEF ToSet, IsInjective
<1> QED
  BY <1>4, <1>8, <1>9 DEF r

-----------------------------------------------------------------------------
(* heed: the inductive invariant.                                         *)

LEMMA InitHeedInv == Init => HeedInv
<1> SUFFICES ASSUME Init PROVE HeedInv
  OBVIOUS
<1> USE AsyncHeedAssumption DEF AsyncHeedAssumption, Init
<1>1. TypeOK
  <2>1. read \in [Tasks -> ReadState] /\ write \in [Tasks -> WriteState]
    BY DEF ReadState, WriteState
  <2>2. kind \in [Tasks -> Kind] /\ put \in [Tasks -> 0 .. BatchSize]
    BY DEF Kind
  <2>3. r_queue \in Seq(Requests) /\ w_queue \in Seq(Tasks)
    OBVIOUS
  <2>4. r_permits \in 0 .. MaxReaders /\ map_size \in {0, 1}
    OBVIOUS
  <2>5. w_holder \in Tasks \cup {None} /\ store \in [Keys -> Tasks \cup {None}]
    OBVIOUS
  <2> QED
    BY <2>1, <2>2, <2>3, <2>4, <2>5 DEF TypeOK
<1>2. QueuesAreSound
  <2>1. ToSet(<<>>) = {} /\ IsInjective(<<>>)
    <3>1. DOMAIN <<>> = {}
      OBVIOUS
    <3> QED
      BY <3>1, Zenon DEF ToSet, IsInjective
  <2> QED
    BY <2>1 DEF QueuesAreSound
<1>3. LockIsExclusive
  BY DEF LockIsExclusive, HoldsLock
<1>4. PermitsAreCounted
  <2>1. PermitHolders = {} /\ ~ \E t \in Tasks : HoldsAll(t)
    BY DEF PermitHolders, HoldsAll
  <2>2. r_permits + 0 = MaxReaders
    OBVIOUS
  <2> QED
    BY <2>1, <2>2, FS_EmptySet, Zenon DEF PermitsAreCounted
<1>5. KindsAreKept
  BY DEF KindsAreKept
<1> QED
  BY <1>1, <1>2, <1>3, <1>4, <1>5 DEF HeedInv

\* Whoever holds a permit shows that they are not all free, nor all taken by
\* a resize.
LEMMA PermitIsOut ==
    ASSUME TypeOK, PermitsAreCounted, NEW t \in PermitHolders
    PROVE  /\ \A s \in Tasks : ~HoldsAll(s)
           /\ IsFiniteSet(PermitHolders)
           /\ Cardinality(PermitHolders) \in Nat \ {0}
           /\ r_permits + Cardinality(PermitHolders) = MaxReaders
           /\ r_permits + 1 \in 0 .. MaxReaders
<1> USE AsyncHeedAssumption DEF AsyncHeedAssumption
<1>1. /\ \A s \in Tasks : ~HoldsAll(s)
      /\ IsFiniteSet(PermitHolders)
      /\ r_permits + Cardinality(PermitHolders) = MaxReaders
  BY DEF PermitsAreCounted
<1>2. Cardinality(PermitHolders) \in Nat /\ Cardinality(PermitHolders) # 0
  BY <1>1, FS_CardinalityType, FS_EmptySet
<1>3. r_permits \in 0 .. MaxReaders
  BY DEF TypeOK
<1>4. r_permits + 1 \in 0 .. MaxReaders
  BY <1>1, <1>2, <1>3
<1> QED
  BY <1>1, <1>2, <1>4

\* A permit goes back.
LEMMA PermitComesBack ==
    ASSUME TypeOK, PermitsAreCounted, NEW t \in PermitHolders,
           read' = [read EXCEPT ![t] = "none"], UNCHANGED write,
           r_permits' = r_permits + 1
    PROVE  PermitsAreCounted' /\ r_permits' \in 0 .. MaxReaders
<1> USE AsyncHeedAssumption DEF AsyncHeedAssumption
<1>1. /\ \A s \in Tasks : ~HoldsAll(s)
      /\ IsFiniteSet(PermitHolders)
      /\ Cardinality(PermitHolders) \in Nat \ {0}
      /\ r_permits + Cardinality(PermitHolders) = MaxReaders
      /\ r_permits + 1 \in 0 .. MaxReaders
  BY PermitIsOut
<1>2. PermitHolders' = PermitHolders \ {t}
  BY DEF PermitHolders, TypeOK
<1>3. /\ IsFiniteSet(PermitHolders')
      /\ Cardinality(PermitHolders') = Cardinality(PermitHolders) - 1
  BY <1>1, <1>2, FS_RemoveElement
<1>4. ~ \E s \in Tasks : HoldsAll(s)'
  BY <1>1 DEF HoldsAll
<1>5. r_permits' + Cardinality(PermitHolders') = MaxReaders
  <2>1. r_permits \in 0 .. MaxReaders
    BY DEF TypeOK
  <2> QED
    BY <1>1, <1>3, <2>1
<1> QED
  BY <1>1, <1>3, <1>4, <1>5 DEF PermitsAreCounted

\* All the permits go back: nobody but the holder of w_lock had them.
LEMMA AllPermitsComeBack ==
    ASSUME TypeOK, LockIsExclusive, PermitsAreCounted,
           NEW t \in Tasks, HoldsAll(t),
           write' = [write EXCEPT ![t] = "closing"], UNCHANGED read,
           r_permits' = r_permits + MaxReaders
    PROVE  PermitsAreCounted' /\ r_permits' \in 0 .. MaxReaders
<1> USE AsyncHeedAssumption DEF AsyncHeedAssumption
<1>1. PermitHolders = {} /\ r_permits = 0
  BY DEF PermitsAreCounted
<1>2. PermitHolders' = {}
  BY <1>1 DEF PermitHolders
<1>3. \A s \in Tasks : HoldsAll(s) => s = t
  BY DEF LockIsExclusive, HoldsLock, HoldsAll
<1>4. ~ \E s \in Tasks : HoldsAll(s)'
  BY <1>3 DEF HoldsAll, TypeOK
<1>5. r_permits' = MaxReaders /\ MaxReaders + 0 = MaxReaders
  BY <1>1
<1>6. IsFiniteSet(PermitHolders') /\ Cardinality(PermitHolders') = 0
  BY <1>2, FS_EmptySet
<1> QED
  BY <1>4, <1>5, <1>6 DEF PermitsAreCounted

\* The count of the permits, at each step.
LEMMA PermitsStep ==
    HeedInv /\ [Next]_vars => PermitsAreCounted' /\ r_permits' \in 0 .. MaxReaders
<1> SUFFICES ASSUME HeedInv, [Next]_vars
             PROVE  PermitsAreCounted' /\ r_permits' \in 0 .. MaxReaders
  OBVIOUS
<1> USE AsyncHeedAssumption DEF AsyncHeedAssumption, HeedInv, ReadTxnDropsFirst,
        WriteTxnDropsFirst, ResizeNeeds, PermitReturned, readVars, writeVars
<1>1. CASE GrantPermits
  <2> DEFINE request == Head(r_queue)
  <2>1. /\ request \in Requests /\ request \in ToSet(r_queue)
        /\ r_queue # <<>>
    BY <1>1, TailOfQueue DEF GrantPermits, TypeOK, QueuesAreSound
  <2>2. PICK t \in Tasks : t = request.task /\ request = Request(t, request.for)
    BY <2>1 DEF Requests, Request
  <2>3. CASE request.for = "read"
    <3>1. read[t] = "queued" /\ r_permits >= 1 /\ r_permits' = r_permits - 1
      BY <1>1, <2>1, <2>2, <2>3 DEF GrantPermits, Needs, QueuesAreSound
    <3>2. read' = [read EXCEPT ![t] = "granted"] /\ UNCHANGED write
      BY <1>1, <2>2, <2>3 DEF GrantPermits
    <3>3. /\ ~ \E s \in Tasks : HoldsAll(s)
          /\ ~ \E s \in Tasks : HoldsAll(s)'
      <4>1. r_permits # 0 /\ write' = write
        BY <3>1, <3>2
      <4> QED
        BY <4>1, Zenon DEF PermitsAreCounted, HoldsAll
    <3>4. PermitHolders' = PermitHolders \cup {t} /\ t \notin PermitHolders
      BY <2>2, <3>1, <3>2 DEF PermitHolders, TypeOK
    <3>5. /\ IsFiniteSet(PermitHolders')
          /\ Cardinality(PermitHolders') = Cardinality(PermitHolders) + 1
          /\ Cardinality(PermitHolders) \in Nat
      BY <3>4, FS_AddElement, FS_CardinalityType DEF PermitsAreCounted
    <3>6. r_permits \in 0 .. MaxReaders
      BY DEF TypeOK
    <3>7. r_permits + Cardinality(PermitHolders) = MaxReaders
      BY <3>3 DEF PermitsAreCounted
    <3>8. /\ r_permits' + Cardinality(PermitHolders') = MaxReaders
          /\ r_permits' \in 0 .. MaxReaders
      BY <3>1, <3>5, <3>6, <3>7
    <3> QED
      BY <3>3, <3>5, <3>8 DEF PermitsAreCounted
  <2>4. CASE request.for # "read"
    <3>1. r_permits >= MaxReaders /\ r_permits' = r_permits - MaxReaders
      BY <1>1, <2>4 DEF GrantPermits, Needs
    <3>2. write' = [write EXCEPT ![t] = "resizing"] /\ UNCHANGED read
      BY <1>1, <2>2, <2>4 DEF GrantPermits
    <3>3. r_permits = MaxReaders /\ ~ \E s \in Tasks : HoldsAll(s)
      <4>1. r_permits \in 0 .. MaxReaders
        BY DEF TypeOK
      <4>2. r_permits = MaxReaders /\ r_permits # 0
        BY <3>1, <4>1
      <4> QED
        BY <4>2, Zenon DEF PermitsAreCounted
    <3>4. Cardinality(PermitHolders) = 0
      <4>1. r_permits + Cardinality(PermitHolders) = MaxReaders
        BY <3>3 DEF PermitsAreCounted
      <4>2. Cardinality(PermitHolders) \in Nat
        BY FS_CardinalityType DEF PermitsAreCounted
      <4> QED
        BY <3>3, <4>1, <4>2
    <3>5. PermitHolders' = {} /\ IsFiniteSet(PermitHolders')
      <4>1. IsFiniteSet(PermitHolders)
        BY DEF PermitsAreCounted
      <4>2. PermitHolders = {}
        BY <3>4, <4>1, FS_EmptySet
      <4>3. PermitHolders' = PermitHolders
        BY <3>2 DEF PermitHolders
      <4> QED
        BY <4>1, <4>2, <4>3
    <3>6. HoldsAll(t)'
      BY <2>2, <3>2 DEF HoldsAll, TypeOK
    <3>7. r_permits' = 0 /\ r_permits' \in 0 .. MaxReaders
      BY <3>1, <3>3
    <3> QED
      BY <3>5, <3>6, <3>7, Zenon DEF PermitsAreCounted
  <2> QED
    BY <2>3, <2>4
<1>2. ASSUME NEW t \in Tasks, OpenReadFails(t) \/ FinishRead(t)
      PROVE  PermitsAreCounted' /\ r_permits' \in 0 .. MaxReaders
  <2>1. t \in PermitHolders
    BY <1>2 DEF OpenReadFails, FinishRead, PermitHolders
  <2> QED
    BY <1>2, <2>1, PermitComesBack DEF OpenReadFails, FinishRead
<1>3. ASSUME NEW t \in Tasks, CancelRead(t)
      PROVE  PermitsAreCounted' /\ r_permits' \in 0 .. MaxReaders
  <2>1. CASE read[t] = "granted"
    <3>1. t \in PermitHolders
      BY <2>1 DEF PermitHolders
    <3> QED
      BY <1>3, <2>1, <3>1, PermitComesBack DEF CancelRead
  <2>2. CASE read[t] = "queued"
    <3>1. PermitHolders' = PermitHolders /\ r_permits' = r_permits
      BY <1>3, <2>2 DEF CancelRead, PermitHolders, TypeOK
    <3>2. \A s \in Tasks : HoldsAll(s)' <=> HoldsAll(s)
      BY <1>3 DEF CancelRead, HoldsAll
    <3> QED
      BY <3>1, <3>2 DEF PermitsAreCounted, TypeOK
  <2> QED
    BY <1>3, <2>1, <2>2 DEF CancelRead
<1>4. ASSUME NEW t \in Tasks,
             ReleasePermits(t) \/ (CancelResize(t) /\ write[t] = "resizing")
      PROVE  PermitsAreCounted' /\ r_permits' \in 0 .. MaxReaders
  <2>1. HoldsAll(t)
    BY <1>4 DEF ReleasePermits, HoldsAll
  <2> QED
    BY <1>4, <2>1, AllPermitsComeBack DEF ReleasePermits, CancelResize
<1>5. ASSUME PermitHolders' = PermitHolders, r_permits' = r_permits,
             \A s \in Tasks : HoldsAll(s)' <=> HoldsAll(s)
      PROVE  PermitsAreCounted' /\ r_permits' \in 0 .. MaxReaders
  BY <1>5 DEF PermitsAreCounted, TypeOK
<1>6. ASSUME NEW t \in Tasks, BeginRead(t) \/ OpenRead(t) \/ CloseRead(t)
      PROVE  PermitsAreCounted' /\ r_permits' \in 0 .. MaxReaders
  <2>1. PermitHolders' = PermitHolders
    BY <1>6 DEF BeginRead, OpenRead, CloseRead, PermitHolders, TypeOK
  <2>2. r_permits' = r_permits /\ UNCHANGED write
    BY <1>6 DEF BeginRead, OpenRead, CloseRead
  <2> QED
    BY <1>5, <2>1, <2>2 DEF HoldsAll
<1>7. ASSUME NEW t \in Tasks,
             \/ WriteStep(t) \/ DrainReaders(t) \/ Resize(t)
             \/ (CancelResize(t) /\ write[t] = "draining")
      PROVE  PermitsAreCounted' /\ r_permits' \in 0 .. MaxReaders
  <2>1. UNCHANGED <<read, r_permits>>
    BY <1>7 DEF WriteStep, BeginWrite, OpenWrite, OpenWriteFails, PutItem,
                CommitBatch, EndWrite, AbortBatch, FinishWrite, CancelWrite,
                DrainReaders, Resize, CancelResize
  <2>2. \A s \in Tasks : HoldsAll(s)' <=> HoldsAll(s)
    BY <1>7 DEF WriteStep, BeginWrite, OpenWrite, OpenWriteFails, PutItem,
                CommitBatch, EndWrite, AbortBatch, FinishWrite, CancelWrite,
                DrainReaders, Resize, CancelResize, StartClosing, HoldsAll, TypeOK
  <2> QED
    BY <1>5, <2>1, <2>2 DEF PermitHolders
<1>8. CASE GrantLock \/ UNCHANGED vars
  <2>1. UNCHANGED <<read, r_permits>>
    BY <1>8 DEF GrantLock, vars
  <2>2. \A s \in Tasks : HoldsAll(s)' <=> HoldsAll(s)
    <3>1. CASE GrantLock
      <4>1. Head(w_queue) \in Tasks /\ Head(w_queue) \in ToSet(w_queue)
        BY <3>1, TailOfQueue DEF GrantLock, TypeOK, QueuesAreSound
      <4> QED
        BY <3>1, <4>1 DEF GrantLock, HoldsAll, TypeOK, QueuesAreSound
    <3>2. CASE UNCHANGED vars
      BY <3>2 DEF vars, HoldsAll
    <3> QED
      BY <1>8, <3>1, <3>2
  <2> QED
    BY <1>5, <2>1, <2>2 DEF PermitHolders
<1> QED
  BY <1>1, <1>2, <1>3, <1>4, <1>6, <1>7, <1>8
     DEF Next, ReadStep, ResizeStep, CancelResize

\* The states a step leaves every variable but the permits in.
LEMMA TypeStep ==
    HeedInv /\ [Next]_vars /\ r_permits' \in 0 .. MaxReaders => TypeOK'
<1> SUFFICES ASSUME HeedInv, [Next]_vars, r_permits' \in 0 .. MaxReaders
             PROVE  TypeOK'
  OBVIOUS
<1> USE AsyncHeedAssumption DEF AsyncHeedAssumption, HeedInv, TypeOK, readVars,
        writeVars, dataVars, WriteTxnDropsFirst, GuardDropped
<1>1. CASE GrantPermits
  <2>1. /\ Head(r_queue) \in Requests
        /\ Tail(r_queue) \in Seq(Requests)
    BY <1>1, TailOfQueue DEF GrantPermits, QueuesAreSound
  <2>2. Head(r_queue).task \in Tasks
    BY <2>1 DEF Requests
  <2> QED
    BY <1>1, <2>1, <2>2 DEF GrantPermits, ReadState, WriteState
<1>2. CASE GrantLock
  <2>1. Head(w_queue) \in Tasks /\ Tail(w_queue) \in Seq(Tasks)
    BY <1>2, TailOfQueue DEF GrantLock, QueuesAreSound
  <2> QED
    BY <1>2, <2>1 DEF GrantLock, WriteState
<1>3. ASSUME NEW t \in Tasks, BeginRead(t) PROVE TypeOK'
  <2>1. Append(r_queue, Request(t, "read")) \in Seq(Requests)
    BY DEF Requests, Request
  <2> QED
    BY <1>3, <2>1 DEF BeginRead, ReadState
<1>4. ASSUME NEW t \in Tasks,
             OpenRead(t) \/ OpenReadFails(t) \/ CloseRead(t) \/ FinishRead(t)
      PROVE  TypeOK'
  BY <1>4 DEF OpenRead, OpenReadFails, CloseRead, FinishRead, ReadState
<1>5. ASSUME NEW t \in Tasks, CancelRead(t) PROVE TypeOK'
  <2>1. r_queue' \in Seq(Requests)
    BY <1>5, RemoveFromQueue DEF CancelRead, QueuesAreSound
  <2> QED
    BY <1>5, <2>1 DEF CancelRead, ReadState
<1>6. ASSUME NEW t \in Tasks, NEW k \in Kind, BeginWrite(t, k) PROVE TypeOK'
  BY <1>6 DEF BeginWrite, WriteState
<1>7. ASSUME NEW t \in Tasks, OpenWrite(t) \/ OpenWriteFails(t) \/ FinishWrite(t)
      PROVE  TypeOK'
  BY <1>7 DEF OpenWrite, OpenWriteFails, FinishWrite, WriteState
<1>8. ASSUME NEW t \in Tasks, PutItem(t) PROVE TypeOK'
  BY <1>8 DEF PutItem
<1>9. ASSUME NEW t \in Tasks, CommitBatch(t) \/ EndWrite(t) \/ AbortBatch(t)
      PROVE  TypeOK'
  <2>1. StartClosing(t) /\ UNCHANGED <<readVars, map_size>>
    BY <1>9 DEF CommitBatch, EndWrite, AbortBatch
  <2>2. store' \in [Keys -> Tasks \cup {None}]
    BY <1>9 DEF CommitBatch, EndWrite, AbortBatch
  <2> QED
    BY <2>1, <2>2 DEF StartClosing, WriteState
<1>10. ASSUME NEW t \in Tasks, CancelWrite(t) PROVE TypeOK'
  <2>1. w_queue' \in Seq(Tasks)
    BY <1>10, RemoveFromQueue DEF CancelWrite, QueuesAreSound
  <2> QED
    BY <1>10, <2>1 DEF CancelWrite, WriteState
<1>11. ASSUME NEW t \in Tasks, DrainReaders(t) PROVE TypeOK'
  <2>1. Append(r_queue, Request(t, "resize")) \in Seq(Requests)
    BY DEF Requests, Request
  <2> QED
    BY <1>11, <2>1 DEF DrainReaders, WriteState
<1>12. ASSUME NEW t \in Tasks, Resize(t) \/ ReleasePermits(t) PROVE TypeOK'
  <2>1. map_size' \in {0, 1}
    BY <1>12 DEF Resize, ReleasePermits
  <2>2. /\ write' \in [Tasks -> WriteState]
        /\ UNCHANGED <<read, r_queue, kind, w_queue, w_holder, put, store>>
    BY <1>12 DEF Resize, ReleasePermits, WriteState
  <2> QED
    BY <2>1, <2>2
<1>13. ASSUME NEW t \in Tasks, CancelResize(t) PROVE TypeOK'
  <2>1. r_queue' \in Seq(Requests)
    BY <1>13, RemoveFromQueue DEF CancelResize, QueuesAreSound
  <2> QED
    BY <1>13, <2>1 DEF CancelResize, WriteState
<1>14. CASE UNCHANGED vars
  BY <1>14 DEF vars
<1> QED
  BY <1>1, <1>2, <1>3, <1>4, <1>5, <1>6, <1>7, <1>8, <1>9, <1>10, <1>11, <1>12,
     <1>13, <1>14 DEF Next, ReadStep, WriteStep, ResizeStep

\* Who holds w_lock.
LEMMA LockStep == HeedInv /\ [Next]_vars => LockIsExclusive'
<1> SUFFICES ASSUME HeedInv, [Next]_vars PROVE LockIsExclusive'
  OBVIOUS
<1> USE AsyncHeedAssumption DEF AsyncHeedAssumption, HeedInv, TypeOK, readVars,
        writeVars, dataVars, WriteTxnDropsFirst, GuardDropped, LockIsExclusive,
        HoldsLock
<1>1. CASE GrantPermits
  <2>1. PICK t \in Tasks : Head(r_queue) = Request(t, Head(r_queue).for)
    <3>1. Head(r_queue) \in Requests
      BY <1>1, TailOfQueue DEF GrantPermits, QueuesAreSound
    <3> QED
      BY <3>1 DEF Requests, Request
  <2>2. t = Head(r_queue).task /\ Head(r_queue) \in ToSet(r_queue)
    BY <1>1, <2>1, TailOfQueue DEF GrantPermits, QueuesAreSound, Request
  <2>3. CASE Head(r_queue).for = "read"
    BY <1>1, <2>3 DEF GrantPermits
  <2>4. CASE Head(r_queue).for # "read"
    <3>1. Head(r_queue) = Request(t, "resize")
      <4>1. Head(r_queue) \in Requests
        BY <1>1, TailOfQueue DEF GrantPermits, QueuesAreSound
      <4> QED
        BY <4>1, <2>1, <2>4 DEF Requests, Request
    <3>2. write[t] = "draining"
      BY <2>2, <3>1 DEF QueuesAreSound
    <3> QED
      BY <1>1, <2>2, <2>4, <3>2 DEF GrantPermits
  <2> QED
    BY <2>3, <2>4
<1>2. CASE GrantLock
  <2>1. Head(w_queue) \in Tasks /\ Head(w_queue) \in ToSet(w_queue)
    BY <1>2, TailOfQueue DEF GrantLock, QueuesAreSound
  <2> QED
    BY <1>2, <2>1 DEF GrantLock, QueuesAreSound
<1>3. ASSUME NEW t \in Tasks, ReadStep(t) PROVE LockIsExclusive'
  <2>1. UNCHANGED <<write, w_holder>>
    BY <1>3 DEF ReadStep, BeginRead, OpenRead, OpenReadFails, CloseRead,
                FinishRead, CancelRead
  <2> QED
    BY <2>1
<1>4. ASSUME NEW t \in Tasks, NEW k \in Kind, BeginWrite(t, k)
      PROVE  LockIsExclusive'
  BY <1>4 DEF BeginWrite
<1>5. ASSUME NEW t \in Tasks, OpenWrite(t) \/ OpenWriteFails(t) \/ FinishWrite(t)
      PROVE  LockIsExclusive'
  BY <1>5 DEF OpenWrite, OpenWriteFails, FinishWrite
<1>6. ASSUME NEW t \in Tasks,
             PutItem(t) \/ CommitBatch(t) \/ EndWrite(t) \/ AbortBatch(t)
      PROVE  LockIsExclusive'
  BY <1>6 DEF PutItem, CommitBatch, EndWrite, AbortBatch, StartClosing
<1>7. ASSUME NEW t \in Tasks, CancelWrite(t) PROVE LockIsExclusive'
  BY <1>7 DEF CancelWrite
<1>8. ASSUME NEW t \in Tasks, ResizeStep(t) PROVE LockIsExclusive'
  BY <1>8 DEF ResizeStep, DrainReaders, Resize, ReleasePermits, CancelResize
<1>9. CASE UNCHANGED vars
  BY <1>9 DEF vars
<1> QED
  BY <1>1, <1>2, <1>3, <1>4, <1>5, <1>6, <1>7, <1>8, <1>9 DEF Next, WriteStep

\* What a task took the lock for does not change while it holds it.
LEMMA KindsStep == HeedInv /\ [Next]_vars => KindsAreKept'
<1> SUFFICES ASSUME HeedInv, [Next]_vars PROVE KindsAreKept'
  OBVIOUS
<1> USE AsyncHeedAssumption DEF AsyncHeedAssumption, HeedInv, TypeOK, readVars,
        writeVars, dataVars, WriteTxnDropsFirst, KindsAreKept
<1>1. CASE GrantPermits
  <2>1. PICK t \in Tasks : Head(r_queue) = Request(t, Head(r_queue).for)
    <3>1. Head(r_queue) \in Requests
      BY <1>1, TailOfQueue DEF GrantPermits, QueuesAreSound
    <3> QED
      BY <3>1 DEF Requests, Request
  <2>2. t = Head(r_queue).task /\ Head(r_queue) \in ToSet(r_queue)
    BY <1>1, <2>1, TailOfQueue DEF GrantPermits, QueuesAreSound, Request
  <2>3. CASE Head(r_queue).for = "read"
    BY <1>1, <2>3 DEF GrantPermits
  <2>4. CASE Head(r_queue).for # "read"
    <3>1. Head(r_queue) = Request(t, "resize")
      <4>1. Head(r_queue) \in Requests
        BY <1>1, TailOfQueue DEF GrantPermits, QueuesAreSound
      <4> QED
        BY <4>1, <2>1, <2>4 DEF Requests, Request
    <3>2. write[t] = "draining"
      BY <2>2, <3>1 DEF QueuesAreSound
    <3> QED
      BY <1>1, <2>2, <2>4, <3>2 DEF GrantPermits
  <2> QED
    BY <2>3, <2>4
<1>2. CASE GrantLock
  <2>1. Head(w_queue) \in Tasks
    BY <1>2, TailOfQueue DEF GrantLock, QueuesAreSound
  <2> QED
    BY <1>2, <2>1 DEF GrantLock
<1>3. ASSUME NEW t \in Tasks, ReadStep(t) PROVE KindsAreKept'
  <2>1. UNCHANGED <<write, kind>>
    BY <1>3 DEF ReadStep, BeginRead, OpenRead, OpenReadFails, CloseRead,
                FinishRead, CancelRead
  <2> QED
    BY <2>1
<1>4. ASSUME NEW t \in Tasks, NEW k \in Kind, BeginWrite(t, k)
      PROVE  KindsAreKept'
  BY <1>4 DEF BeginWrite
<1>5. ASSUME NEW t \in Tasks, OpenWrite(t) \/ OpenWriteFails(t) \/ FinishWrite(t)
      PROVE  KindsAreKept'
  BY <1>5 DEF OpenWrite, OpenWriteFails, FinishWrite
<1>6. ASSUME NEW t \in Tasks,
             PutItem(t) \/ CommitBatch(t) \/ EndWrite(t) \/ AbortBatch(t)
      PROVE  KindsAreKept'
  BY <1>6 DEF PutItem, CommitBatch, EndWrite, AbortBatch, StartClosing
<1>7. ASSUME NEW t \in Tasks, CancelWrite(t) PROVE KindsAreKept'
  BY <1>7 DEF CancelWrite
<1>8. ASSUME NEW t \in Tasks, ResizeStep(t) PROVE KindsAreKept'
  BY <1>8 DEF ResizeStep, DrainReaders, Resize, ReleasePermits, CancelResize
<1>9. CASE UNCHANGED vars
  BY <1>9 DEF vars
<1> QED
  BY <1>1, <1>2, <1>3, <1>4, <1>5, <1>6, <1>7, <1>8, <1>9 DEF Next, WriteStep

\* The requests of different tasks, or for different purposes, differ.
LEMMA RequestsDiffer ==
    /\ \A s, t : Request(s, "read") # Request(t, "resize")
    /\ \A s, t : Request(s, "read") = Request(t, "read") => s = t
    /\ \A s, t : Request(s, "resize") = Request(t, "resize") => s = t
BY DEF Request

\* A task waits exactly while its request is in the queue.
LEMMA QueuesStep == HeedInv /\ [Next]_vars => QueuesAreSound'
<1> SUFFICES ASSUME HeedInv, [Next]_vars PROVE QueuesAreSound'
  OBVIOUS
<1> USE AsyncHeedAssumption DEF AsyncHeedAssumption, HeedInv, TypeOK, readVars,
        writeVars, dataVars, WriteTxnDropsFirst
<1>1. \A t \in Tasks : /\ Request(t, "read") \in Requests
                       /\ Request(t, "resize") \in Requests
  BY DEF Requests, Request
<1>2. CASE GrantPermits
  <2>1. /\ Head(r_queue) \in Requests
        /\ Head(r_queue) \in ToSet(r_queue)
        /\ IsInjective(r_queue')
        /\ ToSet(r_queue') = ToSet(r_queue) \ {Head(r_queue)}
    BY <1>2, TailOfQueue DEF GrantPermits, QueuesAreSound
  <2>2. PICK t \in Tasks : t = Head(r_queue).task /\
                           \/ Head(r_queue) = Request(t, "read")
                           \/ Head(r_queue) = Request(t, "resize")
    BY <2>1 DEF Requests, Request
  <2>3. UNCHANGED w_queue
    BY <1>2 DEF GrantPermits
  <2>4. CASE Head(r_queue) = Request(t, "read")
    <3>1. /\ read' = [read EXCEPT ![t] = "granted"]
          /\ UNCHANGED write
      BY <1>2, <2>2, <2>4 DEF GrantPermits, Request
    <3> QED
      BY <2>1, <2>3, <2>4, <3>1, RequestsDiffer DEF QueuesAreSound
  <2>5. CASE Head(r_queue) = Request(t, "resize")
    <3>1. /\ write' = [write EXCEPT ![t] = "resizing"]
          /\ UNCHANGED read
      BY <1>2, <2>2, <2>5 DEF GrantPermits, Request
    <3>2. write[t] = "draining"
      BY <2>1, <2>5 DEF QueuesAreSound
    <3> QED
      BY <2>1, <2>3, <2>5, <3>1, <3>2, RequestsDiffer DEF QueuesAreSound
  <2> QED
    BY <2>2, <2>4, <2>5
<1>3. CASE GrantLock
  <2>1. /\ Head(w_queue) \in Tasks
        /\ Head(w_queue) \in ToSet(w_queue)
        /\ IsInjective(w_queue')
        /\ ToSet(w_queue') = ToSet(w_queue) \ {Head(w_queue)}
    BY <1>3, TailOfQueue DEF GrantLock, QueuesAreSound
  <2> QED
    BY <1>3, <2>1 DEF GrantLock, QueuesAreSound
<1>4. ASSUME NEW t \in Tasks, BeginRead(t) PROVE QueuesAreSound'
  <2>1. Request(t, "read") \notin ToSet(r_queue)
    BY <1>4 DEF BeginRead, QueuesAreSound
  <2>2. /\ IsInjective(r_queue')
        /\ ToSet(r_queue') = ToSet(r_queue) \cup {Request(t, "read")}
    BY <1>1, <1>4, <2>1, AppendToQueue DEF BeginRead, QueuesAreSound
  <2> QED
    BY <1>4, <2>2, RequestsDiffer DEF BeginRead, QueuesAreSound
<1>5. ASSUME NEW t \in Tasks,
             OpenRead(t) \/ OpenReadFails(t) \/ CloseRead(t) \/ FinishRead(t)
      PROVE  QueuesAreSound'
  BY <1>5 DEF OpenRead, OpenReadFails, CloseRead, FinishRead, QueuesAreSound
<1>6. ASSUME NEW t \in Tasks, CancelRead(t) PROVE QueuesAreSound'
  <2>1. CASE read[t] = "granted"
    BY <1>6, <2>1 DEF CancelRead, QueuesAreSound
  <2>2. CASE read[t] = "queued"
    <3>1. /\ IsInjective(r_queue')
          /\ ToSet(r_queue') = ToSet(r_queue) \ {Request(t, "read")}
      BY <1>6, <2>2, RemoveFromQueue DEF CancelRead, QueuesAreSound
    <3> QED
      BY <1>6, <3>1, RequestsDiffer DEF CancelRead, QueuesAreSound
  <2> QED
    BY <1>6, <2>1, <2>2 DEF CancelRead
<1>7. ASSUME NEW t \in Tasks, NEW k \in Kind, BeginWrite(t, k)
      PROVE  QueuesAreSound'
  <2>1. t \notin ToSet(w_queue)
    BY <1>7 DEF BeginWrite, QueuesAreSound
  <2>2. /\ IsInjective(w_queue')
        /\ ToSet(w_queue') = ToSet(w_queue) \cup {t}
    BY <1>7, <2>1, AppendToQueue DEF BeginWrite, QueuesAreSound
  <2> QED
    BY <1>7, <2>2 DEF BeginWrite, QueuesAreSound
<1>8. ASSUME NEW t \in Tasks, OpenWrite(t) \/ OpenWriteFails(t) \/ FinishWrite(t)
      PROVE  QueuesAreSound'
  BY <1>8 DEF OpenWrite, OpenWriteFails, FinishWrite, QueuesAreSound
<1>9. ASSUME NEW t \in Tasks,
             PutItem(t) \/ CommitBatch(t) \/ EndWrite(t) \/ AbortBatch(t)
      PROVE  QueuesAreSound'
  BY <1>9 DEF PutItem, CommitBatch, EndWrite, AbortBatch, StartClosing,
              QueuesAreSound
<1>10. ASSUME NEW t \in Tasks, CancelWrite(t) PROVE QueuesAreSound'
  <2>1. CASE write[t] = "locked"
    BY <1>10, <2>1 DEF CancelWrite, QueuesAreSound
  <2>2. CASE write[t] = "queued"
    <3>1. /\ IsInjective(w_queue')
          /\ ToSet(w_queue') = ToSet(w_queue) \ {t}
      BY <1>10, <2>2, RemoveFromQueue DEF CancelWrite, QueuesAreSound
    <3> QED
      BY <1>10, <2>2, <3>1 DEF CancelWrite, QueuesAreSound
  <2> QED
    BY <1>10, <2>1, <2>2 DEF CancelWrite
<1>11. ASSUME NEW t \in Tasks, DrainReaders(t) PROVE QueuesAreSound'
  <2>1. Request(t, "resize") \notin ToSet(r_queue)
    BY <1>11 DEF DrainReaders, QueuesAreSound
  <2>2. /\ IsInjective(r_queue')
        /\ ToSet(r_queue') = ToSet(r_queue) \cup {Request(t, "resize")}
    BY <1>1, <1>11, <2>1, AppendToQueue DEF DrainReaders, QueuesAreSound
  <2> QED
    BY <1>11, <2>2, RequestsDiffer DEF DrainReaders, QueuesAreSound
<1>12. ASSUME NEW t \in Tasks, Resize(t) \/ ReleasePermits(t)
       PROVE  QueuesAreSound'
  BY <1>12 DEF Resize, ReleasePermits, QueuesAreSound
<1>13. ASSUME NEW t \in Tasks, CancelResize(t) PROVE QueuesAreSound'
  <2>1. CASE write[t] = "resizing"
    BY <1>13, <2>1 DEF CancelResize, QueuesAreSound
  <2>2. CASE write[t] = "draining"
    <3>1. /\ IsInjective(r_queue')
          /\ ToSet(r_queue') = ToSet(r_queue) \ {Request(t, "resize")}
      BY <1>13, <2>2, RemoveFromQueue DEF CancelResize, QueuesAreSound
    <3> QED
      BY <1>13, <2>2, <3>1, RequestsDiffer DEF CancelResize, QueuesAreSound
  <2> QED
    BY <1>13, <2>1, <2>2 DEF CancelResize
<1>14. CASE UNCHANGED vars
  BY <1>14 DEF vars, QueuesAreSound
<1> QED
  BY <1>2, <1>3, <1>4, <1>5, <1>6, <1>7, <1>8, <1>9, <1>10, <1>11, <1>12, <1>13,
     <1>14 DEF Next, ReadStep, WriteStep, ResizeStep

\* HeedInv is an invariant: the counts and queues of the gates agree with
\* where the tasks stand, however the calls interleave and futures are dropped.
THEOREM HeedInvariant == Spec => []HeedInv
<1>1. Init => HeedInv
  BY InitHeedInv
<1>2. HeedInv /\ [Next]_vars => HeedInv'
  BY PermitsStep, TypeStep, LockStep, KindsStep, QueuesStep DEF HeedInv
<1> QED
  BY <1>1, <1>2, PTL DEF Spec

-----------------------------------------------------------------------------
(* heed: its gates implement TransactionService.                           *)

\* LMDB has a write transaction of the holder of w_lock only.
LEMMA OneWriter ==
    LockIsExclusive => /\ \A t \in LmdbWriters : EngineWriter = t
                       /\ LmdbWriters = {} => EngineWriter = None
<1> SUFFICES ASSUME LockIsExclusive
             PROVE  /\ \A t \in LmdbWriters : EngineWriter = t
                    /\ LmdbWriters = {} => EngineWriter = None
  OBVIOUS
<1>1. \A s, t \in LmdbWriters : s = t
  BY DEF LockIsExclusive, HoldsLock, LmdbWriters
<1>2. ASSUME NEW t \in LmdbWriters PROVE EngineWriter = t
  <2>1. LmdbWriters = {t} /\ t \in Tasks
    BY <1>1 DEF LmdbWriters
  <2>2. \A x : x \in Tasks /\ x \in LmdbWriters <=> x = t
    BY <2>1
  <2>3. (CHOOSE x \in Tasks : x \in LmdbWriters) = t
    BY <2>2
  <2> QED
    BY <1>2, <2>3 DEF EngineWriter
<1> QED
  BY <1>2 DEF EngineWriter

\* A step after which LMDB has the same writers has the same engine writer.
LEMMA SameWriter ==
    ASSUME LmdbWriters' = LmdbWriters PROVE EngineWriter' = EngineWriter
  BY DEF EngineWriter

LEMMA HeedRefinementInit == Init => Promise!Init
<1> SUFFICES ASSUME Init PROVE Promise!Init
  OBVIOUS
<1>1. LmdbReaders = {} /\ LmdbWriters = {}
  BY DEF Init, LmdbReaders, LmdbWriters
<1>2. EngineWriter = None
  BY <1>1 DEF EngineWriter
<1> QED
  BY <1>1, <1>2 DEF Init, Promise!Init

\* A task that LMDB is about to give a reader slot finds one: it has a permit,
\* as has every task that is using a slot.
LEMMA ASlotIsFree ==
    ASSUME HeedInv, NEW t \in Tasks, read[t] = "granted"
    PROVE  Cardinality(LmdbReaders) < MaxReaders
<1> USE AsyncHeedAssumption DEF AsyncHeedAssumption, HeedInv
<1>1. t \in PermitHolders /\ t \notin LmdbReaders
  BY DEF PermitHolders, LmdbReaders
<1>2. LmdbReaders \in SUBSET PermitHolders
  BY DEF PermitHolders, LmdbReaders, ReadTxnDropsFirst
<1>3. /\ IsFiniteSet(PermitHolders)
      /\ r_permits + Cardinality(PermitHolders) = MaxReaders
      /\ Cardinality(PermitHolders) \in Nat \ {0}
  BY <1>1, PermitIsOut
<1>4. /\ IsFiniteSet(LmdbReaders)
      /\ Cardinality(LmdbReaders) <= Cardinality(PermitHolders)
      /\ Cardinality(LmdbReaders) # Cardinality(PermitHolders)
  BY <1>1, <1>2, <1>3, FS_Subset
<1>5. Cardinality(LmdbReaders) \in Nat
  BY <1>4, FS_CardinalityType
<1>6. r_permits \in 0 .. MaxReaders
  BY DEF TypeOK
<1> QED
  BY <1>3, <1>4, <1>5, <1>6

LEMMA HeedRefinementStep ==
    HeedInv /\ HeedInv' /\ [Next]_vars => [Promise!Next]_(Promise!vars)
<1> SUFFICES ASSUME HeedInv, HeedInv', [Next]_vars
             PROVE  Promise!Next \/ UNCHANGED Promise!vars
  OBVIOUS
<1> USE AsyncHeedAssumption DEF AsyncHeedAssumption, HeedInv, readVars,
        writeVars, dataVars, ReadTxnDropsFirst, WriteTxnDropsFirst
<1>1. /\ \A t \in LmdbWriters : EngineWriter = t
      /\ LmdbWriters = {} => EngineWriter = None
      /\ \A t \in LmdbWriters' : EngineWriter' = t
      /\ LmdbWriters' = {} => EngineWriter' = None
  <2>1. (LockIsExclusive => /\ \A t \in LmdbWriters : EngineWriter = t
                            /\ LmdbWriters = {} => EngineWriter = None)'
    BY OneWriter, PTL
  <2> QED
    BY OneWriter, <2>1
<1>2. ASSUME LmdbReaders' = LmdbReaders, LmdbWriters' = LmdbWriters,
             UNCHANGED <<store, map_size>>
      PROVE  UNCHANGED Promise!vars
  BY <1>2, SameWriter DEF Promise!vars
<1>3. CASE GrantPermits
  <2>1. PICK t \in Tasks : t = Head(r_queue).task
    <3>1. Head(r_queue) \in Requests
      BY <1>3, TailOfQueue DEF GrantPermits, QueuesAreSound, TypeOK
    <3> QED
      BY <3>1 DEF Requests
  <2>2. Head(r_queue) \in ToSet(r_queue) /\ Head(r_queue) \in Requests
    BY <1>3, TailOfQueue DEF GrantPermits, QueuesAreSound, TypeOK
  <2>3. LmdbReaders' = LmdbReaders /\ LmdbWriters' = LmdbWriters
    <3>1. CASE Head(r_queue).for = "read"
      <4>1. Head(r_queue) = Request(t, "read")
        BY <2>1, <2>2, <3>1 DEF Requests, Request
      <4>2. read[t] = "queued" /\ UNCHANGED write
        BY <1>3, <2>2, <3>1, <4>1 DEF GrantPermits, QueuesAreSound
      <4>3. read' = [read EXCEPT ![t] = "granted"]
        BY <1>3, <2>1, <3>1 DEF GrantPermits
      <4> QED
        BY <1>3, <4>2, <4>3 DEF GrantPermits, LmdbReaders, LmdbWriters, TypeOK
    <3>2. CASE Head(r_queue).for # "read"
      <4>1. Head(r_queue) = Request(t, "resize")
        BY <2>1, <2>2, <3>2 DEF Requests, Request
      <4>2. write[t] = "draining" /\ UNCHANGED read
        BY <1>3, <2>2, <3>2, <4>1 DEF GrantPermits, QueuesAreSound
      <4>3. write' = [write EXCEPT ![t] = "resizing"]
        BY <1>3, <2>1, <3>2 DEF GrantPermits
      <4> QED
        BY <1>3, <4>2, <4>3 DEF GrantPermits, LmdbReaders, LmdbWriters, TypeOK
    <3> QED
      BY <3>1, <3>2
  <2> QED
    BY <1>2, <1>3, <2>3 DEF GrantPermits
<1>4. CASE GrantLock
  <2>1. Head(w_queue) \in Tasks /\ write[Head(w_queue)] = "queued"
    BY <1>4, TailOfQueue DEF GrantLock, QueuesAreSound, TypeOK
  <2>2. LmdbReaders' = LmdbReaders /\ LmdbWriters' = LmdbWriters
    BY <1>4, <2>1 DEF GrantLock, LmdbReaders, LmdbWriters, TypeOK
  <2> QED
    BY <1>2, <1>4, <2>2 DEF GrantLock
<1>5. ASSUME NEW t \in Tasks, OpenRead(t) PROVE Promise!Next
  <2>1. t \notin LmdbReaders /\ LmdbReaders' = LmdbReaders \cup {t}
    BY <1>5 DEF OpenRead, LmdbReaders, TypeOK
  <2>2. LmdbWriters' = LmdbWriters
    BY <1>5 DEF OpenRead, LmdbWriters
  <2>3. EngineWriter' = EngineWriter
    BY <2>2, SameWriter
  <2>4. Cardinality(LmdbReaders) < MaxReaders
    BY <1>5, ASlotIsFree DEF OpenRead
  <2>5. UNCHANGED <<store, map_size>>
    BY <1>5 DEF OpenRead
  <2>6. Promise!BeginRead(t)
    BY <2>1, <2>3, <2>4, <2>5
       DEF Promise!BeginRead, Promise!Cardinality, Cardinality
  <2> QED
    BY <2>6 DEF Promise!Next
<1>6. ASSUME NEW t \in Tasks, CloseRead(t) PROVE Promise!Next
  <2>1. t \in LmdbReaders /\ LmdbReaders' = LmdbReaders \ {t}
    BY <1>6 DEF CloseRead, LmdbReaders, TypeOK
  <2>2. LmdbWriters' = LmdbWriters
    BY <1>6 DEF CloseRead, LmdbWriters
  <2>3. Promise!EndRead(t)
    BY <1>6, <2>1, <2>2, SameWriter DEF CloseRead, Promise!EndRead
  <2> QED
    BY <2>3 DEF Promise!Next
<1>7. ASSUME NEW t \in Tasks,
             \/ BeginRead(t) \/ OpenReadFails(t) \/ FinishRead(t)
             \/ CancelRead(t)
      PROVE  UNCHANGED Promise!vars
  <2>1. LmdbReaders' = LmdbReaders
    BY <1>7 DEF BeginRead, OpenReadFails, FinishRead, CancelRead, LmdbReaders,
                TypeOK
  <2>2. UNCHANGED <<write, kind, store, map_size>>
    BY <1>7 DEF BeginRead, OpenReadFails, FinishRead, CancelRead
  <2> QED
    BY <1>2, <2>1, <2>2 DEF LmdbWriters
<1>8. ASSUME NEW t \in Tasks, NEW k \in Kind, BeginWrite(t, k)
      PROVE  UNCHANGED Promise!vars
  <2>1. LmdbWriters' = LmdbWriters /\ UNCHANGED <<read, store, map_size>>
    BY <1>8 DEF BeginWrite, LmdbWriters, TypeOK
  <2> QED
    BY <1>2, <2>1 DEF LmdbReaders
<1>9. ASSUME NEW t \in Tasks, OpenWrite(t) PROVE Promise!Next
  <2>1. \A s \in Tasks : HoldsLock(s) => s = t
    BY <1>9 DEF OpenWrite, LockIsExclusive, HoldsLock
  <2>2. LmdbWriters = {}
    BY <1>9, <2>1 DEF OpenWrite, LmdbWriters, HoldsLock
  <2>3. t \in LmdbWriters'
    BY <1>9 DEF OpenWrite, LmdbWriters, TypeOK
  <2>4. Promise!BeginWrite(t)
    BY <1>1, <1>9, <2>2, <2>3 DEF OpenWrite, Promise!BeginWrite, LmdbReaders
  <2> QED
    BY <2>4 DEF Promise!Next
<1>10. ASSUME NEW t \in Tasks,
              \/ OpenWriteFails(t) \/ FinishWrite(t) \/ PutItem(t)
              \/ CancelWrite(t)
       PROVE  UNCHANGED Promise!vars
  <2>1. UNCHANGED <<read, kind, store, map_size>>
    BY <1>10 DEF OpenWriteFails, FinishWrite, PutItem, CancelWrite
  <2>2. LmdbWriters' = LmdbWriters
    BY <1>10 DEF OpenWriteFails, FinishWrite, PutItem, CancelWrite, LmdbWriters,
                 TypeOK
  <2> QED
    BY <1>2, <2>1, <2>2 DEF LmdbReaders
<1>11. ASSUME NEW t \in Tasks, CommitBatch(t) \/ EndWrite(t) \/ AbortBatch(t)
       PROVE  Promise!Next
  <2>1. \A s \in Tasks : HoldsLock(s) => s = t
    BY <1>11 DEF CommitBatch, EndWrite, AbortBatch, LockIsExclusive, HoldsLock
  <2>2. t \in LmdbWriters
    BY <1>11 DEF CommitBatch, EndWrite, AbortBatch, LmdbWriters
  <2>3. LmdbWriters' = {}
    <3>1. \A s \in Tasks : s # t => s \notin LmdbWriters
      BY <2>1 DEF LmdbWriters, HoldsLock
    <3>2. write' = [write EXCEPT ![t] = "closing"] /\ UNCHANGED kind
      BY <1>11 DEF CommitBatch, EndWrite, AbortBatch, StartClosing
    <3> QED
      BY <3>1, <3>2 DEF LmdbWriters, TypeOK
  <2>4. UNCHANGED <<read, map_size>>
    BY <1>11 DEF CommitBatch, EndWrite, AbortBatch
  <2>5. store' \in {store, [k \in Keys |-> t]}
    <3>1. CASE CommitBatch(t)
      <4>1. /\ put[t] = BatchSize
            /\ store' = [k \in Keys |-> IF k <= put[t] THEN t ELSE store[k]]
        BY <3>1 DEF CommitBatch, InputIsOver
      <4>2. \A k \in Keys : k <= BatchSize
        BY DEF Keys
      <4> QED
        BY <4>1, <4>2
    <3> QED
      BY <1>11, <3>1 DEF EndWrite, AbortBatch
  <2>6. Promise!EndWrite(t)
    BY <1>1, <2>2, <2>3, <2>4, <2>5 DEF Promise!EndWrite, LmdbReaders
  <2> QED
    BY <2>6 DEF Promise!Next
<1>12. ASSUME NEW t \in Tasks,
              DrainReaders(t) \/ ReleasePermits(t) \/ CancelResize(t)
       PROVE  UNCHANGED Promise!vars
  <2>1. UNCHANGED <<read, kind, store, map_size>>
    BY <1>12 DEF DrainReaders, ReleasePermits, CancelResize
  <2>2. LmdbWriters' = LmdbWriters
    BY <1>12 DEF DrainReaders, ReleasePermits, CancelResize, LmdbWriters, TypeOK
  <2> QED
    BY <1>2, <2>1, <2>2 DEF LmdbReaders
<1>13. ASSUME NEW t \in Tasks, Resize(t)
       PROVE  Promise!Next \/ UNCHANGED Promise!vars
  <2>1. \A s \in Tasks : HoldsLock(s) => s = t
    BY <1>13 DEF Resize, LockIsExclusive, HoldsLock
  <2>2. LmdbWriters = {} /\ LmdbWriters' = {}
    <3>1. \A s \in Tasks : s # t => s \notin LmdbWriters
      BY <2>1 DEF LmdbWriters, HoldsLock
    <3> QED
      BY <1>13, <3>1 DEF Resize, LmdbWriters, TypeOK
  <2>3. LmdbReaders = {} /\ LmdbReaders' = {}
    <3>1. PermitHolders = {} /\ read' = read
      BY <1>13 DEF PermitsAreCounted, HoldsAll, Resize
    <3> QED
      BY <3>1 DEF PermitHolders, LmdbReaders
  <2>4. EngineWriter = None /\ EngineWriter' = None
    BY <1>1, <2>2
  <2>5. CASE map_size' = map_size
    BY <1>13, <2>3, <2>4, <2>5 DEF Resize, Promise!vars
  <2>6. CASE map_size' = 1 - map_size
    BY <1>13, <2>3, <2>4, <2>6 DEF Resize, Promise!Resize, Promise!Next
  <2> QED
    BY <1>13, <2>5, <2>6 DEF Resize
<1>14. CASE UNCHANGED vars
  <2>1. UNCHANGED <<read, write, kind, store, map_size>>
    BY <1>14 DEF vars
  <2> QED
    BY <1>2, <2>1 DEF LmdbReaders, LmdbWriters
<1> QED
  BY <1>3, <1>4, <1>5, <1>6, <1>7, <1>8, <1>9, <1>10, <1>11, <1>12, <1>13, <1>14
     DEF Next, ReadStep, WriteStep, ResizeStep

\* AsyncHeed implements TransactionService: LMDB is never asked for a reader
\* beyond its slots, a second writer, or a resize beside a transaction, and a
\* batch is stored as a whole, whichever calls fail and futures are dropped.
THEOREM HeedImplementsTransactionService == Spec => ImplementsTransactionService
<1>1. HeedInv /\ HeedInv' /\ [Next]_vars => [Promise!Next]_(Promise!vars)
  BY HeedRefinementStep
<1> QED
  BY HeedRefinementInit, <1>1, HeedInvariant, PTL
     DEF Spec, ImplementsTransactionService, Promise!Spec

-----------------------------------------------------------------------------
(* redb: its transactions keep what those of heed keep, and a compaction   *)
(* never waits.                                                            *)

\* A compaction is alone: &mut lets no transaction and no waiting future live.
CompactionIsAlone == compaction # "none" => ExclusiveBorrow

\* The inductive invariant: the gates of heed, and a compaction that is alone.
ReDbInv == HeedInv /\ ReDbTypeOK /\ CompactionIsAlone

\* The steps of the transactions are among those of the heed wrapper.
LEMMA TransactionStepIsHeedStep == TransactionStep => Next
BY DEF TransactionStep, begin_read, ReDbReadTransaction, begin_write,
       ReDbWriteTransaction, ingest_stream, Cancelled, Next, ReadStep, WriteStep, Kind

\* A step of the wrapper is, for the gates, one of heed's or none.
LEMMA ReDbStepIsHeedStep == [ReDbNext]_redbVars => [Next]_vars
<1> SUFFICES ASSUME [ReDbNext]_redbVars PROVE [Next]_vars
  OBVIOUS
<1>1. CASE compaction = "none" /\ TransactionStep /\ UNCHANGED compaction
  BY <1>1, TransactionStepIsHeedStep
<1>2. CASE CompactStep
  BY <1>2 DEF CompactStep, BeginCompact, LockForCompact, DrainForCompact, EndCompact
<1>3. CASE UNCHANGED redbVars
  BY <1>3 DEF redbVars
<1> QED
  BY <1>1, <1>2, <1>3 DEF ReDbNext

\* Those keep the invariant of the gates ...
LEMMA HeedInvStep == HeedInv /\ [Next]_vars => HeedInv'
BY PermitsStep, TypeStep, LockStep, KindsStep, QueuesStep DEF HeedInv

\* ... and no step lets a compaction and a task meet.
LEMMA ReDbInvStep == ReDbInv /\ [ReDbNext]_redbVars => ReDbInv'
<1> SUFFICES ASSUME ReDbInv, [ReDbNext]_redbVars PROVE ReDbInv'
  OBVIOUS
<1>1. HeedInv'
  BY HeedInvStep, ReDbStepIsHeedStep DEF ReDbInv
<1>2. ReDbTypeOK' /\ CompactionIsAlone'
  <2> USE DEF ReDbInv, ReDbTypeOK, CompactionIsAlone, ExclusiveBorrow
  <2>1. CASE compaction = "none" /\ TransactionStep /\ UNCHANGED compaction
    BY <2>1
  <2>2. CASE CompactStep
    BY <2>2 DEF CompactStep, BeginCompact, LockForCompact, DrainForCompact, EndCompact,
                vars, readVars, writeVars
  <2>3. CASE UNCHANGED redbVars
    BY <2>3 DEF redbVars, vars, readVars, writeVars
  <2> QED
    BY <2>1, <2>2, <2>3 DEF ReDbNext
<1> QED
  BY <1>1, <1>2 DEF ReDbInv

\* The gates, the queues and the compaction are sound in every reachable state.
THEOREM ReDbInvariant == ReDbSpec => []ReDbInv
<1>1. ReDbInit => ReDbInv
  BY InitHeedInv DEF ReDbInit, ReDbInv, ReDbTypeOK, CompactionIsAlone
<1> QED
  BY <1>1, ReDbInvStep, PTL DEF ReDbSpec

\* The lock and every permit are there when a compaction asks for them, for any
\* number of tasks and permits: none was lost on the way of a transaction that
\* failed, was dropped or was cancelled (async_redb.rs:82).
THEOREM CompactionTheorem == ReDbSpec => []CompactionNeverWaits
<1>1. ReDbInv => CompactionNeverWaits
  <2> SUFFICES ASSUME ReDbInv, compaction # "none"
               PROVE  /\ w_holder = None /\ w_queue = <<>>
                      /\ r_permits = MaxReaders /\ r_queue = <<>>
    BY DEF ReDbInv, CompactionNeverWaits
  <2> USE DEF ReDbInv, HeedInv, TypeOK
  <2>1. \A t \in Tasks : read[t] = "none" /\ write[t] = "none"
    BY DEF CompactionIsAlone, ExclusiveBorrow
  <2>2. w_holder = None
    BY <2>1 DEF LockIsExclusive, HoldsLock
  <2>3. w_queue = <<>>
    <3> SUFFICES ASSUME w_queue # <<>> PROVE FALSE
      OBVIOUS
    <3>1. Head(w_queue) \in Tasks /\ Head(w_queue) \in ToSet(w_queue)
      BY TailOfQueue DEF QueuesAreSound
    <3> QED
      BY <3>1, <2>1 DEF QueuesAreSound
  <2>4. r_queue = <<>>
    <3> SUFFICES ASSUME r_queue # <<>> PROVE FALSE
      OBVIOUS
    <3>1. Head(r_queue) \in Requests /\ Head(r_queue) \in ToSet(r_queue)
      BY TailOfQueue DEF QueuesAreSound
    <3>2. PICK t \in Tasks : \/ Head(r_queue) = Request(t, "read")
                             \/ Head(r_queue) = Request(t, "resize")
      BY <3>1 DEF Requests, Request
    <3> QED
      BY <3>1, <3>2, <2>1 DEF QueuesAreSound
  <2>5. r_permits = MaxReaders
    <3>1. PermitHolders = {} /\ \A t \in Tasks : ~HoldsAll(t)
      BY <2>1 DEF PermitHolders, HoldsAll
    <3> QED
      BY <3>1, FS_EmptySet, AsyncHeedAssumption DEF PermitsAreCounted, AsyncHeedAssumption
  <2> QED
    BY <2>2, <2>3, <2>4, <2>5
<1> QED
  BY <1>1, ReDbInvariant, PTL

\* The wrapper of redb keeps the promise that the wrapper of heed keeps, its batches
\* stored whole or not at all.
THEOREM ReDbImplementsTransactionService == ReDbSpec => ImplementsTransactionService
<1>1. ReDbInv /\ ReDbInv' /\ [ReDbNext]_redbVars => [Promise!Next]_(Promise!vars)
  BY HeedRefinementStep, ReDbStepIsHeedStep DEF ReDbInv
<1>2. ReDbInit => Promise!Init
  BY HeedRefinementInit DEF ReDbInit
<1> QED
  BY <1>1, <1>2, ReDbInvariant, PTL DEF ReDbSpec, ImplementsTransactionService, Promise!Spec

-----------------------------------------------------------------------------
(* SQLite: the pool and the WAL are sound, and a maintenance that ends has *)
(* reclaimed the WAL.  The inductive invariant.                            *)

\* What is left of an operation does not end with the planner's statistics:
\* the WAL that a VACUUM filled is yet to be truncated.
EndsWell(statements) ==
    statements # <<>> => statements[Len(statements)] # "optimize"

JobsEndWell == \A t \in Callers : EndsWell(job[t])

SqliteIInv == SqliteInv /\ JobsEndWell

LEMMA JoinedStatements ==
    ASSUME NEW p \in Seq(Statements), NEW q \in Seq(Statements), q # <<>>, EndsWell(q)
    PROVE  p \o q \in Seq(Statements) \ {<<>>} /\ EndsWell(p \o q)
<1>1. /\ p \o q \in Seq(Statements) /\ Len(p \o q) = Len(p) + Len(q)
      /\ (p \o q)[Len(p) + Len(q)] = q[Len(q)]
  BY ConcatProperties
<1> QED
  BY <1>1 DEF EndsWell

LEMMA OperationsEndWell ==
    \A operation \in Operations : /\ operation \in Seq(Statements) \ {<<>>}
                                  /\ EndsWell(operation)
<1> USE DEF Statements
<1>1. /\ <<"passive">> \in Seq(Statements) /\ <<"ingest">> \in Seq(Statements)
      /\ EndsWell(<<"passive">>) /\ EndsWell(<<"ingest">>)
  BY DEF EndsWell
<1>2. /\ perform_daily_data_maintenance \in Seq(Statements) \ {<<>>}
      /\ EndsWell(perform_daily_data_maintenance)
  <2>1. <<"truncate">> \in Seq(Statements) \ {<<>>} /\ EndsWell(<<"truncate">>)
    BY DEF EndsWell
  <2> QED
    BY <1>1, <2>1, JoinedStatements
       DEF perform_daily_data_maintenance, passive_synchronize_wal
<1>3. /\ perform_weekly_data_maintenance \in Seq(Statements) \ {<<>>}
      /\ EndsWell(perform_weekly_data_maintenance)
  <2>1. /\ <<"vacuum", "optimize", "truncate">> \in Seq(Statements) \ {<<>>}
        /\ EndsWell(<<"vacuum", "optimize", "truncate">>)
    BY DEF EndsWell
  <2> QED
    BY <1>2, <2>1, JoinedStatements DEF perform_weekly_data_maintenance
<1>4. <<"passive">> # <<>> /\ <<"ingest">> # <<>>
  OBVIOUS
<1> QED
  BY <1>1, <1>2, <1>3, <1>4, Zenon DEF Operations, passive_synchronize_wal

LEMMA RestsEndWell ==
    ASSUME NEW q \in Seq(Statements), q # <<>>, EndsWell(q)
    PROVE  Tail(q) \in Seq(Statements) /\ EndsWell(Tail(q))
  BY DEF EndsWell

\* To give the connection back leaves the pool sound.
LEMMA GoesOnWithIsSound ==
    ASSUME SqliteTypeOK, PoolIsSound, JobsEndWell,
           NEW t \in Callers, connection = t,
           NEW rest \in Seq(Statements), EndsWell(rest), GoesOnWith(t, rest)
    PROVE  /\ job' \in [Callers -> Seq(Statements)] /\ pool' \in Seq(Callers)
           /\ connection' \in Callers \cup {NoOne} /\ closed' \in BOOLEAN
           /\ inserted' \in [Callers -> 0 .. RowCount]
           /\ PoolIsSound' /\ JobsEndWell'
<1> USE SqliteAssumption
<1> USE DEF SqliteAssumption, SqliteTypeOK
<1>1. connection' = NoOne /\ NoOne \notin Callers
  BY DEF GoesOnWith
<1>2. /\ \A s \in Callers : job'[s] = IF s = t THEN rest ELSE job[s]
      /\ job' \in [Callers -> Seq(Statements)]
  BY DEF GoesOnWith
<1>3. /\ \A s \in Callers : inserted'[s] = IF s = t THEN 0 ELSE inserted[s]
      /\ inserted' \in [Callers -> 0 .. RowCount]
  BY DEF GoesOnWith
<1>4. \A s \in Callers : inserted'[s] = 0
  BY <1>3 DEF PoolIsSound
<1>5. /\ pool' \in Seq(Callers) /\ IsInjective(pool')
      /\ ToSet(pool') = IF rest = <<>> THEN ToSet(pool) ELSE ToSet(pool) \cup {t}
  <2>1. pool' = IF rest = <<>> THEN pool ELSE Append(pool, t)
    BY DEF GoesOnWith
  <2>2. pool \in Seq(Callers) /\ IsInjective(pool) /\ t \notin ToSet(pool)
    BY DEF PoolIsSound
  <2> QED
    BY <2>1, <2>2, AppendToQueue
<1>6. PoolIsSound'
  BY <1>1, <1>2, <1>4, <1>5 DEF PoolIsSound
<1> QED
  BY <1>1, <1>2, <1>3, <1>5, <1>6 DEF GoesOnWith, JobsEndWell

LEMMA SqliteInitIsSound == SqliteInit => SqliteIInv
<1> USE SqliteAssumption
<1> SUFFICES ASSUME SqliteInit PROVE SqliteIInv
  OBVIOUS
<1> USE DEF SqliteAssumption, SqliteInit
<1>1. SqliteTypeOK
  <2>1. job \in [Callers -> Seq(Statements)] /\ pool \in Seq(Callers)
    OBVIOUS
  <2>2. content \in Content /\ file \in Content
    BY DEF Content
  <2>3. inserted \in [Callers -> 0 .. RowCount]
    OBVIOUS
  <2> QED
    BY <2>1, <2>2, <2>3 DEF SqliteTypeOK
<1>2. PoolIsSound
  BY DEF PoolIsSound, IsInjective, ToSet
<1> QED
  BY <1>1, <1>2 DEF SqliteIInv, SqliteInv, WalHoldsTheDifference, JobsEndWell, EndsWell

LEMMA SqliteStep == SqliteIInv /\ [SqliteNext]_sqliteVars => SqliteIInv'
<1> USE SqliteAssumption
<1> SUFFICES ASSUME SqliteIInv, [SqliteNext]_sqliteVars PROVE SqliteIInv'
  OBVIOUS
<1>0. SqliteTypeOK /\ PoolIsSound /\ WalHoldsTheDifference /\ JobsEndWell
  BY DEF SqliteIInv, SqliteInv
<1> SUFFICES SqliteTypeOK' /\ PoolIsSound' /\ WalHoldsTheDifference' /\ JobsEndWell'
  BY DEF SqliteIInv, SqliteInv
<1> USE DEF WalHoldsTheDifference
<1>1. ASSUME NEW t \in Callers, NEW operation \in Operations, Call(t, operation)
      PROVE  SqliteTypeOK' /\ PoolIsSound' /\ WalHoldsTheDifference' /\ JobsEndWell'
  <2>1. /\ operation \in Seq(Statements) /\ operation # <<>> /\ EndsWell(operation)
        /\ \A s \in Callers : job'[s] = IF s = t THEN operation ELSE job[s]
        /\ job' \in [Callers -> Seq(Statements)]
    BY <1>0, <1>1, OperationsEndWell DEF Call, SqliteTypeOK
  <2>2. t \notin ToSet(pool) /\ connection # t /\ inserted[t] = 0
    BY <1>0, <1>1 DEF Call, PoolIsSound, SqliteTypeOK
  <2>3. /\ pool' \in Seq(Callers) /\ IsInjective(pool')
        /\ ToSet(pool') = ToSet(pool) \cup {t}
    BY <1>0, <1>1, <2>2, AppendToQueue DEF Call, PoolIsSound, SqliteTypeOK
  <2>4. UNCHANGED <<connection, closed, inserted, content, file, wal>>
    BY <1>1 DEF Call
  <2>5. PoolIsSound'
    BY <1>0, <2>1, <2>2, <2>3, <2>4 DEF PoolIsSound, SqliteTypeOK
  <2> QED
    BY <1>0, <2>1, <2>3, <2>4, <2>5 DEF SqliteTypeOK, JobsEndWell
<1>2. CASE Acquire
  <2>1. /\ Head(pool) \in Callers /\ Head(pool) \in ToSet(pool)
        /\ pool' \in Seq(Callers) /\ IsInjective(pool')
        /\ ToSet(pool') = ToSet(pool) \ {Head(pool)}
    BY <1>0, <1>2, TailOfQueue DEF Acquire, PoolIsSound, SqliteTypeOK
  <2>2. /\ connection = NoOne /\ connection' = Head(pool)
        /\ UNCHANGED <<job, closed, inserted, content, file, wal>>
    BY <1>2 DEF Acquire, ConnectionIsFree
  <2>3. NoOne \notin Callers
    BY DEF SqliteAssumption
  <2>4. PoolIsSound'
    BY <1>0, <2>1, <2>2, <2>3 DEF PoolIsSound, SqliteTypeOK
  <2> QED
    BY <1>0, <2>1, <2>2, <2>4 DEF SqliteTypeOK, JobsEndWell
<1>3. ASSUME NEW t \in Callers, AcquireFails(t)
      PROVE  SqliteTypeOK' /\ PoolIsSound' /\ WalHoldsTheDifference' /\ JobsEndWell'
  <2>1. PICK i \in 1 .. Len(pool) : pool[i] = t /\ pool' = RemoveAt(pool, i)
    BY <1>0, <1>3 DEF AcquireFails, SqliteTypeOK
  <2>2. /\ pool' \in Seq(Callers) /\ IsInjective(pool')
        /\ ToSet(pool') = ToSet(pool) \ {t} /\ t \in ToSet(pool)
    <3>1. t \in ToSet(pool)
      BY <1>0, <2>1 DEF ToSet, SqliteTypeOK
    <3> QED
      BY <1>0, <2>1, <3>1, RemoveFromQueue DEF PoolIsSound, SqliteTypeOK
  <2>3. /\ \A s \in Callers : job'[s] = IF s = t THEN <<>> ELSE job[s]
        /\ job' \in [Callers -> Seq(Statements)]
        /\ UNCHANGED <<connection, closed, inserted, content, file, wal>>
    BY <1>0, <1>3 DEF AcquireFails, SqliteTypeOK
  <2>4. PoolIsSound'
    BY <1>0, <2>2, <2>3 DEF PoolIsSound, SqliteTypeOK
  <2> QED
    BY <1>0, <2>2, <2>3, <2>4 DEF SqliteTypeOK, JobsEndWell, EndsWell
<1>4. ASSUME NEW t \in Callers, connection = t,
             NEW rest \in {<<>>, Tail(job[t])}, GoesOnWith(t, rest),
             content' \in Content, file' \in Content, wal' \in {"empty", "live", "copied"},
             file' # content' => wal' = "live"
      PROVE  SqliteTypeOK' /\ PoolIsSound' /\ WalHoldsTheDifference' /\ JobsEndWell'
  <2>1. job[t] \in Seq(Statements) /\ job[t] # <<>> /\ EndsWell(job[t])
    BY <1>0, <1>4 DEF PoolIsSound, SqliteTypeOK, JobsEndWell
  <2>2. CASE rest = <<>>
    <3>1. rest \in Seq(Statements) /\ EndsWell(rest)
      BY <2>2 DEF EndsWell
    <3> QED
      BY <1>0, <1>4, <3>1, GoesOnWithIsSound DEF SqliteTypeOK
  <2>3. CASE rest = Tail(job[t])
    <3>1. rest \in Seq(Statements) /\ EndsWell(rest)
      BY <2>1, <2>3, RestsEndWell
    <3> QED
      BY <1>0, <1>4, <3>1, GoesOnWithIsSound DEF SqliteTypeOK
  <2> QED
    BY <1>4, <2>2, <2>3
<1>5. ASSUME NEW t \in Callers, Checkpoint(t) \/ Vacuum(t) \/ Optimize(t) \/ StatementFails(t)
      PROVE  SqliteTypeOK' /\ PoolIsSound' /\ WalHoldsTheDifference' /\ JobsEndWell'
  <2>1. connection = t /\ content' = content
    BY <1>5 DEF Checkpoint, Vacuum, Optimize, StatementFails, Executes
  <2>2. \E rest \in {<<>>, Tail(job[t])} : GoesOnWith(t, rest)
    BY <1>5 DEF Checkpoint, Vacuum, Optimize, StatementFails
  <2>3. /\ file' \in Content /\ wal' \in {"empty", "live", "copied"}
        /\ file' # content' => wal' = "live"
    BY <1>0, <1>5 DEF Checkpoint, Vacuum, Optimize, StatementFails, SqliteTypeOK
  <2> QED
    BY <1>0, <1>4, <2>1, <2>2, <2>3 DEF SqliteTypeOK
<1>6. ASSUME NEW t \in Callers, InsertRow(t)
      PROVE  SqliteTypeOK' /\ PoolIsSound' /\ WalHoldsTheDifference' /\ JobsEndWell'
  <2>1. /\ \A s \in Callers : inserted'[s] = IF s = t THEN inserted[t] + 1 ELSE inserted[s]
        /\ inserted' \in [Callers -> 0 .. RowCount]
    BY <1>0, <1>6 DEF InsertRow, SqliteTypeOK, SqliteAssumption
  <2>2. /\ connection = t /\ Head(job[t]) = "ingest"
        /\ UNCHANGED <<job, pool, connection, closed, content, file, wal>>
    BY <1>6 DEF InsertRow, Executes, taskVars
  <2> QED
    BY <1>0, <2>1, <2>2 DEF SqliteTypeOK, PoolIsSound, JobsEndWell
<1>7. ASSUME NEW t \in Callers, CommitRows(t)
      PROVE  SqliteTypeOK' /\ PoolIsSound' /\ WalHoldsTheDifference' /\ JobsEndWell'
  <2>1. connection = t /\ GoesOnWith(t, <<>>)
    BY <1>7 DEF CommitRows, Executes
  <2>2. content' \in Content
    BY <1>0, <1>7 DEF CommitRows, SqliteTypeOK, Content
  <2>3. /\ file' \in Content /\ wal' \in {"empty", "live", "copied"}
        /\ file' # content' => wal' = "live"
    BY <1>0, <1>7, <2>2 DEF CommitRows, SqliteTypeOK
  <2> QED
    BY <1>4, <2>1, <2>2, <2>3
<1>8. CASE CloseDb
  BY <1>0, <1>8 DEF CloseDb, SqliteTypeOK, PoolIsSound, JobsEndWell
<1>9. CASE ConnectionCloses
  BY <1>0, <1>9 DEF ConnectionCloses, taskVars, SqliteTypeOK, PoolIsSound, JobsEndWell
<1>10. CASE Restart
  <2>1. /\ \A t \in Callers : job'[t] = <<>> /\ inserted'[t] = 0
        /\ job' \in [Callers -> Seq(Statements)] /\ inserted' \in [Callers -> 0 .. RowCount]
    BY <1>10 DEF Restart, SqliteAssumption
  <2>2. pool' = <<>> /\ connection' = NoOne /\ closed' = FALSE /\ UNCHANGED <<content, file, wal>>
    BY <1>10 DEF Restart
  <2>3. ToSet(pool') = {} /\ IsInjective(pool') /\ NoOne \notin Callers
    BY <2>2 DEF ToSet, IsInjective, SqliteAssumption
  <2> QED
    <3>1. SqliteTypeOK'
      <4>1. pool' \in Seq(Callers) /\ connection' \in Callers \cup {NoOne} /\ closed' \in BOOLEAN
        BY <2>2, EmptySeq
      <4>2. {content', file'} \subseteq Content /\ wal' \in {"empty", "live", "copied"}
        BY <1>0, <2>2 DEF SqliteTypeOK
      <4> QED
        BY <2>1, <4>1, <4>2 DEF SqliteTypeOK
    <3>2. PoolIsSound'
      BY <2>1, <2>2, <2>3 DEF PoolIsSound
    <3>3. JobsEndWell'
      BY <2>1 DEF JobsEndWell, EndsWell
    <3> QED
      BY <1>0, <2>2, <3>1, <3>2, <3>3
<1>11. CASE UNCHANGED sqliteVars
  BY <1>0, <1>11 DEF sqliteVars, taskVars, SqliteTypeOK, PoolIsSound, JobsEndWell
<1> QED
  BY <1>1, <1>2, <1>3, <1>5, <1>6, <1>7, <1>8, <1>9, <1>10, <1>11 DEF SqliteNext, TaskStep

\* The pool hands its connection to one task at a time, the rows of a transaction
\* are those of the task that has it, and whatever the main file lacks is in the
\* WAL, wherever the process ends.
THEOREM SqliteInvariant ==
    SqliteSpec => []SqliteInv
<1>1. SqliteIInv => SqliteInv
  BY DEF SqliteIInv
<1> QED
  BY SqliteInitIsSound, SqliteStep, <1>1, PTL DEF SqliteSpec

LEMMA SqliteStronger == SqliteSpec => []SqliteIInv
  BY SqliteInitIsSound, SqliteStep, PTL DEF SqliteSpec

-----------------------------------------------------------------------------
(* SQLite: the maintenance.                                                *)

\* The last statement of a maintenance is a checkpoint that truncates the WAL.
LEMMA LastStatementTruncates == SqliteIInv => MaintenanceStep
<1> SUFFICES ASSUME SqliteIInv, NEW t \in Callers, EndsMaintenance(t)
             PROVE  file' = content' /\ wal' = "empty"
  BY DEF MaintenanceStep
<1>1. job[t] \in Seq(Statements) /\ Len(job[t]) = 1 /\ EndsWell(job[t])
  BY DEF EndsMaintenance, SqliteIInv, SqliteInv, SqliteTypeOK, JobsEndWell
<1>2. Head(job[t]) # "optimize"
  BY <1>1 DEF EndsWell
<1>3. Head(job[t]) = "truncate"
  BY <1>2 DEF EndsMaintenance
<1> QED
  BY <1>3 DEF EndsMaintenance, Checkpoint, Optimize, Executes

\* A maintenance that runs to its end leaves all of the content in the main file
\* and no WAL, whatever other tasks did between its statements, and even if it
\* rewrote the database.
THEOREM MaintenanceTheorem ==
    SqliteSpec => MaintenanceReclaimsTheWal
<1>1. SqliteIInv => [MaintenanceStep]_sqliteVars
  BY LastStatementTruncates
<1> QED
  BY SqliteStronger, <1>1, PTL DEF MaintenanceReclaimsTheWal

-----------------------------------------------------------------------------
(* SQLite: the refinement.                                                 *)

\* The task that inserts, or None: the writer of the abstract specification.
Inserter == IF \E t \in Callers : inserted[t] > 0 THEN CHOOSE t \in Callers : inserted[t] > 0 ELSE NoOne

\* Only the task with the connection inserts.
LEMMA InserterHasTheConnection ==
    ASSUME SqliteTypeOK, PoolIsSound
    PROVE  /\ \A t \in Callers : inserted[t] > 0 => Inserter = t /\ connection = t
           /\ (\A t \in Callers : inserted[t] = 0) => Inserter = NoOne
<1>1. \A s, t \in Callers : inserted[s] > 0 /\ inserted[t] > 0 => s = t
  BY DEF PoolIsSound
<1>2. ASSUME NEW t \in Callers, inserted[t] > 0 PROVE Inserter = t
  <2>1. \A s : s \in Callers /\ inserted[s] > 0 <=> s = t
    BY <1>1, <1>2
  <2>2. (CHOOSE s \in Callers : inserted[s] > 0) = t
    BY <2>1
  <2> QED
    BY <1>2, <2>2 DEF Inserter
<1>3. ASSUME \A t \in Callers : inserted[t] = 0 PROVE Inserter = NoOne
  BY <1>3 DEF Inserter
<1> QED
  BY <1>2, <1>3 DEF PoolIsSound

LEMMA SqliteRefinementInit == SqliteInit => SqlitePromise!Init
<1> SUFFICES ASSUME SqliteInit PROVE SqlitePromise!Init
  OBVIOUS
<1>1. ~\E t \in Callers : inserted[t] > 0
  BY DEF SqliteInit
<1> QED
  BY <1>1 DEF SqliteInit, SqlitePromise!Init

LEMMA SqliteRefinementStep ==
    SqliteIInv /\ SqliteIInv' /\ [SqliteNext]_sqliteVars
    => [SqlitePromise!Next]_(SqlitePromise!vars)
<1> USE SqliteAssumption
<1> SUFFICES ASSUME SqliteIInv, SqliteIInv', [SqliteNext]_sqliteVars
             PROVE  SqlitePromise!Next \/ UNCHANGED SqlitePromise!vars
  OBVIOUS
<1>1. /\ SqliteTypeOK /\ PoolIsSound
      /\ \A t \in Callers : inserted[t] \in 0 .. RowCount
      /\ RowCount \in Nat \ {0}
  BY DEF SqliteIInv, SqliteInv, SqliteTypeOK, SqliteAssumption
<1>2. /\ \A t \in Callers : inserted[t] > 0 => Inserter = t /\ connection = t
      /\ (\A t \in Callers : inserted[t] = 0) => Inserter = NoOne
  BY <1>1, InserterHasTheConnection
<1>3. /\ \A t \in Callers : inserted'[t] > 0 => Inserter' = t
      /\ (\A t \in Callers : inserted'[t] = 0) => Inserter' = NoOne
  <2>1. (SqliteTypeOK /\ PoolIsSound
         => /\ \A t \in Callers : inserted[t] > 0 => Inserter = t /\ connection = t
            /\ (\A t \in Callers : inserted[t] = 0) => Inserter = NoOne)'
    BY InserterHasTheConnection, PTL
  <2> QED
    BY <2>1 DEF SqliteIInv, SqliteInv
\* The transaction ends, if there is one.
<1>4. ASSUME \A t \in Callers : inserted'[t] = 0,
             \/ content' = content
             \/ \E t \in Callers : inserted[t] > 0 /\ content' = [k \in Rows |-> t]
      PROVE  SqlitePromise!Next \/ UNCHANGED SqlitePromise!vars
  <2>1. CASE \E t \in Callers : inserted[t] > 0
    <3>1. PICK t \in Callers : inserted[t] > 0
      BY <2>1
    <3>2. \A s \in Callers : inserted[s] > 0 => s = t
      BY <1>1, <3>1 DEF PoolIsSound
    <3>3. Inserter = t /\ Inserter' = NoOne
      BY <1>2, <1>3, <1>4, <3>1
    <3>4. content' \in {content, [k \in Rows |-> t]}
      BY <1>4, <3>2
    <3>5. SqlitePromise!EndWrite(t)
      BY <3>3, <3>4 DEF SqlitePromise!EndWrite, Inserter
    <3> QED
      BY <3>5 DEF SqlitePromise!Next
  <2>2. CASE \A t \in Callers : inserted[t] = 0
    <3>1. Inserter = NoOne /\ Inserter' = NoOne
      BY <1>2, <1>3, <1>4, <2>2
    <3>2. content' = content
      BY <1>4, <2>2
    <3> QED
      BY <3>1, <3>2 DEF SqlitePromise!vars, Inserter
  <2> QED
    BY <1>1, <2>1, <2>2
<1>5. ASSUME UNCHANGED <<inserted, content>>
      PROVE  SqlitePromise!Next \/ UNCHANGED SqlitePromise!vars
  BY <1>5 DEF SqlitePromise!vars
<1>6. ASSUME NEW t \in Callers, NEW rest, connection = t, GoesOnWith(t, rest)
      PROVE  \A s \in Callers : inserted'[s] = 0
  BY <1>1, <1>6 DEF GoesOnWith, PoolIsSound, SqliteTypeOK
<1>7. ASSUME NEW t \in Callers, Checkpoint(t) \/ Vacuum(t) \/ Optimize(t) \/ StatementFails(t)
      PROVE  SqlitePromise!Next \/ UNCHANGED SqlitePromise!vars
  <2>1. connection = t /\ content' = content
    BY <1>7 DEF Checkpoint, Vacuum, Optimize, StatementFails, Executes
  <2>2. \E rest : GoesOnWith(t, rest)
    BY <1>7 DEF Checkpoint, Vacuum, Optimize, StatementFails
  <2> QED
    BY <1>4, <1>6, <2>1, <2>2
<1>8. ASSUME NEW t \in Callers, InsertRow(t)
      PROVE  SqlitePromise!Next \/ UNCHANGED SqlitePromise!vars
  <2>1. inserted'[t] = inserted[t] + 1 /\ connection = t /\ UNCHANGED content
    BY <1>1, <1>8 DEF InsertRow, Executes, SqliteTypeOK
  <2>2. Inserter' = t
    BY <1>1, <1>3, <2>1
  <2>3. CASE inserted[t] > 0
    BY <1>2, <2>1, <2>2, <2>3 DEF SqlitePromise!vars, Inserter
  <2>4. CASE ~(inserted[t] > 0)
    <3>1. \A s \in Callers : inserted[s] = 0
      BY <1>1, <2>1, <2>4 DEF PoolIsSound
    <3>2. Inserter = NoOne
      BY <1>2, <3>1
    <3>3. SqlitePromise!BeginWrite(t)
      BY <2>1, <2>2, <3>2 DEF SqlitePromise!BeginWrite, Inserter
    <3> QED
      BY <3>3 DEF SqlitePromise!Next
  <2> QED
    BY <2>3, <2>4
<1>9. ASSUME NEW t \in Callers, CommitRows(t)
      PROVE  SqlitePromise!Next \/ UNCHANGED SqlitePromise!vars
  <2>1. connection = t /\ GoesOnWith(t, <<>>) /\ inserted[t] = RowCount
    BY <1>9 DEF CommitRows, Executes, StreamIsOver
  <2>2. content' = [k \in Rows |-> t]
    <3>1. \A k \in Rows : k <= inserted[t]
      BY <2>1 DEF Rows
    <3> QED
      BY <1>9, <3>1 DEF CommitRows
  <2> QED
    BY <1>1, <1>4, <1>6, <2>1, <2>2
<1>10. CASE Restart
  BY <1>4, <1>10 DEF Restart
<1>11. CASE Acquire \/ CloseDb \/ ConnectionCloses \/ UNCHANGED sqliteVars
  BY <1>5, <1>11 DEF Acquire, CloseDb, ConnectionCloses, sqliteVars, taskVars
<1>12. ASSUME NEW t \in Callers,
              AcquireFails(t) \/ \E operation \in Operations : Call(t, operation)
       PROVE  SqlitePromise!Next \/ UNCHANGED SqlitePromise!vars
  BY <1>5, <1>12 DEF AcquireFails, Call
<1> QED
  BY <1>7, <1>8, <1>9, <1>10, <1>11, <1>12 DEF SqliteNext, TaskStep

\* SqliteWrapper implements TransactionService: batches are stored as a whole or
\* not at all, one at a time, whatever fails and wherever the process ends.
THEOREM SqliteRefinement ==
    SqliteSpec => SqliteImplementsTransactionService
<1>1. SqliteIInv /\ SqliteIInv' /\ [SqliteNext]_sqliteVars => [SqlitePromise!Next]_(SqlitePromise!vars)
  BY SqliteRefinementStep
<1> QED
  BY SqliteRefinementInit, <1>1, SqliteStronger, PTL
     DEF SqliteSpec, SqliteImplementsTransactionService, SqlitePromise!Spec
=============================================================================
