------------------------ MODULE NetworkBuffersProofs ------------------------
(***************************************************************************)
(* Proofs about the pool of network buffers, for any number of tasks and   *)
(* buffers and any threshold.                                              *)
(***************************************************************************)
EXTENDS NetworkBuffers, FiniteSetTheorems, TLAPS

In(s, b)    == \E i \in DOMAIN s : s[i] = b
Distinct(s) == \A i, j \in DOMAIN s : i # j => s[i] # s[j]

---------------------------------------------------------------------------
(* Sequences without repetition *)

(* Unlinking the head removes exactly the head.                            *)
LEMMA TailRemovesHead ==
    ASSUME NEW S, NEW s \in Seq(S), s # << >>, Distinct(s)
    PROVE  /\ Tail(s) \in Seq(S)
           /\ Len(Tail(s)) = Len(s) - 1
           /\ Head(s) \in S /\ In(s, Head(s))
           /\ Distinct(Tail(s))
           /\ \A b : In(Tail(s), b) <=> In(s, b) /\ b # Head(s)
<1>1. /\ Len(s) \in Nat \ {0} /\ DOMAIN s = 1 .. Len(s)
      /\ Tail(s) \in Seq(S) /\ Len(Tail(s)) = Len(s) - 1
      /\ Head(s) = s[1] /\ Head(s) \in S
      /\ DOMAIN Tail(s) = 1 .. Len(s) - 1
      /\ \A i \in 1 .. Len(s) - 1 : Tail(s)[i] = s[i + 1]
    OBVIOUS
<1>2. In(s, Head(s))
    BY <1>1 DEF In
<1>3. Distinct(Tail(s))
    BY <1>1 DEF Distinct
<1>4. ASSUME NEW b, In(Tail(s), b) PROVE In(s, b) /\ b # Head(s)
    BY <1>1, <1>4 DEF In, Distinct
<1>5. ASSUME NEW b, In(s, b), b # Head(s) PROVE In(Tail(s), b)
  <2>1. PICK i \in 1 .. Len(s) : s[i] = b
      BY <1>1, <1>5 DEF In
  <2>2. i - 1 \in DOMAIN Tail(s) /\ Tail(s)[i - 1] = b
      BY <1>1, <1>5, <2>1
  <2> QED
      BY <2>2 DEF In
<1> QED
    BY <1>1, <1>2, <1>3, <1>4, <1>5

(* Inserting at the end adds exactly the element.                          *)
LEMMA AppendAdds ==
    ASSUME NEW S, NEW s \in Seq(S), NEW x \in S, Distinct(s), ~ In(s, x)
    PROVE  /\ Append(s, x) \in Seq(S)
           /\ Len(Append(s, x)) = Len(s) + 1
           /\ Distinct(Append(s, x))
           /\ \A b : In(Append(s, x), b) <=> In(s, b) \/ b = x
<1> DEFINE a == Append(s, x)
<1>1. /\ Len(s) \in Nat /\ DOMAIN s = 1 .. Len(s)
      /\ a \in Seq(S) /\ Len(a) = Len(s) + 1 /\ DOMAIN a = 1 .. Len(s) + 1
      /\ \A i \in 1 .. Len(s) : a[i] = s[i]
      /\ a[Len(s) + 1] = x
    OBVIOUS
<1> HIDE DEF a
<1>2. Distinct(a)
    BY <1>1 DEF Distinct, In
<1>3. ASSUME NEW b, In(a, b) PROVE In(s, b) \/ b = x
    BY <1>1, <1>3 DEF In
<1>4. ASSUME NEW b, In(s, b) \/ b = x PROVE In(a, b)
  <2>1. CASE b = x
      BY <1>1, <2>1 DEF In
  <2>2. CASE In(s, b)
      BY <1>1, <2>2 DEF In
  <2> QED
      BY <1>4, <2>1, <2>2
<1> QED
    BY <1>1, <1>2, <1>3, <1>4 DEF a

(* A list without repetition is no longer than there are buffers.          *)
LEMMA DistinctBounded ==
    ASSUME NEW s \in Seq(Buffers), Distinct(s)
    PROVE  Len(s) <= NumBuffers
<1>1. /\ IsFiniteSet(Buffers) /\ Cardinality(Buffers) = NumBuffers
      /\ NumBuffers \in Nat
    BY FS_Interval, PoolAssumption DEF Buffers
<1>2. /\ Len(s) \in Nat /\ DOMAIN s = 1 .. Len(s) /\ s \in [1 .. Len(s) -> Buffers]
    OBVIOUS
<1>3. IsFiniteSet(1 .. Len(s)) /\ Cardinality(1 .. Len(s)) = Len(s)
    BY <1>2, FS_Interval
<1>4. SUFFICES ASSUME NumBuffers < Len(s) PROVE FALSE
    BY <1>1, <1>2
<1>5. \E i, j \in 1 .. Len(s) : i # j /\ s[i] = s[j]
    BY <1>1, <1>2, <1>3, <1>4, FS_PigeonHole
<1> QED
    BY <1>2, <1>5 DEF Distinct

---------------------------------------------------------------------------
(* The tasks between the two steps of a call *)

(* When one task moves, the number of tasks underway drops by one, grows   *)
(* by one or stays, as the points it leaves and reaches are underway.      *)
LEMMA UnderwayMoves ==
    ASSUME NEW S, NEW f \in [Tasks -> S], NEW t \in Tasks, NEW to
    PROVE  LET g == [f EXCEPT ![t] = to]
               W == {"get", "give"}
               n == Cardinality(Underway(f))
           IN  /\ n \in Nat
               /\ f[t] \in W => n >= 1
               /\ f[t] \in W /\ to \notin W => Cardinality(Underway(g)) = n - 1
               /\ f[t] \notin W /\ to \in W => Cardinality(Underway(g)) = n + 1
               /\ (f[t] \in W <=> to \in W) => Cardinality(Underway(g)) = n
<1> DEFINE g == [f EXCEPT ![t] = to]
           W == {"get", "give"}
           U == Underway(f)
<1>1. IsFiniteSet(U) /\ Cardinality(U) \in Nat
    BY FS_Subset, FS_CardinalityType, PoolAssumption DEF Underway
<1>2. f[t] \in W <=> t \in U
    BY DEF Underway
<1>3. t \in U => Cardinality(U) >= 1
    BY <1>1, FS_EmptySet
<1>4. CASE t \in U /\ to \notin W
  <2>1. Underway(g) = U \ {t}
      BY <1>4 DEF Underway
  <2> QED
      BY <1>1, <1>2, <1>3, <1>4, <2>1, FS_RemoveElement
<1>5. CASE t \notin U /\ to \in W
  <2>1. Underway(g) = U \cup {t}
      BY <1>5 DEF Underway
  <2> QED
      BY <1>1, <1>2, <1>5, <2>1, FS_AddElement
<1>6. CASE t \in U <=> to \in W
  <2>1. Underway(g) = U
      BY <1>6 DEF Underway
  <2> QED
      BY <1>1, <1>2, <1>3, <1>6, <2>1
<1> QED
    BY <1>4, <1>5, <1>6

---------------------------------------------------------------------------
(* The inductive invariant *)

(* The invariant holds at first.                                           *)
LEMMA InitIInv == Init => IInv
<1> SUFFICES ASSUME Init PROVE IInv
    OBVIOUS
<1> USE PoolAssumption
<1>1. TypeOK
    BY DEF Init, TypeOK, Buffers, Callers
<1>2. SemaphoreBacked
  <2>1. Underway(pc) = {}
      BY DEF Init, Underway
  <2>2. Cardinality(Underway(pc)) = 0
      BY <2>1, FS_EmptySet
  <2>3. Len(xFreeBuffersList) = NumBuffers /\ semaphore = NumBuffers
      BY DEF Init
  <2>4. NumBuffers \in Nat
      OBVIOUS
  <2> QED
      BY <2>2, <2>3, <2>4 DEF SemaphoreBacked
<1>3. NoDoubleFree
    BY DEF Init, NoDoubleFree
<1>4. OwnedOnce
    BY DEF Init, OwnedOnce
<1>5. NoLeak
    BY DEF Init, NoLeak, Free, Buffers
<1> QED
    BY <1>1, <1>2, <1>3, <1>4, <1>5 DEF IInv

(* The invariant in the words of the sequence lemmas.                      *)
LEMMA ListFacts ==
    ASSUME IInv
    PROVE  /\ xFreeBuffersList \in Seq(Buffers)
           /\ Distinct(xFreeBuffersList)
           /\ \A b : Free(b) <=> In(xFreeBuffersList, b)
           /\ Len(xFreeBuffersList) \in 0 .. NumBuffers
<1>1. xFreeBuffersList \in Seq(Buffers) /\ Distinct(xFreeBuffersList)
    BY DEF IInv, TypeOK, NoDoubleFree, Distinct
<1>2. \A b : Free(b) <=> In(xFreeBuffersList, b)
    BY DEF Free, In
<1> QED
    BY <1>1, <1>2, DistinctBounded

(* What one removal of the head does to the list and to ownership.         *)
LEMMA RemoveKeepsOwnership ==
    ASSUME IInv, NEW c \in Callers, xFreeBuffersList # << >>,
           xFreeBuffersList' = Tail(xFreeBuffersList),
           held' = [held EXCEPT ![c] = @ \cup {Head(xFreeBuffersList)}]
    PROVE  /\ xFreeBuffersList' \in Seq(Buffers)
           /\ Len(xFreeBuffersList') = Len(xFreeBuffersList) - 1
           /\ held' \in [Callers -> SUBSET Buffers]
           /\ NoDoubleFree' /\ NoLeak'
           /\ \A d \in Callers : \A b \in held'[d] : ~ Free(b)'
           /\ \A d, e \in Callers : d # e => held'[d] \cap held'[e] = {}
           /\ \A d \in Callers : held[d] \subseteq held'[d]
<1> DEFINE h == Head(xFreeBuffersList)
<1>1. /\ xFreeBuffersList' \in Seq(Buffers)
      /\ Len(xFreeBuffersList') = Len(xFreeBuffersList) - 1
      /\ h \in Buffers /\ Free(h)
      /\ Distinct(xFreeBuffersList')
      /\ \A b : Free(b)' <=> Free(b) /\ b # h
    BY ListFacts, TailRemovesHead DEF Free, In
<1> HIDE DEF h
<1>2. \A d \in Callers : held'[d] = IF d = c THEN held[c] \cup {h} ELSE held[d]
    BY DEF IInv, TypeOK, h
<1>3. held' \in [Callers -> SUBSET Buffers]
    BY <1>1 DEF IInv, TypeOK, h
<1>4. NoDoubleFree'
    BY <1>1 DEF NoDoubleFree, Distinct
<1>5. NoLeak'
    BY <1>1, <1>2 DEF IInv, NoLeak
<1>6. \A d \in Callers : \A b \in held'[d] : ~ Free(b)'
    BY <1>1, <1>2 DEF IInv, OwnedOnce
<1>7. \A d, e \in Callers : d # e => held'[d] \cap held'[e] = {}
    BY <1>1, <1>2 DEF IInv, OwnedOnce
<1>8. \A d \in Callers : held[d] \subseteq held'[d]
    BY <1>2
<1> QED
    BY <1>1, <1>3, <1>4, <1>5, <1>6, <1>7, <1>8

(* What one insertion of an owned buffer does.                             *)
LEMMA InsertKeepsOwnership ==
    ASSUME IInv, NEW c \in Callers, NEW x \in held[c],
           xFreeBuffersList' = Append(xFreeBuffersList, x),
           held' = [held EXCEPT ![c] = @ \ {x}]
    PROVE  /\ xFreeBuffersList' \in Seq(Buffers)
           /\ Len(xFreeBuffersList') = Len(xFreeBuffersList) + 1
           /\ held' \in [Callers -> SUBSET Buffers]
           /\ NoDoubleFree' /\ NoLeak'
           /\ \A d \in Callers : \A b \in held'[d] : ~ Free(b)'
           /\ \A d, e \in Callers : d # e => held'[d] \cap held'[e] = {}
           /\ \A d \in Callers : d # c => held'[d] = held[d]
           /\ Len(xFreeBuffersList) < NumBuffers
<1>1. x \in Buffers /\ ~ Free(x)
    BY DEF IInv, TypeOK, OwnedOnce
<1>2. /\ xFreeBuffersList' \in Seq(Buffers)
      /\ Len(xFreeBuffersList') = Len(xFreeBuffersList) + 1
      /\ Distinct(xFreeBuffersList')
      /\ \A b : Free(b)' <=> Free(b) \/ b = x
    BY <1>1, ListFacts, AppendAdds DEF Free, In
<1>3. \A d \in Callers : held'[d] = IF d = c THEN held[c] \ {x} ELSE held[d]
    BY DEF IInv, TypeOK
<1>4. held' \in [Callers -> SUBSET Buffers]
    BY DEF IInv, TypeOK
<1>5. NoDoubleFree'
    BY <1>2 DEF NoDoubleFree, Distinct
<1>6. NoLeak'
    BY <1>2, <1>3 DEF IInv, NoLeak
<1>7. \A d \in Callers : \A b \in held'[d] : ~ Free(b)'
    BY <1>2, <1>3 DEF IInv, OwnedOnce
<1>8. \A d, e \in Callers : d # e => held'[d] \cap held'[e] = {}
    BY <1>3 DEF IInv, OwnedOnce
<1>9. Len(xFreeBuffersList) < NumBuffers
  <2>1. Len(xFreeBuffersList') <= NumBuffers
      BY <1>2, DistinctBounded
  <2>2. Len(xFreeBuffersList) \in Nat /\ NumBuffers \in Nat
      BY ListFacts, PoolAssumption
  <2> QED
      BY <1>2, <2>1, <2>2
<1> QED
    BY <1>2, <1>3, <1>4, <1>5, <1>6, <1>7, <1>8, <1>9

(* Only the list and the owners matter to these parts of the invariant.    *)
LEMMA OwnershipUnchanged ==
    ASSUME IInv, UNCHANGED <<xFreeBuffersList, held>>
    PROVE  NoDoubleFree' /\ NoLeak'
<1> QED
    BY DEF IInv, NoDoubleFree, NoLeak, Free

(* Every step of every caller keeps the invariant.                         *)
LEMMA StepKeepsIInv == IInv /\ [Next]_vars => IInv'
<1> SUFFICES ASSUME IInv, [Next]_vars PROVE IInv'
    OBVIOUS
<1> USE DEF IInv
<1>0. /\ semaphore \in 0 .. NumBuffers /\ NumBuffers \in Nat
      /\ Len(xFreeBuffersList) \in 0 .. NumBuffers
      /\ semaphore + Cardinality(Underway(pc)) = Len(xFreeBuffersList)
      /\ Cardinality(Underway(pc)) \in Nat
  <2>1. Cardinality(Underway(pc)) \in Nat
      BY FS_Subset, FS_CardinalityType, PoolAssumption DEF Underway
  <2> QED
      BY <2>1, ListFacts, PoolAssumption DEF TypeOK, SemaphoreBacked
<1>1. ASSUME NEW t \in Tasks, GetTake(t) PROVE IInv'
  <2>1. TypeOK'
      BY <1>0, <1>1 DEF GetTake, TypeOK
  <2>2. SemaphoreBacked'
    <3>1. Cardinality(Underway(pc')) = Cardinality(Underway(pc)) + 1
        BY <1>1, UnderwayMoves DEF GetTake, TypeOK
    <3> QED
        BY <1>0, <1>1, <3>1 DEF GetTake, SemaphoreBacked
  <2>3. NoDoubleFree' /\ NoLeak'
      BY <1>1, OwnershipUnchanged DEF GetTake
  <2>4. OwnedOnce'
      BY <1>1 DEF GetTake, OwnedOnce, Free, TypeOK
  <2> QED
      BY <2>1, <2>2, <2>3, <2>4
<1>2. ASSUME NEW t \in Tasks, GetRemove(t) PROVE IInv'
  <2>1. /\ t \in Callers /\ pc[t] = "get"
        /\ UNCHANGED <<semaphore, uxMinimumFree, arg, uxCount>>
      BY <1>2 DEF GetRemove, Callers
  <2>2. xFreeBuffersList # << >>
    <3>1. Cardinality(Underway(pc)) >= 1
        BY <2>1, UnderwayMoves DEF TypeOK
    <3>2. Len(xFreeBuffersList) >= 1
        BY <1>0, <3>1
    <3> QED
        BY <3>2
  <2>3. /\ held' = [held EXCEPT ![t] = @ \cup {Head(xFreeBuffersList)}]
        /\ xFreeBuffersList' = Tail(xFreeBuffersList)
        /\ pc' = [pc EXCEPT ![t] = "count"]
      BY <1>2, <2>2 DEF GetRemove
  <2>4. /\ xFreeBuffersList' \in Seq(Buffers)
        /\ Len(xFreeBuffersList') = Len(xFreeBuffersList) - 1
        /\ held' \in [Callers -> SUBSET Buffers]
        /\ NoDoubleFree' /\ NoLeak'
        /\ \A d \in Callers : \A b \in held'[d] : ~ Free(b)'
        /\ \A d, e \in Callers : d # e => held'[d] \cap held'[e] = {}
        /\ \A d \in Callers : held[d] \subseteq held'[d]
      BY <2>1, <2>2, <2>3, RemoveKeepsOwnership
  <2>5. TypeOK'
      BY <2>1, <2>3, <2>4 DEF TypeOK
  <2>6. SemaphoreBacked'
    <3>1. Cardinality(Underway(pc')) = Cardinality(Underway(pc)) - 1
        BY <2>1, <2>3, UnderwayMoves DEF TypeOK
    <3> QED
        BY <1>0, <2>1, <2>4, <3>1 DEF SemaphoreBacked
  <2>7. \A u \in Tasks : pc'[u] = "release" => arg'[u] \in held'[u]
      BY <2>1, <2>3, <2>4 DEF OwnedOnce, TypeOK, Callers
  <2> QED
      BY <2>4, <2>5, <2>6, <2>7 DEF OwnedOnce
<1>3. ASSUME NEW t \in Tasks, GetCount(t) \/ GetMinimum(t) PROVE IInv'
  <2>1. PICK from \in {"count", "minimum"}, to \in {"minimum", "idle"} :
            /\ from # to /\ pc[t] = from /\ pc' = [pc EXCEPT ![t] = to]
            /\ UNCHANGED <<xFreeBuffersList, semaphore, arg, held>>
    <3>1. CASE GetCount(t)
      <4>1. CASE uxMinimumFree > Len(xFreeBuffersList)
          BY <3>1, <4>1 DEF GetCount
      <4>2. CASE ~ (uxMinimumFree > Len(xFreeBuffersList))
          BY <3>1, <4>2 DEF GetCount
      <4> QED
          BY <4>1, <4>2
    <3>2. CASE GetMinimum(t)
        BY <3>2 DEF GetMinimum
    <3> QED
        BY <1>3, <3>1, <3>2
  <2>2. uxCount' \in [Tasks -> 0 .. NumBuffers] /\ uxMinimumFree' \in 0 .. NumBuffers
      BY <1>0, <1>3 DEF GetCount, GetMinimum, TypeOK
  <2>3. TypeOK'
      BY <2>1, <2>2 DEF TypeOK
  <2>4. SemaphoreBacked'
    <3>1. Cardinality(Underway(pc')) = Cardinality(Underway(pc))
        BY <2>1, UnderwayMoves DEF TypeOK
    <3> QED
        BY <2>1, <3>1 DEF SemaphoreBacked
  <2>5. NoDoubleFree' /\ NoLeak'
      BY <2>1, OwnershipUnchanged
  <2>6. OwnedOnce'
      BY <2>1 DEF OwnedOnce, Free, TypeOK
  <2> QED
      BY <2>3, <2>4, <2>5, <2>6
<1>4. ASSUME NEW t \in Tasks, Release(t) PROVE IInv'
  <2>1. PICK b \in held[t] : arg' = [arg EXCEPT ![t] = b]
      BY <1>4 DEF Release
  <2>2. b \in Buffers
      BY <2>1 DEF TypeOK, Callers
  <2>3. TypeOK'
      BY <1>4, <2>1, <2>2 DEF Release, TypeOK
  <2>4. SemaphoreBacked'
    <3>1. Cardinality(Underway(pc')) = Cardinality(Underway(pc))
        BY <1>4, UnderwayMoves DEF Release, TypeOK
    <3> QED
        BY <1>4, <3>1 DEF Release, SemaphoreBacked
  <2>5. NoDoubleFree' /\ NoLeak'
      BY <1>4, OwnershipUnchanged DEF Release
  <2>6. OwnedOnce'
      BY <1>4, <2>1 DEF Release, OwnedOnce, Free, TypeOK
  <2> QED
      BY <2>3, <2>4, <2>5, <2>6
<1>5. ASSUME NEW t \in Tasks, ReleaseInsert(t) PROVE IInv'
  <2>1. /\ t \in Callers /\ pc[t] = "release" /\ arg[t] \in held[t]
        /\ UNCHANGED <<semaphore, uxMinimumFree, arg, uxCount>>
      BY <1>5 DEF ReleaseInsert, OwnedOnce, Callers
  <2>2. ~ Free(arg[t])
      BY <2>1 DEF OwnedOnce
  <2>3. /\ xFreeBuffersList' = Append(xFreeBuffersList, arg[t])
        /\ held' = [held EXCEPT ![t] = @ \ {arg[t]}]
        /\ pc' = [pc EXCEPT ![t] = "give"]
      BY <1>5, <2>2 DEF ReleaseInsert
  <2>4. /\ xFreeBuffersList' \in Seq(Buffers)
        /\ Len(xFreeBuffersList') = Len(xFreeBuffersList) + 1
        /\ held' \in [Callers -> SUBSET Buffers]
        /\ NoDoubleFree' /\ NoLeak'
        /\ \A d \in Callers : \A b \in held'[d] : ~ Free(b)'
        /\ \A d, e \in Callers : d # e => held'[d] \cap held'[e] = {}
        /\ \A d \in Callers : d # t => held'[d] = held[d]
      BY <2>1, <2>3, InsertKeepsOwnership
  <2>5. TypeOK'
      BY <2>1, <2>3, <2>4 DEF TypeOK
  <2>6. SemaphoreBacked'
    <3>1. Cardinality(Underway(pc')) = Cardinality(Underway(pc)) + 1
        BY <2>1, <2>3, UnderwayMoves DEF TypeOK
    <3> QED
        BY <1>0, <2>1, <2>4, <3>1 DEF SemaphoreBacked
  <2>7. \A u \in Tasks : pc'[u] = "release" => arg'[u] \in held'[u]
      BY <2>1, <2>3, <2>4 DEF OwnedOnce, TypeOK, Callers
  <2> QED
      BY <2>4, <2>5, <2>6, <2>7 DEF OwnedOnce
<1>6. ASSUME NEW t \in Tasks, ReleaseGive(t) PROVE IInv'
  <2>1. /\ pc[t] = "give" /\ pc' = [pc EXCEPT ![t] = "idle"]
        /\ UNCHANGED <<xFreeBuffersList, uxMinimumFree, arg, uxCount, held>>
      BY <1>6 DEF ReleaseGive
  <2>2. /\ Cardinality(Underway(pc')) = Cardinality(Underway(pc)) - 1
        /\ Cardinality(Underway(pc)) >= 1
      BY <2>1, UnderwayMoves DEF TypeOK
  <2>3. semaphore < NumBuffers
      BY <1>0, <2>2
  <2>4. semaphore' = semaphore + 1
      BY <1>6, <2>3 DEF ReleaseGive
  <2>5. TypeOK'
      BY <1>0, <2>1, <2>3, <2>4 DEF TypeOK
  <2>6. SemaphoreBacked'
      BY <1>0, <2>1, <2>2, <2>4 DEF SemaphoreBacked
  <2>7. NoDoubleFree' /\ NoLeak'
      BY <2>1, OwnershipUnchanged
  <2>8. OwnedOnce'
      BY <2>1 DEF OwnedOnce, Free, TypeOK
  <2> QED
      BY <2>5, <2>6, <2>7, <2>8
<1>7. CASE GetFromISR
  <2>1. /\ ISR \in Callers /\ semaphore >= 1
        /\ semaphore' = semaphore - 1
        /\ UNCHANGED <<uxMinimumFree, pc, arg, uxCount>>
        /\ held' = [held EXCEPT ![ISR] = @ \cup {Head(xFreeBuffersList)}]
        /\ xFreeBuffersList' = Tail(xFreeBuffersList)
      BY <1>7, <1>0, PoolAssumption DEF GetFromISR, Callers
  <2>2. xFreeBuffersList # << >>
    <3>1. Len(xFreeBuffersList) >= 1
        BY <1>0, <2>1
    <3> QED
        BY <3>1
  <2>3. /\ xFreeBuffersList' \in Seq(Buffers)
        /\ Len(xFreeBuffersList') = Len(xFreeBuffersList) - 1
        /\ held' \in [Callers -> SUBSET Buffers]
        /\ NoDoubleFree' /\ NoLeak'
        /\ \A d \in Callers : \A b \in held'[d] : ~ Free(b)'
        /\ \A d, e \in Callers : d # e => held'[d] \cap held'[e] = {}
        /\ \A d \in Callers : held[d] \subseteq held'[d]
      BY <2>1, <2>2, RemoveKeepsOwnership
  <2>4. TypeOK'
      BY <1>0, <2>1, <2>3 DEF TypeOK
  <2>5. SemaphoreBacked'
    <3>1. /\ Cardinality(Underway(pc')) = Cardinality(Underway(pc))
          /\ semaphore' = semaphore - 1
        BY <2>1
    <3> QED
        BY <1>0, <2>3, <3>1 DEF SemaphoreBacked
  <2>6. \A u \in Tasks : pc'[u] = "release" => arg'[u] \in held'[u]
      BY <2>1, <2>3 DEF OwnedOnce, Callers
  <2> QED
      BY <2>3, <2>4, <2>5, <2>6 DEF OwnedOnce
<1>8. CASE ReleaseFromISR
  <2>1. PICK b \in held[ISR] :
            /\ xFreeBuffersList' = Append(xFreeBuffersList, b)
            /\ held' = [held EXCEPT ![ISR] = @ \ {b}]
      BY <1>8 DEF ReleaseFromISR
  <2>2. ISR \in Callers /\ ISR \notin Tasks
        /\ UNCHANGED <<uxMinimumFree, pc, arg, uxCount>>
      BY <1>8, PoolAssumption DEF ReleaseFromISR, Callers
  <2>3. /\ xFreeBuffersList' \in Seq(Buffers)
        /\ Len(xFreeBuffersList') = Len(xFreeBuffersList) + 1
        /\ held' \in [Callers -> SUBSET Buffers]
        /\ NoDoubleFree' /\ NoLeak'
        /\ \A d \in Callers : \A x \in held'[d] : ~ Free(x)'
        /\ \A d, e \in Callers : d # e => held'[d] \cap held'[e] = {}
        /\ \A d \in Callers : d # ISR => held'[d] = held[d]
        /\ Len(xFreeBuffersList) < NumBuffers
      BY <2>1, <2>2, InsertKeepsOwnership
  <2>4. semaphore' = semaphore + 1 /\ semaphore < NumBuffers
      BY <1>0, <1>8, <2>3 DEF ReleaseFromISR
  <2>5. TypeOK'
      BY <1>0, <2>2, <2>3, <2>4 DEF TypeOK
  <2>6. SemaphoreBacked'
    <3>1. Cardinality(Underway(pc')) = Cardinality(Underway(pc))
        BY <2>2
    <3> QED
        BY <1>0, <2>3, <2>4, <3>1 DEF SemaphoreBacked
  <2>7. \A u \in Tasks : pc'[u] = "release" => arg'[u] \in held'[u]
      BY <2>2, <2>3 DEF OwnedOnce, Callers
  <2> QED
      BY <2>3, <2>5, <2>6, <2>7 DEF OwnedOnce
<1>9. ASSUME NEW c \in Callers, NEW d \in Callers, NEW b \in Buffers,
             HandOver(c, d, b)
      PROVE  IInv'
  <2>1. /\ b \in held[c] /\ c # d
        /\ c \in Tasks => ~ (pc[c] = "release" /\ arg[c] = b)
        /\ UNCHANGED <<xFreeBuffersList, semaphore, uxMinimumFree, pc, arg, uxCount>>
      BY <1>9 DEF HandOver
  <2>2. \A e \in Callers : held'[e] = IF e = c THEN held[c] \ {b}
                                     ELSE IF e = d THEN held[d] \cup {b}
                                     ELSE held[e]
      BY <1>9 DEF HandOver, TypeOK
  <2>3. held' \in [Callers -> SUBSET Buffers]
      BY <1>9 DEF HandOver, TypeOK
  <2>4. TypeOK'
      BY <2>1, <2>3 DEF TypeOK
  <2>5. SemaphoreBacked'
      BY <2>1 DEF SemaphoreBacked
  <2>6. \A x : Free(x)' <=> Free(x)
      BY <2>1 DEF Free
  <2>7. NoDoubleFree'
      BY <2>1 DEF NoDoubleFree
  <2>8. NoLeak'
    <3> SUFFICES ASSUME NEW x \in Buffers, ~ Free(x)'
                 PROVE  \E e \in Callers : x \in held'[e]
        BY DEF NoLeak
    <3>1. PICK e \in Callers : x \in held[e]
        BY <2>6 DEF NoLeak
    <3>2. x \in held'[e] \/ x \in held'[d]
        BY <2>1, <2>2, <3>1
    <3> QED
        BY <3>2
  <2>9. OwnedOnce'
    <3>1. \A e \in Callers : \A x \in held'[e] : ~ Free(x)'
        BY <2>1, <2>2, <2>6 DEF OwnedOnce
    <3>2. \A e, f \in Callers : e # f => held'[e] \cap held'[f] = {}
        BY <2>1, <2>2 DEF OwnedOnce
    <3>3. \A u \in Tasks : pc'[u] = "release" => arg'[u] \in held'[u]
        BY <2>1, <2>2 DEF OwnedOnce, Callers
    <3> QED
        BY <3>1, <3>2, <3>3 DEF OwnedOnce
  <2> QED
      BY <2>4, <2>5, <2>7, <2>8, <2>9
<1>10. CASE UNCHANGED vars
  <2>1. UNCHANGED <<xFreeBuffersList, semaphore, uxMinimumFree, pc, arg, uxCount, held>>
      BY <1>10 DEF vars
  <2>2. TypeOK'
      BY <2>1 DEF TypeOK
  <2>3. SemaphoreBacked'
      BY <2>1 DEF SemaphoreBacked
  <2>4. NoDoubleFree' /\ NoLeak'
      BY <2>1, OwnershipUnchanged
  <2>5. OwnedOnce'
      BY <2>1 DEF OwnedOnce, Free
  <2> QED
      BY <2>2, <2>3, <2>4, <2>5
<1> QED
    BY <1>1, <1>2, <1>3, <1>4, <1>5, <1>6, <1>7, <1>8, <1>9, <1>10
       DEF Next, TaskStep

(* The invariant holds in every state of every behaviour of the pool.      *)
THEOREM Invariant == Spec => []IInv
<1> QED
    BY InitIInv, StepKeepsIInv, PTL DEF Spec

---------------------------------------------------------------------------
(* The types of the pool's state hold for any number of tasks, buffers and *)
(* any threshold of the interrupt handlers.                                *)
THEOREM TypeCorrect == Spec => []TypeOK
<1>1. IInv => TypeOK
    BY DEF IInv
<1> QED
    BY Invariant, <1>1, PTL

(* The semaphore count never runs ahead of the free list: a unit of it, or *)
(* a unit already taken, stands for a buffer in the list.                  *)
THEOREM SemaphoreAlwaysBacked == Spec => []SemaphoreBacked
<1>1. IInv => SemaphoreBacked
    BY DEF IInv
<1> QED
    BY Invariant, <1>1, PTL

(* A task that took the semaphore never finds the free list empty, however *)
(* many other tasks and interrupts run between its two steps.              *)
THEOREM GetNeverFails == Spec => []GetSucceeds
<1>1. IInv => GetSucceeds
  <2> SUFFICES ASSUME IInv, NEW t \in Tasks, pc[t] = "get"
               PROVE  xFreeBuffersList # << >>
      BY DEF GetSucceeds
  <2>1. Cardinality(Underway(pc)) \in Nat /\ Cardinality(Underway(pc)) >= 1
      BY UnderwayMoves DEF IInv, TypeOK
  <2>2. semaphore \in Nat /\ Len(xFreeBuffersList) \in Nat
      BY ListFacts, PoolAssumption DEF IInv, TypeOK
  <2>3. Len(xFreeBuffersList) >= 1
      BY <2>1, <2>2 DEF IInv, SemaphoreBacked
  <2> QED
      BY <2>3
<1> QED
    BY Invariant, <1>1, PTL

(* No buffer is free twice, free and owned, or owned by two callers.       *)
THEOREM OneOwner == Spec => [](NoDoubleFree /\ OwnedOnce)
<1>1. IInv => NoDoubleFree /\ OwnedOnce
    BY DEF IInv
<1> QED
    BY Invariant, <1>1, PTL

(* No buffer is ever lost from the pool.                                   *)
THEOREM NothingLeaks == Spec => []NoLeak
<1>1. IInv => NoLeak
    BY DEF IInv
<1> QED
    BY Invariant, <1>1, PTL
=============================================================================
