------------------------- MODULE ArtifactStoreProofs -------------------------
(***************************************************************************)
(* What put_bytes keeps for every number of threads and store objects,     *)
(* every data and sizes, every bound, and whatever fails or dies: an       *)
(* object that was promised stays, and the total is exceeded by no more    *)
(* than one object for each other store object on the directory.           *)
(***************************************************************************)
EXTENDS ArtifactStore, Sums

-----------------------------------------------------------------------------
(* The directory.                                                            *)

\* Some threads, each with a store object, and what ArtifactStore.__init__ checks of
\* the bounds.
Setting ==
    /\ IsFiniteSet(Putters) /\ Putters # {} /\ Nobody \notin Putters
    /\ StoreOf \in [Putters -> Store]
    /\ IsFiniteSet(Data) /\ Data # {} /\ Size \in [Data -> Nat]
    /\ MaxTotalBytes \in Nat /\ MaxArtifactBytes \in Nat /\ CrashBound \in Nat

Whole == {d \in Data : content[d] = "whole"}

\* What each thread has been promised room for: it is past the check.
Promise == [t \in Putters |->
              IF pc[t] \in {"make", "write", "replace"} THEN Size[item[t]] ELSE 0]
Promised == Total(Size, Whole) + litter + Total(Promise, Putters)
Room == MaxTotalBytes + (Cardinality(Store) - 1) * MaxArtifactBytes

\* What is held, written and returned at each point of put_bytes.
StoreShape ==
    /\ TypeOK
    /\ \A s \in Store : holder[s] # Nobody => StoreOf[holder[s]] = s
    /\ \A d \in Data : content[d] # "part"
    /\ ReturnedIsKept
    /\ \A t \in Putters : temp[t] = IF pc[t] = "replace" THEN Size[item[t]] ELSE 0
    /\ \A t \in Putters : pc[t] # "idle" => Size[item[t]] <= MaxArtifactBytes

\* The check sees the bytes that are written, not those that are promised; the
\* difference is at most one object for each other store object, since each has one
\* lock.  So it is the promises that have to be within the room.
StoreInv == StoreShape /\ Promised <= Room

LEMMA StoreOfType == ASSUME Setting, NEW t \in Putters PROVE StoreOf[t] \in Store
  BY DEF Setting

LEMMA StoreCount ==
    ASSUME Setting
    PROVE  IsFiniteSet(Store) /\ Cardinality(Store) \in Nat /\ Cardinality(Store) >= 1
<1>1. StoreOf \in Surjection(Putters, Store)
  BY DEF Setting, Store, Range, Surjection
<1>2. IsFiniteSet(Store) BY <1>1, FS_Surjection DEF Setting
<1>3. Store # {} BY StoreOfType DEF Setting
<1>4. QED BY <1>2, <1>3, FS_CardinalityType, FS_EmptySet

LEMMA RoomType == ASSUME Setting PROVE Room \in Nat /\ MaxTotalBytes <= Room
<1> DEFINE k == Cardinality(Store) - 1
<1>1. k \in Nat BY StoreCount
<1> HIDE DEF k
<1>2. k * MaxArtifactBytes \in Nat BY <1>1 DEF Setting
<1>3. QED BY <1>2 DEF Room, Setting, k

LEMMA SumsAreTotals ==
    TotalBytes = Total(Size, Whole) + litter + Total(temp, Putters)
<1>1. ObjectBytes = Total(Size, Whole)
  BY DEF ObjectBytes, Total, Whole, Sum, MapThenSumSet, MapThenFoldSet
<1>2. Sum(Putters, LAMBDA t : temp[t]) = Total(temp, Putters)
  BY DEF Total, Sum, MapThenSumSet, MapThenFoldSet
<1>3. QED BY <1>1, <1>2 DEF TotalBytes

\* The amounts are amounts.
LEMMA Sums ==
    ASSUME Setting, StoreShape
    PROVE  /\ IsFiniteSet(Whole) /\ Total(Size, Whole) \in Nat
           /\ \A t \in Putters : Promise[t] \in Nat /\ temp[t] \in Nat
           /\ Total(Promise, Putters) \in Nat /\ Total(temp, Putters) \in Nat
           /\ litter \in Nat
<1>1. IsFiniteSet(Whole) BY FS_Subset DEF Whole, Setting
<1>2. Total(Size, Whole) \in Nat
  <2>1. \A d \in Whole : Size[d] \in Nat BY DEF Whole, Setting
  <2>2. QED BY <1>1, <2>1, TotalType
<1>3. \A t \in Putters : Promise[t] \in Nat /\ temp[t] \in Nat
  BY DEF Promise, StoreShape, TypeOK, Setting
<1>4. Total(Promise, Putters) \in Nat /\ Total(temp, Putters) \in Nat
  BY <1>3, TotalType DEF Setting
<1>5. QED BY <1>1, <1>2, <1>3, <1>4 DEF StoreShape, TypeOK

\* Whoever is past the lock of its store has it.
LEMMA PastTheLock ==
    ASSUME Setting, StoreShape, NEW t \in Putters, pc[t] \notin {"idle", "lock"}
    PROVE  holder[StoreOf[t]] = t
  BY DEF StoreShape, TypeOK

\* The others that are past the check while t is at it: one for each other store at most.
LEMMA FewOthers ==
    ASSUME Setting, StoreShape, NEW t \in Putters, pc[t] = "check"
    PROVE  Total(Promise, Putters)
             <= Total(temp, Putters) + (Cardinality(Store) - 1) * MaxArtifactBytes
<1> DEFINE M == {u \in Putters : pc[u] \in {"make", "write"}}
           Others == Store \ {StoreOf[t]}
           f == [u \in M |-> StoreOf[u]]
<1>1. f \in Injection(M, Others)
  <2>1. \A u \in M : StoreOf[u] \in Store /\ holder[StoreOf[u]] = u /\ u # t
    BY StoreOfType, PastTheLock
  <2>2. holder[StoreOf[t]] = t BY PastTheLock
  <2>3. \A u \in M : StoreOf[u] \in Others BY <2>1, <2>2
  <2>4. \A u, v \in M : StoreOf[u] = StoreOf[v] => u = v BY <2>1
  <2>5. f \in [M -> Others] /\ \A u \in M : f[u] = StoreOf[u] BY <2>3
  <2> HIDE DEF M, Others, f
  <2>6. QED BY <2>4, <2>5 DEF Injection, IsInjective
<1>2. IsFiniteSet(Others) /\ Cardinality(Others) = Cardinality(Store) - 1
  BY StoreCount, StoreOfType, FS_RemoveElement
<1> HIDE DEF f
<1>3. /\ IsFiniteSet(M) /\ Cardinality(M) \in Nat
      /\ Cardinality(M) <= Cardinality(Store) - 1
  <2> HIDE DEF M, Others
  <2>1. QED BY <1>1, <1>2, FS_Injection, FS_CardinalityType
<1>4. Total(Promise, Putters)
        <= Total(temp, Putters) + Cardinality(Putters \cap M) * MaxArtifactBytes
  <2>1. \A u \in Putters : Promise[u] <= temp[u] + (IF u \in M THEN MaxArtifactBytes ELSE 0)
    BY DEF Promise, StoreShape, TypeOK, Setting
  <2>2. \A u \in Putters : temp[u] \in Nat /\ Promise[u] \in Nat BY Sums
  <2> HIDE DEF M
  <2>3. QED BY <2>1, <2>2, TotalBound DEF Setting
<1>5. Putters \cap M = M OBVIOUS
<1> DEFINE m == Cardinality(M)
           k == Cardinality(Store) - 1
<1>6. m * MaxArtifactBytes <= k * MaxArtifactBytes /\ m * MaxArtifactBytes \in Nat
      /\ k * MaxArtifactBytes \in Nat
  <2>1. m \in Nat /\ k \in Nat /\ m <= k BY <1>3, StoreCount
  <2> HIDE DEF m, k
  <2>2. QED BY <2>1 DEF Setting
<1>7. Total(Promise, Putters) <= Total(temp, Putters) + m * MaxArtifactBytes
  BY <1>4, <1>5
<1> HIDE DEF m, k
<1>8. Total(Promise, Putters) <= Total(temp, Putters) + k * MaxArtifactBytes
  <2> DEFINE p == m * MaxArtifactBytes
             q == k * MaxArtifactBytes
  <2>1. p \in Nat /\ q \in Nat /\ p <= q BY <1>6
  <2> HIDE DEF p, q
  <2>2. QED BY <1>7, <2>1, Sums DEF p, q
<1>9. QED BY <1>8 DEF k

-----------------------------------------------------------------------------
(* The steps.                                                                *)

\* A step that stores nothing and changes the promise of one thread.
LEMMA OnePromise ==
    ASSUME Setting, StoreShape, NEW t \in Putters, NEW n \in Nat,
           Promise' = [Promise EXCEPT ![t] = n]
    PROVE  \E k \in Nat : /\ Total(Promise, Putters) = Promise[t] + k
                          /\ Total(Promise, Putters)' = n + k
<1> DEFINE w == Promise
           v == Promise'
<1>1. w \in [Putters -> Nat]
  <2>1. w = [u \in Putters |-> w[u]] BY DEF Promise
  <2>2. \A u \in Putters : w[u] \in Nat BY Sums
  <2> HIDE DEF w
  <2>3. QED BY <2>1, <2>2
<1>2. v = [w EXCEPT ![t] = n] OBVIOUS
<1> HIDE DEF w, v
<1>3. /\ \A u \in Putters : w[u] \in Nat /\ v[u] \in Nat
      /\ \A u \in Putters \ {t} : w[u] = v[u]
      /\ v[t] = n
  BY <1>1, <1>2
<1>4. \E k \in Nat : Total(w, Putters) = w[t] + k /\ Total(v, Putters) = v[t] + k
  BY <1>3, TotalChange DEF Setting
<1>5. QED BY <1>3, <1>4 DEF w, v

\* What each step promises.
LEMMA Promises ==
    ASSUME Setting, StoreShape, NEW t \in Putters
    PROVE  /\ (Put(t) \/ Lock(t) \/ Look(t) \/ CheckVanished(t) \/ Make(t) \/ Write(t))
                => Promise' = Promise
           /\ Check(t) => \/ Promise' = Promise
                          \/ /\ Promise' = [Promise EXCEPT ![t] = Size[item[t]]]
                             /\ Promise[t] = 0
                             /\ TotalBytes + Size[item[t]] <= MaxTotalBytes
           /\ (WriteFails(t) \/ Replace(t)) => Promise' = [Promise EXCEPT ![t] = 0]
           /\ Replace(t) => Promise[t] = Size[item[t]]
<1> USE DEF StoreShape, TypeOK, Promise
<1>1. Put(t) => Promise' = Promise BY DEF Put
<1>2. Lock(t) => Promise' = Promise BY DEF Lock
<1>3. Look(t) => Promise' = Promise BY DEF Look, Leave
<1>4. CheckVanished(t) => Promise' = Promise BY DEF CheckVanished, Leave
<1>5. Make(t) => Promise' = Promise BY DEF Make
<1>6. Write(t) => Promise' = Promise BY DEF Write
<1>7. Check(t) => \/ Promise' = Promise
                  \/ /\ Promise' = [Promise EXCEPT ![t] = Size[item[t]]]
                     /\ Promise[t] = 0
                     /\ TotalBytes + Size[item[t]] <= MaxTotalBytes
  BY DEF Check, Leave
<1>8. WriteFails(t) => Promise' = [Promise EXCEPT ![t] = 0] BY DEF WriteFails, Leave
<1>9. Replace(t) => Promise' = [Promise EXCEPT ![t] = 0] BY DEF Replace, Leave
<1>10. Replace(t) => Promise[t] = Size[item[t]] BY DEF Replace
<1>11. QED BY <1>1, <1>2, <1>3, <1>4, <1>5, <1>6, <1>7, <1>8, <1>9, <1>10

\* Every step keeps the room.  A check promises what fits beside what is written; what
\* is stored or left behind was promised.
LEMMA RoomStep ==
    ASSUME Setting, StoreInv, Next
    PROVE  (Promised <= Room)'
<1> DEFINE o == Total(Size, Whole)
           p == Total(Promise, Putters)
<1>1. o \in Nat /\ p \in Nat /\ litter \in Nat /\ Promised = o + litter + p
  BY Sums DEF StoreInv, Promised
<1>2. Promised <= Room /\ Room \in Nat /\ Room' = Room /\ StoreShape
  BY RoomType DEF StoreInv, Room
<1>3. SUFFICES Promised' <= Room
  BY <1>2
<1>4. ASSUME NEW t \in Putters,
             \/ Put(t) \/ Lock(t) \/ Look(t) \/ CheckVanished(t) \/ Make(t) \/ Write(t)
      PROVE  Promised' <= Room
  <2>1. Promise' = Promise BY <1>2, <1>4, Promises
  <2>2. UNCHANGED <<content, litter>>
    BY <1>4 DEF Put, Lock, Look, CheckVanished, Make, Write
  <2>3. Promised' = Promised BY <2>1, <2>2 DEF Promised, Whole
  <2>4. QED BY <1>2, <2>3
<1>5. ASSUME NEW t \in Putters, Check(t) PROVE Promised' <= Room
  <2>1. UNCHANGED <<content, litter>> BY <1>5 DEF Check
  <2>2. CASE Promise' = Promise
    <3>1. Promised' = Promised BY <2>1, <2>2 DEF Promised, Whole
    <3>2. QED BY <1>2, <3>1
  <2>3. CASE /\ Promise' = [Promise EXCEPT ![t] = Size[item[t]]]
             /\ Promise[t] = 0
             /\ TotalBytes + Size[item[t]] <= MaxTotalBytes
    <3> DEFINE n == Size[item[t]]
               q == Total(temp, Putters)
               k == (Cardinality(Store) - 1) * MaxArtifactBytes
    <3>1. n \in Nat BY <1>2 DEF Setting, StoreShape, TypeOK
    <3>2. Total(Promise, Putters)' = n + p
      <4>1. Promise' = [Promise EXCEPT ![t] = n] BY <2>3
      <4> HIDE DEF n
      <4>2. PICK i \in Nat : /\ Total(Promise, Putters) = Promise[t] + i
                             /\ Total(Promise, Putters)' = n + i
        BY <1>2, <3>1, <4>1, OnePromise
      <4>3. QED BY <2>3, <4>2
    <3>3. Promised' = o + litter + (n + p) BY <2>1, <3>2 DEF Promised, Whole
    <3>4. pc[t] = "check" BY <1>5 DEF Check
    <3>5. p <= q + k BY <1>2, <3>4, FewOthers
    <3>6. o + litter + q + n <= MaxTotalBytes BY <2>3, SumsAreTotals
    <3>7. q \in Nat /\ k \in Nat /\ MaxTotalBytes \in Nat /\ Room = MaxTotalBytes + k
      <4> DEFINE j == Cardinality(Store) - 1
      <4>1. j \in Nat BY StoreCount
      <4> HIDE DEF j
      <4>2. j * MaxArtifactBytes \in Nat BY <4>1 DEF Setting
      <4>3. QED BY <1>2, <4>2, Sums DEF Room, Setting, j
    <3> HIDE DEF n, q, k, o, p
    <3>8. QED BY <1>1, <3>1, <3>3, <3>5, <3>6, <3>7
  <2>4. QED BY <1>2, <1>5, <2>2, <2>3, Promises
<1>6. ASSUME NEW t \in Putters, WriteFails(t) PROVE Promised' <= Room
  <2>1. UNCHANGED <<content, litter>> BY <1>6 DEF WriteFails
  <2>2. PICK i \in Nat : p = Promise[t] + i /\ Total(Promise, Putters)' = 0 + i
    BY <1>2, <1>6, Promises, OnePromise
  <2>3. Promise[t] \in Nat BY <1>2, Sums
  <2>4. Promised' = o + litter + (0 + i) BY <2>1, <2>2 DEF Promised, Whole
  <2> HIDE DEF o, p
  <2>5. QED BY <1>1, <1>2, <2>2, <2>3, <2>4
<1>7. ASSUME NEW t \in Putters, Replace(t) PROVE Promised' <= Room
  <2> DEFINE d == item[t]
             W == Whole'
  <2>1. PICK i \in Nat : p = Size[d] + i /\ Total(Promise, Putters)' = 0 + i
    BY <1>2, <1>7, Promises, OnePromise
  <2>2. litter' = litter /\ W = Whole \cup {d} /\ d \in Data /\ Size[d] \in Nat
    BY <1>2, <1>7 DEF Replace, Whole, StoreShape, TypeOK, Setting
  <2>3. Promised' = Total(Size, W) + litter + (0 + i) BY <2>1, <2>2 DEF Promised
  <2> HIDE DEF d, W
  <2>4. Total(Size, W) \in Nat /\ Total(Size, W) <= o + Size[d]
    <3>1. CASE d \in Whole
      <4>1. Total(Size, W) = o
        <5>1. W = Whole BY <2>2, <3>1
        <5>2. QED BY <5>1
      <4> HIDE DEF o, p
      <4>2. QED BY <1>1, <2>2, <4>1
    <3>2. CASE d \notin Whole
      <4>1. W \ {d} = Whole /\ d \in W BY <2>2, <3>2
      <4>2. IsFiniteSet(W) BY <1>2, <2>2, Sums, FS_AddElement
      <4>3. \A x \in W : Size[x] \in Nat BY <2>2 DEF Whole, Setting
      <4>4. Total(Size, W) = Size[d] + Total(Size, Whole) BY <4>1, <4>2, <4>3, TotalSplit
      <4>5. QED BY <1>1, <2>2, <4>4
    <3>3. QED BY <3>1, <3>2
  <2> HIDE DEF o, p
  <2>5. QED BY <1>1, <1>2, <2>1, <2>2, <2>3, <2>4
<1>8. ASSUME NEW s \in Store, Crash(s) PROVE Promised' <= Room
  <2> DEFINE h == holder[s]
  <2>1. h \in Putters /\ StoreOf[h] = s
    BY <1>2, <1>8 DEF Crash, StoreShape, TypeOK
  <2>2. \A u \in Putters : StoreOf[u] = s /\ u # h => pc[u] \in {"idle", "lock"}
    BY <1>2, PastTheLock DEF StoreShape
  <2>3. Promise' = [Promise EXCEPT ![h] = 0]
    BY <1>8, <2>1, <2>2 DEF Crash, Promise
  <2>4. litter' = litter + temp[h] /\ content' = content BY <1>8 DEF Crash
  <2>5. temp[h] \in Nat /\ Promise[h] \in Nat /\ temp[h] <= Promise[h]
    BY <1>2, <2>1, Sums DEF StoreShape, Promise
  <2> HIDE DEF h
  <2>6. PICK i \in Nat : p = Promise[h] + i /\ Total(Promise, Putters)' = 0 + i
    BY <1>2, <2>1, <2>3, OnePromise
  <2>7. Promised' = o + (litter + temp[h]) + (0 + i) BY <2>4, <2>6 DEF Promised, Whole
  <2> HIDE DEF o, p
  <2>8. QED BY <1>1, <1>2, <2>5, <2>6, <2>7
<1>9. QED BY <1>4, <1>5, <1>6, <1>7, <1>8 DEF Next

\* What is held, written and returned stays so in every step.
LEMMA ShapeStep == ASSUME Setting, StoreShape, Next PROVE StoreShape'
<1> USE DEF Setting, StoreShape, TypeOK, ReturnedIsKept
<1>1. ASSUME NEW t \in Putters, Put(t) PROVE StoreShape' BY <1>1 DEF Put
<1>2. ASSUME NEW t \in Putters, Lock(t) PROVE StoreShape'
  BY <1>2, StoreOfType DEF Lock
<1>3. ASSUME NEW t \in Putters, Look(t) PROVE StoreShape'
  BY <1>3, StoreOfType DEF Look, Leave
<1>4. ASSUME NEW t \in Putters, Check(t) \/ CheckVanished(t) PROVE StoreShape'
  BY <1>4, StoreOfType DEF Check, CheckVanished, Leave
<1>5. ASSUME NEW t \in Putters, Make(t) PROVE StoreShape' BY <1>5 DEF Make
<1>6. ASSUME NEW t \in Putters, Write(t) PROVE StoreShape' BY <1>6 DEF Write
<1>7. ASSUME NEW t \in Putters, WriteFails(t) PROVE StoreShape'
  BY <1>7, StoreOfType DEF WriteFails, Leave
<1>8. ASSUME NEW t \in Putters, Replace(t) PROVE StoreShape'
  BY <1>8, StoreOfType DEF Replace, Leave
<1>9. ASSUME NEW s \in Store, Crash(s) PROVE StoreShape'
  BY <1>9, StoreOfType, PastTheLock DEF Crash
<1>10. QED BY <1>1, <1>2, <1>3, <1>4, <1>5, <1>6, <1>7, <1>8, <1>9 DEF Next

LEMMA StoreInit == ASSUME Setting, Init PROVE StoreInv
<1>1. StoreShape
  BY StoreOfType DEF Init, Setting, StoreShape, TypeOK, ReturnedIsKept
<1>2. Whole = {} BY DEF Init, Whole
<1>3. Total(Size, Whole) = 0 BY <1>2, TotalEmpty
<1>4. Total(Promise, Putters) = 0
  <2>1. \A t \in Putters : Promise[t] = 0 BY DEF Init, Promise
  <2>2. QED BY <2>1, TotalZero DEF Setting
<1>5. Promised = 0 + 0 + 0 BY <1>3, <1>4 DEF Promised, Init
<1>6. QED BY <1>1, <1>5, RoomType DEF StoreInv

LEMMA StoreKeeps == ASSUME Setting, StoreInv, [Next]_vars PROVE StoreInv'
<1>1. CASE Next BY <1>1, RoomStep, ShapeStep DEF StoreInv
<1>2. CASE UNCHANGED vars
  <2>1. StoreShape' BY <1>2 DEF vars, StoreInv, StoreShape, TypeOK, ReturnedIsKept
  <2>2. Promise' = Promise BY <1>2 DEF vars, Promise
  <2>3. (Promised <= Room)' BY <1>2, <2>2 DEF vars, StoreInv, Promised, Whole, Room
  <2>4. QED BY <2>1, <2>3 DEF StoreInv
<1>3. QED BY <1>1, <1>2

LEMMA StoreInvHolds == ASSUME Setting PROVE Spec => []StoreInv
<1>1. Init => StoreInv BY StoreInit
<1>2. StoreInv /\ [Next]_vars => StoreInv' BY StoreKeeps
<1>3. QED BY <1>1, <1>2, PTL DEF Spec

\* The promises are at least what is written.
LEMMA WrittenWasPromised == ASSUME Setting, StoreInv PROVE TotalBytes <= Promised
<1>1. StoreShape BY DEF StoreInv
<1>2. Total(temp, Putters) <= Total(Promise, Putters) + Cardinality(Putters \cap {}) * 0
  <2>1. \A t \in Putters : /\ temp[t] \in Nat /\ Promise[t] \in Nat
                           /\ temp[t] <= Promise[t] + (IF t \in {} THEN 0 ELSE 0)
    <3>1. \A t \in Putters : temp[t] \in Nat /\ Promise[t] \in Nat BY <1>1, Sums
    <3>2. \A t \in Putters : temp[t] <= Promise[t]
      BY <1>1, <3>1 DEF StoreShape, Promise
    <3>3. QED BY <3>1, <3>2
  <2>2. QED BY <2>1, TotalBound DEF Setting
<1>3. Cardinality(Putters \cap {}) * 0 = 0
  <2>1. Putters \cap {} = {} /\ Cardinality({}) = 0 BY FS_EmptySet
  <2>2. 0 * 0 = 0 OBVIOUS
  <2>3. QED BY <2>1, <2>2
<1>4. Total(temp, Putters) <= Total(Promise, Putters) + 0 BY <1>2, <1>3
<1>5. QED BY <1>1, <1>4, Sums, SumsAreTotals DEF Promised

\* Once put_bytes has returned a reference its object stays, whole, whatever fails or
\* dies; and however the checks of several store objects and the writes they let through
\* interleave, the directory is over its total by at most one object for each other
\* store object on it.
THEOREM StoreKeepsItsWordHolds ==
    ASSUME Setting
    PROVE  Spec => []StoreKeepsItsWord
<1>1. ASSUME StoreInv PROVE StoreKeepsItsWord
  <2>1. TotalBytes \in Nat
    <3>1. StoreShape BY <1>1 DEF StoreInv
    <3>2. QED BY <3>1, Sums, SumsAreTotals
  <2>2. Promised \in Nat
    <3>1. StoreShape BY <1>1 DEF StoreInv
    <3>2. QED BY <3>1, Sums DEF Promised
  <2>3. OverByOthersOnly
    BY <1>1, <2>1, <2>2, WrittenWasPromised, RoomType DEF StoreInv, Room, OverByOthersOnly
  <2>4. QED BY <1>1, <2>3 DEF StoreInv, StoreShape, StoreKeepsItsWord
<1>2. StoreInv => StoreKeepsItsWord BY <1>1
<1>3. QED BY <1>2, StoreInvHolds, PTL
=============================================================================
