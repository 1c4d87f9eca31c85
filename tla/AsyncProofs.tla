----------------------------- MODULE AsyncProofs -----------------------------
(***************************************************************************)
(* Proofs about WorkQueue and Timer: the properties of MCAsync hold for    *)
(* any number of callers, workers, functors and blocks, and for a jiffies  *)
(* of any width.                                                           *)
(***************************************************************************)
EXTENDS MCAsync, FiniteSetTheorems, SequenceTheorems, TLAPS

mcVars == <<part, vars, timerVars>>

------------------------------------------------------------------------------
(***************************************************************************)
(* WorkQueue.  OneOwner counts owners; it is proved from who they are: the *)
(* UniquePtr of a caller, a place in the queue or a worker owns only       *)
(* allocated blocks, no two of them own the same one, and every allocated  *)
(* block has an owner.  The functors are in different blocks, and the      *)
(* functor in a block has been called only when its worker is about to     *)
(* free the block.                                                         *)
(***************************************************************************)

\* Only a caller between make_unique and release, and a worker that has taken
\* a block, hold one.
HoldersInv ==
  /\ \A t \in Threads : work_item[t] = nullptr <=> pc[t] # "made"
  /\ \A w \in Workers : self[w] = nullptr <=> step[w] = "idle"

OwnedAllocated ==
  /\ \A t \in Threads : work_item[t] # nullptr => work_item[t] \in allocated
  /\ \A k \in 1 .. Len(queue) : queue[k] \in allocated
  /\ \A w \in Workers : self[w] # nullptr => self[w] \in allocated

OwnersDiffer ==
  /\ \A t, u \in Threads : work_item[t] = work_item[u] /\ work_item[t] # nullptr => t = u
  /\ \A k, m \in 1 .. Len(queue) : queue[k] = queue[m] => k = m
  /\ \A v, w \in Workers : self[v] = self[w] /\ self[v] # nullptr => v = w
  /\ \A t \in Threads, k \in 1 .. Len(queue) : work_item[t] # queue[k]
  /\ \A t \in Threads, w \in Workers : work_item[t] = self[w] => self[w] = nullptr
  /\ \A k \in 1 .. Len(queue), w \in Workers : queue[k] # self[w]

AllOwned ==
  \A b \in allocated :
    \/ \E t \in Threads : work_item[t] = b
    \/ \E k \in 1 .. Len(queue) : queue[k] = b
    \/ \E w \in Workers : self[w] = b

FunctorsInv ==
  /\ \A b \in allocated : func[b] \in Jobs /\ job[func[b]] = "accepted"
  /\ \A b, c \in allocated : func[b] = func[c] => b = c
  /\ \A j \in Jobs : ran[j] \in {0, 1} /\ (job[j] # "accepted" => ran[j] = 0)
  /\ \A b \in allocated : (\A w \in Workers : self[w] = b => step[w] = "call") => ran[func[b]] = 0

WorkInv == TypeOK /\ HoldersInv /\ OwnedAllocated /\ OwnersDiffer /\ AllOwned /\ FunctorsInv

\* The sets that Owners counts have at most one element, and one of them has.
LEMMA WorkInvOneOwner == WorkInv => OneOwner
<1> SUFFICES ASSUME WorkInv, NEW b \in Blocks
             PROVE  Owners(b) = IF b \in allocated THEN 1 ELSE 0
  BY DEF OneOwner
<1> DEFINE A == {t \in Threads : work_item[t] = b}
           Q == {k \in DOMAIN queue : queue[k] = b}
           S == {w \in Workers : self[w] = b}
<1>1. Owners(b) = Cardinality(A) + Cardinality(Q) + Cardinality(S)
  BY DEF Owners
<1>2. b # nullptr /\ DOMAIN queue = 1 .. Len(queue)
  BY ConstantsAssumption DEF WorkInv, TypeOK
<1>3. ASSUME b \notin allocated PROVE A = {} /\ Q = {} /\ S = {}
  BY <1>2, <1>3 DEF WorkInv, OwnedAllocated
<1>4. \A t \in A, u \in A : t = u
  BY <1>2 DEF WorkInv, OwnersDiffer
<1>5. \A k \in Q, m \in Q : k = m
  BY <1>2 DEF WorkInv, OwnersDiffer
<1>6. \A v \in S, w \in S : v = w
  BY <1>2 DEF WorkInv, OwnersDiffer
<1>7. /\ A # {} => Q = {} /\ S = {}
      /\ Q # {} => A = {} /\ S = {}
      /\ S # {} => A = {} /\ Q = {}
  BY <1>2 DEF WorkInv, OwnersDiffer
<1>8. ASSUME b \in allocated PROVE A # {} \/ Q # {} \/ S # {}
  BY <1>2, <1>8 DEF WorkInv, AllOwned
<1> HIDE DEF A, Q, S
<1>9. Cardinality({}) = 0
  BY FS_EmptySet
<1>10. ASSUME NEW U, U # {}, \A x \in U, y \in U : x = y PROVE Cardinality(U) = 1
  <2>1. PICK x \in U : TRUE
    BY <1>10
  <2>2. U = {x}
    BY <1>10, <2>1
  <2> QED BY <2>2, FS_Singleton
<1>11. CASE b \notin allocated
  BY <1>1, <1>3, <1>9, <1>11
<1>12. CASE b \in allocated
  <2>1. CASE A # {}
    <3>1. Cardinality(A) = 1 /\ Cardinality(Q) = 0 /\ Cardinality(S) = 0
      BY <1>4, <1>7, <1>9, <1>10, <2>1
    <3> QED BY <1>1, <1>12, <3>1
  <2>2. CASE Q # {}
    <3>1. Cardinality(A) = 0 /\ Cardinality(Q) = 1 /\ Cardinality(S) = 0
      BY <1>5, <1>7, <1>9, <1>10, <2>2
    <3> QED BY <1>1, <1>12, <3>1
  <2>3. CASE S # {}
    <3>1. Cardinality(A) = 0 /\ Cardinality(Q) = 0 /\ Cardinality(S) = 1
      BY <1>6, <1>7, <1>9, <1>10, <2>3
    <3> QED BY <1>1, <1>12, <3>1
  <2> QED BY <1>8, <1>12, <2>1, <2>2, <2>3
<1> QED BY <1>11, <1>12

\* Nothing is queued, held or allocated at first.
LEMMA WorkInit == Init => WorkInv
<1> SUFFICES ASSUME Init PROVE WorkInv
  OBVIOUS
<1>1. TypeOK
  BY DEF Init, TypeOK
<1>2. Len(queue) = 0 /\ 1 .. Len(queue) = {}
  BY DEF Init
<1>3. HoldersInv
  BY DEF Init, HoldersInv
<1>4. OwnedAllocated /\ OwnersDiffer /\ AllOwned
  BY <1>2 DEF Init, OwnedAllocated, OwnersDiffer, AllOwned
<1>5. FunctorsInv
  BY DEF Init, FunctorsInv
<1> QED BY <1>1, <1>3, <1>4, <1>5 DEF WorkInv

\* An allocation that fails drops a functor that nobody has.
LEMMA WorkDropped ==
  ASSUME WorkInv, NEW j \in Jobs, job[j] = "new", job' = [job EXCEPT ![j] = "dropped"],
         UNCHANGED <<pc, work_item, allocated, func, queue, workerVars>>
  PROVE  WorkInv'
<1> USE DEF workerVars
<1>1. TypeOK'
  BY DEF WorkInv, TypeOK
<1>2. HoldersInv' /\ OwnedAllocated' /\ OwnersDiffer' /\ AllOwned'
  BY DEF WorkInv, HoldersInv, OwnedAllocated, OwnersDiffer, AllOwned
<1>3. FunctorsInv'
  BY DEF WorkInv, TypeOK, FunctorsInv
<1> QED BY <1>1, <1>2, <1>3 DEF WorkInv

\* The block of a new functor was free: nobody else owns it.
LEMMA WorkMade ==
  ASSUME WorkInv, NEW t \in Threads, NEW j \in Jobs, pc[t] = "idle", job[j] = "new",
         NEW b \in Blocks \ allocated,
         allocated' = allocated \union {b}, func' = [func EXCEPT ![b] = j],
         work_item' = [work_item EXCEPT ![t] = b], pc' = [pc EXCEPT ![t] = "made"],
         job' = [job EXCEPT ![j] = "accepted"], UNCHANGED <<queue, workerVars>>
  PROVE  WorkInv'
<1>1. TypeOK'
  BY DEF WorkInv, TypeOK, workerVars
<1>2. /\ b # nullptr /\ work_item'[t] = b /\ pc'[t] = "made" /\ UNCHANGED <<queue, step, self, ran>>
      /\ \A u \in Threads \ {t} : work_item'[u] = work_item[u] /\ pc'[u] = pc[u]
      /\ work_item[t] = nullptr
  BY ConstantsAssumption DEF WorkInv, TypeOK, HoldersInv, workerVars
<1>3. /\ func'[b] = j /\ job'[j] = "accepted" /\ ran[j] = 0
      /\ \A c \in allocated : func'[c] = func[c] /\ func[c] \in Jobs /\ func[c] # j
      /\ \A i \in Jobs \ {j} : job'[i] = job[i]
  BY DEF WorkInv, TypeOK, FunctorsInv
<1>4. HoldersInv'
  BY <1>2 DEF WorkInv, HoldersInv
<1>5. OwnedAllocated'
  BY <1>2 DEF WorkInv, OwnedAllocated
<1>6. OwnersDiffer'
  BY <1>2 DEF WorkInv, OwnedAllocated, OwnersDiffer
<1>7. AllOwned'
  <2>1. nullptr \notin allocated
    BY ConstantsAssumption DEF WorkInv, TypeOK
  <2>2. ASSUME NEW c \in allocated, NEW u \in Threads, work_item[u] = c PROVE work_item'[u] = c
    BY <1>2, <2>1, <2>2
  <2> QED BY <1>2, <2>2 DEF WorkInv, AllOwned
<1>8. FunctorsInv'
  BY <1>2, <1>3 DEF WorkInv, TypeOK, FunctorsInv
<1> QED BY <1>1, <1>4, <1>5, <1>6, <1>7, <1>8 DEF WorkInv

\* release moves the block from the UniquePtr to the end of the queue.
LEMMA WorkQueued ==
  ASSUME WorkInv, NEW t \in Threads, QueueReleased(t)
  PROVE  WorkInv'
<1> DEFINE b == work_item[t]
           e == Len(queue) + 1
<1>1. b \in Blocks /\ b # nullptr /\ pc[t] = "made" /\ queue \in Seq(Blocks)
  BY DEF WorkInv, TypeOK, HoldersInv, QueueReleased
<1>2. /\ queue' \in Seq(Blocks) /\ Len(queue') = e /\ e \in Nat /\ queue'[e] = b
      /\ \A k \in 1 .. Len(queue) : queue'[k] = queue[k]
  BY <1>1 DEF QueueReleased
<1>3. \A k \in 1 .. e : k \in 1 .. Len(queue) \/ k = e
  BY <1>2
<1>4. 1 .. Len(queue) \subseteq 1 .. e /\ e \in 1 .. e /\ e \notin 1 .. Len(queue)
  BY <1>2
<1>5. /\ work_item'[t] = nullptr /\ pc'[t] = "queued"
      /\ \A u \in Threads \ {t} : work_item'[u] = work_item[u] /\ pc'[u] = pc[u]
      /\ UNCHANGED <<allocated, func, job, step, self, ran>>
  BY DEF WorkInv, TypeOK, QueueReleased, workerVars
<1>6. TypeOK'
  BY <1>2 DEF WorkInv, TypeOK, QueueReleased, workerVars
<1> HIDE DEF e
<1>7. HoldersInv'
  BY <1>5 DEF WorkInv, HoldersInv
<1>8. OwnedAllocated'
  BY <1>1, <1>2, <1>3, <1>5 DEF WorkInv, OwnedAllocated
<1>9. OwnersDiffer'
  <2>1. \A u, v \in Threads : work_item'[u] = work_item'[v] /\ work_item'[u] # nullptr => u = v
    BY <1>5 DEF WorkInv, OwnersDiffer
  <2>2. \A k, m \in 1 .. Len(queue') : queue'[k] = queue'[m] => k = m
    BY <1>2, <1>3 DEF WorkInv, OwnersDiffer
  <2>3. \A u \in Threads, k \in 1 .. Len(queue') : work_item'[u] # queue'[k]
    <3> SUFFICES ASSUME NEW u \in Threads, NEW k \in 1 .. Len(queue')
                 PROVE  work_item'[u] # queue'[k]
      OBVIOUS
    <3>1. CASE u = t
      <4>1. queue'[k] \in Blocks
        BY <1>2, ElementOfSeq
      <4> QED BY <1>5, <3>1, <4>1, ConstantsAssumption
    <3>2. CASE u # t
      BY <1>1, <1>2, <1>3, <1>5, <3>2 DEF WorkInv, OwnersDiffer
    <3> QED BY <3>1, <3>2
  <2>4. \A u \in Threads, w \in Workers : work_item'[u] = self'[w] => self'[w] = nullptr
    BY <1>5 DEF WorkInv, OwnersDiffer
  <2>5. \A k \in 1 .. Len(queue'), w \in Workers : queue'[k] # self'[w]
    BY <1>1, <1>2, <1>3, <1>5 DEF WorkInv, OwnersDiffer
  <2>6. \A v, w \in Workers : self'[v] = self'[w] /\ self'[v] # nullptr => v = w
    BY <1>5 DEF WorkInv, OwnersDiffer
  <2> QED BY <2>1, <2>2, <2>3, <2>4, <2>5, <2>6 DEF OwnersDiffer
<1>10. AllOwned'
  BY <1>2, <1>4, <1>5 DEF WorkInv, AllOwned
<1>11. FunctorsInv'
  BY <1>5 DEF WorkInv, FunctorsInv
<1> QED BY <1>6, <1>7, <1>8, <1>9, <1>10, <1>11 DEF WorkInv

\* The UniquePtr is empty when schedule_work returns: nothing is freed.
LEMMA WorkReturned ==
  ASSUME WorkInv, NEW t \in Threads, Return(t)
  PROVE  WorkInv'
<1>1. work_item[t] = nullptr /\ nullptr \notin allocated
  BY ConstantsAssumption DEF WorkInv, TypeOK, HoldersInv, Return
<1>2. /\ UNCHANGED <<work_item, allocated, func, queue, job, step, self, ran>>
      /\ pc'[t] = "idle" /\ pc[t] # "made" /\ \A u \in Threads \ {t} : pc'[u] = pc[u]
  BY <1>1 DEF WorkInv, TypeOK, Return, workerVars
<1>3. TypeOK'
  BY <1>2 DEF WorkInv, TypeOK, Return
<1>4. HoldersInv'
  BY <1>2 DEF WorkInv, HoldersInv
<1>5. OwnedAllocated' /\ OwnersDiffer' /\ AllOwned' /\ FunctorsInv'
  BY <1>2 DEF WorkInv, OwnedAllocated, OwnersDiffer, AllOwned, FunctorsInv
<1> QED BY <1>3, <1>4, <1>5 DEF WorkInv

\* A worker takes the head of the queue.
LEMMA WorkTaken ==
  ASSUME WorkInv, NEW w \in Workers, Take(w)
  PROVE  WorkInv'
<1> DEFINE b == queue[1]
           n == Len(queue)
<1>1. queue \in Seq(Blocks) /\ queue # <<>> /\ n \in Nat /\ n >= 1 /\ step[w] = "idle"
  <2>1. queue \in Seq(Blocks) /\ queue # <<>> /\ step[w] = "idle"
    BY DEF WorkInv, TypeOK, Take
  <2> QED BY <2>1
<1>2. /\ queue' \in Seq(Blocks) /\ Len(queue') = n - 1 /\ Head(queue) = b
      /\ \A k \in 1 .. n - 1 : queue'[k] = queue[k + 1]
  BY <1>1 DEF Take
<1>3. b \in Blocks /\ b # nullptr /\ b \in allocated
  <2>1. 1 \in 1 .. Len(queue)
    BY <1>1
  <2>2. b \in Blocks
    BY <1>1, <2>1, ElementOfSeq
  <2> QED BY <2>1, <2>2, ConstantsAssumption DEF WorkInv, OwnedAllocated
<1>4. \A k \in 1 .. n - 1 : k + 1 \in 1 .. n /\ k + 1 # 1
  BY <1>1
<1>5. \A k \in 1 .. n : k = 1 \/ (k - 1 \in 1 .. n - 1 /\ (k - 1) + 1 = k)
  BY <1>1
<1>6. /\ self'[w] = b /\ step'[w] = "call" /\ self[w] = nullptr
      /\ \A v \in Workers \ {w} : self'[v] = self[v] /\ step'[v] = step[v]
      /\ UNCHANGED <<pc, work_item, job, allocated, func, ran>>
  BY <1>1, <1>2 DEF WorkInv, TypeOK, HoldersInv, Take, callerVars
<1>7. TypeOK'
  BY <1>2, <1>3 DEF WorkInv, TypeOK, Take, callerVars
<1>8. 1 \in 1 .. n
  BY <1>1
<1>9. HoldersInv'
  BY <1>3, <1>6 DEF WorkInv, HoldersInv
<1> HIDE DEF b
<1>10. OwnedAllocated'
  BY <1>2, <1>3, <1>4, <1>6 DEF WorkInv, OwnedAllocated
<1>11. OwnersDiffer'
  <2>1. \A k, m \in 1 .. n - 1 : queue'[k] = queue'[m] => k = m
    <3> SUFFICES ASSUME NEW k \in 1 .. n - 1, NEW m \in 1 .. n - 1, queue'[k] = queue'[m]
                 PROVE  k = m
      OBVIOUS
    <3>1. queue[k + 1] = queue[m + 1] /\ k + 1 \in 1 .. n /\ m + 1 \in 1 .. n
      BY <1>2, <1>4
    <3>2. k + 1 = m + 1
      BY <3>1 DEF WorkInv, OwnersDiffer
    <3> QED BY <3>2
  <2>2. \A v, u \in Workers : self'[v] = self'[u] /\ self'[v] # nullptr => v = u
    BY <1>6, <1>8 DEF WorkInv, OwnersDiffer, b
  <2>3. \A t \in Threads, k \in 1 .. n - 1 : work_item'[t] # queue'[k]
    BY <1>2, <1>4, <1>6 DEF WorkInv, OwnersDiffer
  <2>4. \A t \in Threads, v \in Workers : work_item'[t] = self'[v] => self'[v] = nullptr
    BY <1>6, <1>8 DEF WorkInv, OwnersDiffer, b
  <2>5. \A k \in 1 .. n - 1, v \in Workers : queue'[k] # self'[v]
    <3> SUFFICES ASSUME NEW k \in 1 .. n - 1, NEW v \in Workers PROVE queue'[k] # self'[v]
      OBVIOUS
    <3>1. queue'[k] = queue[k + 1] /\ k + 1 \in 1 .. n /\ k + 1 # 1
      BY <1>2, <1>4
    <3>2. queue[k + 1] # b /\ queue[k + 1] # self[v]
      BY <1>8, <3>1 DEF WorkInv, OwnersDiffer, b
    <3> QED BY <1>6, <3>1, <3>2
  <2>6. \A t, u \in Threads : work_item'[t] = work_item'[u] /\ work_item'[t] # nullptr => t = u
    BY <1>6 DEF WorkInv, OwnersDiffer
  <2> QED BY <1>2, <2>1, <2>2, <2>3, <2>4, <2>5, <2>6 DEF OwnersDiffer
<1>12. AllOwned'
  <2> SUFFICES ASSUME NEW c \in allocated
               PROVE  \/ \E t \in Threads : work_item'[t] = c
                      \/ \E k \in 1 .. Len(queue') : queue'[k] = c
                      \/ \E v \in Workers : self'[v] = c
    BY <1>6 DEF AllOwned
  <2>1. CASE \E t \in Threads : work_item[t] = c
    BY <1>6, <2>1
  <2>2. CASE \E v \in Workers : self[v] = c
    <3>1. c # nullptr
      BY ConstantsAssumption DEF WorkInv, TypeOK
    <3> QED BY <1>6, <2>2, <3>1
  <2>3. ASSUME NEW k \in 1 .. n, queue[k] = c
        PROVE  \/ \E m \in 1 .. Len(queue') : queue'[m] = c
               \/ \E v \in Workers : self'[v] = c
    <3>1. CASE k = 1
      BY <1>6, <2>3, <3>1 DEF b
    <3>2. CASE k # 1
      <4>1. k - 1 \in 1 .. n - 1 /\ queue'[k - 1] = c
        BY <1>2, <1>5, <2>3, <3>2
      <4> QED BY <1>2, <4>1
    <3> QED BY <3>1, <3>2
  <2> QED BY <2>1, <2>2, <2>3 DEF WorkInv, AllOwned
<1>13. FunctorsInv'
  <2>1. ASSUME NEW c \in allocated, \A v \in Workers : self'[v] = c => step'[v] = "call"
        PROVE  \A v \in Workers : self[v] = c => step[v] = "call"
    <3>1. c # nullptr
      BY ConstantsAssumption DEF WorkInv, TypeOK
    <3> QED BY <1>6, <2>1, <3>1
  <2> QED BY <1>6, <2>1 DEF WorkInv, FunctorsInv
<1> QED BY <1>7, <1>9, <1>10, <1>11, <1>12, <1>13 DEF WorkInv

\* The functor in the block of a worker that has not called it never ran.
LEMMA WorkCalled ==
  ASSUME WorkInv, NEW w \in Workers, CallFunc(w)
  PROVE  WorkInv'
<1> DEFINE b == self[w]
           j == func[b]
<1>1. /\ b \in allocated /\ step[w] = "call" /\ j \in Jobs /\ job[j] = "accepted"
      /\ UNCHANGED <<pc, work_item, job, allocated, func, queue, self>>
  BY DEF WorkInv, HoldersInv, OwnedAllocated, FunctorsInv, CallFunc, callerVars
<1>2. \A v \in Workers : self[v] = b => v = w
  BY <1>1, ConstantsAssumption DEF WorkInv, TypeOK, OwnersDiffer
<1>3. ran[j] = 0
  BY <1>1, <1>2 DEF WorkInv, FunctorsInv
<1>4. ran'[j] = 1 /\ \A i \in Jobs \ {j} : ran'[i] = ran[i]
  BY <1>1, <1>3 DEF WorkInv, TypeOK, CallFunc
<1>5. step'[w] = "free" /\ \A v \in Workers \ {w} : step'[v] = step[v]
  BY DEF WorkInv, TypeOK, CallFunc
<1>6. TypeOK'
  <2>1. ran' \in [Jobs -> Nat]
    BY <1>1, <1>3 DEF WorkInv, TypeOK, CallFunc
  <2> QED BY <1>1, <2>1 DEF WorkInv, TypeOK, CallFunc
<1> HIDE DEF j
<1>7. HoldersInv'
  BY <1>1, <1>5 DEF WorkInv, HoldersInv
<1>8. OwnedAllocated' /\ OwnersDiffer' /\ AllOwned'
  BY <1>1 DEF WorkInv, OwnedAllocated, OwnersDiffer, AllOwned
<1>9. FunctorsInv'
  <2>1. \A i \in Jobs : ran'[i] \in {0, 1} /\ (job[i] # "accepted" => ran'[i] = 0)
    BY <1>1, <1>4 DEF WorkInv, FunctorsInv
  <2>2. ASSUME NEW c \in allocated, \A v \in Workers : self[v] = c => step'[v] = "call"
        PROVE  ran'[func[c]] = 0
    <3>1. c # b
      BY <1>5, <2>2
    <3>2. func[c] # j /\ func[c] \in Jobs
      BY <1>1, <3>1 DEF WorkInv, FunctorsInv, j
    <3>3. \A v \in Workers : self[v] = c => step[v] = "call"
      BY <1>5, <2>2, <3>1
    <3> QED BY <1>4, <3>2, <3>3 DEF WorkInv, FunctorsInv
  <2> QED BY <1>1, <2>1, <2>2 DEF WorkInv, FunctorsInv
<1> QED BY <1>6, <1>7, <1>8, <1>9 DEF WorkInv

\* kfree takes the block from its only owner.
LEMMA WorkFreed ==
  ASSUME WorkInv, NEW w \in Workers, FreeSelf(w)
  PROVE  WorkInv'
<1> DEFINE b == self[w]
<1>1. /\ b \in allocated /\ b # nullptr /\ allocated' = allocated \ {b}
      /\ UNCHANGED <<pc, work_item, job, func, queue, ran>>
  BY DEF WorkInv, HoldersInv, OwnedAllocated, FreeSelf, callerVars
<1>2. /\ self'[w] = nullptr /\ step'[w] = "idle"
      /\ \A v \in Workers \ {w} : self'[v] = self[v] /\ step'[v] = step[v]
  BY DEF WorkInv, TypeOK, FreeSelf
<1>3. TypeOK'
  BY DEF WorkInv, TypeOK, FreeSelf, callerVars
<1>4. \A k \in 1 .. Len(queue) : queue[k] # b /\ queue[k] # nullptr
  BY ConstantsAssumption DEF WorkInv, TypeOK, OwnedAllocated, OwnersDiffer
<1>5. /\ \A t \in Threads : work_item[t] # b
      /\ \A v \in Workers : v # w => self[v] # b
  BY <1>1 DEF WorkInv, OwnersDiffer
<1> HIDE DEF b
<1>6. HoldersInv'
  BY <1>1, <1>2 DEF WorkInv, HoldersInv
<1>7. OwnedAllocated'
  BY <1>1, <1>2, <1>4, <1>5 DEF WorkInv, OwnedAllocated
<1>8. OwnersDiffer'
  BY <1>1, <1>2, <1>4 DEF WorkInv, OwnersDiffer
<1>9. AllOwned'
  BY <1>1, <1>2, <1>4, <1>5 DEF WorkInv, AllOwned, b
<1>10. FunctorsInv'
  <2>1. ASSUME NEW c \in allocated', \A v \in Workers : self'[v] = c => step'[v] = "call"
        PROVE  ran[func[c]] = 0
    <3>1. c \in allocated /\ c # b
      BY <1>1, <2>1
    <3>2. \A v \in Workers : self[v] = c => step[v] = "call"
      BY <1>2, <2>1, <3>1 DEF b
    <3> QED BY <3>1, <3>2 DEF WorkInv, FunctorsInv
  <2> QED BY <1>1, <2>1 DEF WorkInv, FunctorsInv
<1> QED BY <1>3, <1>6, <1>7, <1>8, <1>9, <1>10 DEF WorkInv

\* Every step of the work queue.
LEMMA WorkNext == WorkInv /\ [Next]_vars => WorkInv'
<1> SUFFICES ASSUME WorkInv, [Next]_vars PROVE WorkInv'
  OBVIOUS
<1>1. ASSUME NEW t \in Threads, NEW j \in Jobs, MakeWork(t, j) PROVE WorkInv'
  <2>1. \/ /\ pc[t] = "idle" /\ job[j] = "new" /\ job' = [job EXCEPT ![j] = "dropped"]
           /\ UNCHANGED <<pc, work_item, allocated, func, queue, workerVars>>
        \/ \E b \in Blocks \ allocated :
             /\ pc[t] = "idle" /\ job[j] = "new"
             /\ allocated' = allocated \union {b} /\ func' = [func EXCEPT ![b] = j]
             /\ work_item' = [work_item EXCEPT ![t] = b] /\ pc' = [pc EXCEPT ![t] = "made"]
             /\ job' = [job EXCEPT ![j] = "accepted"] /\ UNCHANGED <<queue, workerVars>>
    BY <1>1, Zenon DEF MakeWork
  <2> QED BY <2>1, WorkDropped, WorkMade
<1>2. CASE UNCHANGED vars
  <2>1. UNCHANGED <<pc, work_item, allocated, func, queue, step, self, job, ran>>
    BY <1>2 DEF vars
  <2>2. TypeOK' /\ HoldersInv' /\ OwnedAllocated'
    BY <2>1 DEF WorkInv, TypeOK, HoldersInv, OwnedAllocated
  <2>3. OwnersDiffer' /\ AllOwned' /\ FunctorsInv'
    BY <2>1 DEF WorkInv, OwnersDiffer, AllOwned, FunctorsInv
  <2> QED BY <2>2, <2>3 DEF WorkInv
<1> QED BY <1>1, <1>2, WorkQueued, WorkReturned, WorkTaken, WorkCalled, WorkFreed DEF Next

------------------------------------------------------------------------------
(***************************************************************************)
(* Timer.  The owner deletes only a timer that is set up, and a callback   *)
(* that runs does so between setup and the end of the deletion.  While the *)
(* timer is queued, jiffies and expires differ by age - delay, up to a     *)
(* wraparound of one of them.                                              *)
(***************************************************************************)

ClockInv ==
  pending =>
    /\ delay \in Delays /\ age <= delay + MaxLate
    /\ \/ jiffies - expires = age - delay
       \/ jiffies - expires = age - delay + Modulus
       \/ jiffies - expires = age - delay - Modulus

TimerInv ==
  /\ NothingAfterDelete /\ ClockInv
  /\ deleting # "no" => life = "ready"

\* The remainders that the clock meets: one wraparound in either direction.
LEMMA Remainder ==
  ASSUME NEW M \in Nat \ {0}, NEW x \in Int
  PROVE  /\ 0 <= x /\ x < M => x % M = x
         /\ M <= x /\ x < 2 * M => x % M = x - M
         /\ -M <= x /\ x < 0 => x % M = x + M
<1>1. /\ x % M \in 0 .. M - 1 /\ x \div M \in Int
      /\ x = M * (x \div M) + (x % M)
  OBVIOUS
<1> DEFINE q == x \div M
           r == x % M
<1>2. r \in 0 .. M - 1 /\ q \in Int /\ x = M * q + r
  BY <1>1
<1> HIDE DEF q, r
<1>3. /\ q >= 2 => M * q >= 2 * M
      /\ q <= -2 => M * q <= -(2 * M)
      /\ q = 0 => M * q = 0
      /\ q = 1 => M * q = M
      /\ q = -1 => M * q = -M
  BY <1>2
<1>4. q >= 2 \/ q <= -2 \/ q = 0 \/ q = 1 \/ q = -1
  BY <1>2
<1>5. M * q \in Int
  BY <1>2
<1> DEFINE p == M * q
<1> HIDE DEF p
<1>6. /\ q >= 2 => p >= 2 * M
      /\ q <= -2 => p <= -(2 * M)
      /\ q = 0 => p = 0
      /\ q = 1 => p = M
      /\ q = -1 => p = -M
      /\ p \in Int /\ x = p + r
  BY <1>2, <1>3, <1>5 DEF p
<1>7. /\ 0 <= x /\ x < M => r = x
      /\ M <= x /\ x < 2 * M => r = x - M
      /\ -M <= x /\ x < 0 => r = x + M
  BY <1>2, <1>4, <1>6
<1> QED BY <1>7 DEF r

\* What the assumptions on the constants say of the clock.
LEMMA TimerConstants ==
  /\ Modulus \in Nat \ {0} /\ MaxLate \in Nat /\ MaxLate < Modulus \div 2
  /\ Modulus \div 2 \in Nat /\ Modulus = 2 * (Modulus \div 2)
  /\ Delays \subseteq 0 .. Modulus \div 2 - 1
BY PartsAssumption DEF T!ConstantsAssumption

\* Before setup no timer is armed.
LEMMA TimerInit == T!Init => TimerInv
<1> SUFFICES ASSUME T!Init PROVE TimerInv
  OBVIOUS
<1>1. 0 \in 0 .. Modulus - 1
  BY TimerConstants
<1>2. T!TypeOK
  BY <1>1 DEF T!Init, T!TypeOK
<1> QED BY <1>2 DEF T!Init, TimerInv, NothingAfterDelete, T!NothingAfterDestroy,
                    T!CancelStopsCallback, ClockInv

\* A timer that is queued now expires delay ticks later.
LEMMA TimerScheduled ==
  ASSUME TimerInv, NEW d \in Delays, T!mod_timer(d), life = "ready"
  PROVE  TimerInv'
<1> DEFINE H == Modulus \div 2
<1>1. /\ Modulus \in Nat \ {0} /\ MaxLate \in Nat /\ H \in Nat /\ Modulus = 2 * H
      /\ d \in 0 .. H - 1 /\ jiffies \in 0 .. Modulus - 1
  BY TimerConstants DEF TimerInv, NothingAfterDelete, T!TypeOK
<1> HIDE DEF H
<1>2. /\ pending' = TRUE /\ expires' = (jiffies + d) % Modulus /\ age' = 0 /\ delay' = d
      /\ quiet' = FALSE /\ UNCHANGED <<life, running, deleting, jiffies>>
  BY DEF T!mod_timer, T!Expires
<1>3. expires' = jiffies + d \/ expires' = jiffies + d - Modulus
  <2>1. jiffies + d \in Int /\ 0 <= jiffies + d /\ jiffies + d < 2 * Modulus
    BY <1>1
  <2> DEFINE x == jiffies + d
  <2> HIDE DEF x
  <2>2. /\ 0 <= x /\ x < Modulus => x % Modulus = x
        /\ Modulus <= x /\ x < 2 * Modulus => x % Modulus = x - Modulus
    <3>1. x \in Int
      BY <2>1 DEF x
    <3> QED BY <1>1, <3>1, Remainder
  <2>3. expires' = x % Modulus
    BY <1>2 DEF x
  <2>4. expires' = x \/ expires' = x - Modulus
    BY <1>1, <2>1, <2>2, <2>3 DEF x
  <2> QED BY <1>1, <2>4 DEF x
<1>4. expires' \in 0 .. Modulus - 1
  BY <1>1, <1>2
<1>5. NothingAfterDelete'
  <2>1. age' \in Nat /\ delay' \in Nat
    BY <1>1, <1>2
  <2>2. T!TypeOK'
    BY <1>2, <1>4, <2>1 DEF TimerInv, NothingAfterDelete, T!TypeOK
  <2> QED BY <1>2, <2>2 DEF NothingAfterDelete, T!NothingAfterDestroy, T!CancelStopsCallback
<1>6. ClockInv'
  BY <1>1, <1>2, <1>3 DEF ClockInv
<1> QED BY <1>2, <1>5, <1>6 DEF TimerInv

\* A tick moves jiffies and age together.
LEMMA TimerTicks == TimerInv /\ T!Tick => TimerInv'
<1> SUFFICES ASSUME TimerInv, T!Tick PROVE TimerInv'
  OBVIOUS
<1> DEFINE H == Modulus \div 2
<1>1. /\ Modulus \in Nat \ {0} /\ MaxLate \in Nat /\ H \in Nat /\ Modulus = 2 * H /\ MaxLate < H
      /\ Delays \subseteq 0 .. H - 1
  BY TimerConstants
<1> HIDE DEF H
<1>2. /\ jiffies \in 0 .. Modulus - 1 /\ expires \in 0 .. Modulus - 1 /\ age \in Nat /\ delay \in Nat
      /\ pending \in BOOLEAN
  BY DEF TimerInv, NothingAfterDelete, T!TypeOK
<1>3. /\ jiffies' = (jiffies + 1) % Modulus
      /\ pending => age < delay + MaxLate /\ age' = age + 1
      /\ ~pending => age' = age
      /\ UNCHANGED <<life, pending, expires, running, deleting, delay, quiet>>
  BY <1>2 DEF T!Tick
<1>4. /\ jiffies' = jiffies + 1 \/ jiffies' = jiffies + 1 - Modulus
      /\ jiffies' \in 0 .. Modulus - 1
  <2>1. jiffies + 1 \in Int /\ 0 <= jiffies + 1 /\ jiffies + 1 < 2 * Modulus
    BY <1>1, <1>2
  <2> DEFINE x == jiffies + 1
  <2> HIDE DEF x
  <2>2. jiffies' = x \/ jiffies' = x - Modulus
    <3>1. x \in Int
      BY <2>1 DEF x
    <3>2. /\ 0 <= x /\ x < Modulus => x % Modulus = x
          /\ Modulus <= x /\ x < 2 * Modulus => x % Modulus = x - Modulus
      BY <1>1, <3>1, Remainder
    <3>3. jiffies' = x % Modulus
      BY <1>3 DEF x
    <3> QED BY <1>1, <2>1, <3>2, <3>3 DEF x
  <2>3. jiffies' \in 0 .. Modulus - 1
    BY <1>1, <1>3, <2>1
  <2> QED BY <1>1, <1>2, <2>2, <2>3 DEF x
<1>5. age' \in Nat
  BY <1>2, <1>3
<1>6. NothingAfterDelete'
  BY <1>3, <1>4, <1>5 DEF TimerInv, NothingAfterDelete, T!TypeOK, T!NothingAfterDestroy, T!CancelStopsCallback
<1>7. ClockInv'
  <2> SUFFICES ASSUME pending'
               PROVE  /\ delay' \in Delays /\ age' <= delay' + MaxLate
                      /\ \/ jiffies' - expires' = age' - delay'
                         \/ jiffies' - expires' = age' - delay' + Modulus
                         \/ jiffies' - expires' = age' - delay' - Modulus
    BY DEF ClockInv
  <2>1. pending
    BY <1>3
  <2>2. delay \in 0 .. H - 1 /\ delay \in Delays
    BY <1>1, <2>1 DEF TimerInv, ClockInv
  <2>3. \/ jiffies - expires = age - delay
        \/ jiffies - expires = age - delay + Modulus
        \/ jiffies - expires = age - delay - Modulus
    BY <2>1 DEF TimerInv, ClockInv
  <2>4. age' = age + 1 /\ delay' = delay /\ expires' = expires /\ age < delay + MaxLate
    BY <1>3, <2>1
  <2>5. /\ age \in Int /\ delay \in Int /\ jiffies \in Int /\ expires \in Int /\ Modulus \in Int
        /\ age - delay < Modulus /\ jiffies < Modulus /\ expires < Modulus /\ jiffies >= 0
        /\ age + 1 <= delay + MaxLate
    BY <1>1, <1>2, <2>2, <2>4
  <2>6. CASE jiffies' = jiffies + 1
    <3>1. \/ (jiffies + 1) - expires = (age + 1) - delay
          \/ (jiffies + 1) - expires = (age + 1) - delay + Modulus
          \/ (jiffies + 1) - expires = (age + 1) - delay - Modulus
      BY <2>3, <2>5
    <3> QED BY <2>2, <2>4, <2>5, <2>6, <3>1
  <2>7. CASE jiffies' = jiffies + 1 - Modulus
    <3>1. \/ (jiffies + 1 - Modulus) - expires = (age + 1) - delay
          \/ (jiffies + 1 - Modulus) - expires = (age + 1) - delay - Modulus
      <4>1. jiffies - expires # age - delay - Modulus
        BY <1>4, <2>5, <2>7
      <4> QED BY <2>3, <2>5, <4>1
    <3> QED BY <2>2, <2>4, <2>5, <2>7, <3>1
  <2> QED BY <1>4, <2>6, <2>7
<1> QED BY <1>3, <1>6, <1>7 DEF TimerInv

\* Every step of the timer.
LEMMA TimerNext == TimerInv /\ [T!Next]_(T!vars) => TimerInv'
<1> SUFFICES ASSUME TimerInv, [T!Next]_(T!vars) PROVE TimerInv'
  OBVIOUS
<1> USE DEF TimerInv, NothingAfterDelete, T!TypeOK, T!NothingAfterDestroy, T!CancelStopsCallback,
            ClockInv
<1>1. CASE T!Construct
  BY <1>1 DEF T!Construct
<1>2. CASE T!setup
  BY <1>2 DEF T!setup, T!OwnerIdle
<1>3. CASE T!cancel \/ T!Destruct
  BY <1>3 DEF T!cancel, T!Destruct, T!Delete, T!OwnerIdle
<1>4. CASE T!DeleteReturns
  BY <1>4 DEF T!DeleteReturns, T!OwnerIdle, T!CallbackDone
<1>5. CASE T!Fire
  BY <1>5 DEF T!Fire
<1>6. CASE T!CallbackReturns
  BY <1>6 DEF T!CallbackReturns
<1>7. CASE UNCHANGED T!vars
  BY <1>7 DEF T!vars
<1>8. ASSUME NEW d \in Delays, T!schedule(d) \/ T!Rearm(d) PROVE TimerInv'
  <2>1. life = "ready" /\ T!mod_timer(d)
    BY <1>8 DEF T!schedule, T!Rearm
  <2> QED BY <2>1, TimerScheduled
<1> QED BY <1>1, <1>2, <1>3, <1>4, <1>5, <1>6, <1>7, <1>8, TimerTicks DEF T!Next

\* An expired timer is not early: age - delay is the signed difference.
LEMMA FiresLate ==
  ASSUME TimerInv, [T!Next]_(T!vars), ~running, running'
  PROVE  age >= delay
<1>1. T!Fire
  BY DEF T!Next, T!vars, T!Construct, T!setup, T!cancel, T!Destruct, T!Delete, T!DeleteReturns,
         T!Tick, T!CallbackReturns, T!schedule, T!Rearm, T!mod_timer
<1> DEFINE H == Modulus \div 2
<1>2. /\ Modulus \in Nat \ {0} /\ MaxLate \in Nat /\ H \in Nat /\ Modulus = 2 * H /\ MaxLate < H
      /\ Delays \subseteq 0 .. H - 1
  BY TimerConstants
<1>3. pending /\ (jiffies - expires) % Modulus < H
  BY <1>1 DEF T!Fire, T!TimeAfterEq
<1> HIDE DEF H
<1>4. /\ jiffies \in 0 .. Modulus - 1 /\ expires \in 0 .. Modulus - 1 /\ age \in Nat
      /\ delay \in 0 .. H - 1
      /\ \/ jiffies - expires = age - delay
         \/ jiffies - expires = age - delay + Modulus
         \/ jiffies - expires = age - delay - Modulus
  BY <1>2, <1>3 DEF TimerInv, NothingAfterDelete, T!TypeOK, ClockInv
<1> SUFFICES ASSUME age < delay PROVE FALSE
  BY <1>4
<1> DEFINE x == jiffies - expires
<1>5. x \in Int /\ -Modulus < x /\ x < Modulus /\ (x = age - delay \/ x = age - delay + Modulus)
  BY <1>2, <1>4
<1> HIDE DEF x
<1>6. x % Modulus = age - delay + Modulus
  <2>1. (0 <= x /\ x < Modulus => x % Modulus = x) /\ (-Modulus <= x /\ x < 0 => x % Modulus = x + Modulus)
    BY <1>2, <1>5, Remainder
  <2>2. x >= 0 => x = age - delay + Modulus
    BY <1>2, <1>4, <1>5
  <2>3. x < 0 => x = age - delay
    BY <1>2, <1>4, <1>5
  <2> QED BY <1>2, <1>4, <1>5, <2>1, <2>2, <2>3
<1> QED BY <1>2, <1>3, <1>4, <1>6 DEF x

------------------------------------------------------------------------------
(***************************************************************************)
(* MCSpec.  A step of the model is a step of one part, or leaves it alone. *)
(***************************************************************************)

\* A step of MCNext is one of the work queue, or leaves it alone.
LEMMA WorkStep == [MCNext]_mcVars => [Next]_vars
BY DEF MCNext, mcVars

\* A step of MCNext is one of the timer, or leaves it alone.
LEMMA TimerStep == [MCNext]_mcVars => [T!Next]_(T!vars)
BY DEF MCNext, mcVars, timerVars, T!vars

\* WorkQueue: for any number of callers, workers and blocks, an allocated block
\* has exactly one owner and a free one has none: schedule_work and the worker
\* never both free a block, and none is lost between them.
THEOREM OwnersInvHolds == MCSpec => []OwnersInv
<1>1. MCInit => WorkInv
  BY WorkInit DEF MCInit
<1>2. WorkInv /\ [MCNext]_mcVars => WorkInv'
  BY WorkStep, WorkNext
<1>3. WorkInv => OwnersInv
  BY WorkInvOneOwner DEF OwnersInv, WorkInv
<1> QED BY <1>1, <1>2, <1>3, PTL DEF MCSpec, mcVars

\* The safety half of RunsOnce: no functor is called twice, or called when its
\* allocation failed, although workers free blocks that callers then reuse.
RunsAtMostOnce == \A j \in Jobs : ran[j] <= IF job[j] = "accepted" THEN 1 ELSE 0

\* Whatever the workers free and the callers allocate in between, enqueue never
\* makes a functor run twice.
THEOREM RunsAtMostOnceHolds == MCSpec => []RunsAtMostOnce
<1>1. MCInit => WorkInv
  BY WorkInit DEF MCInit
<1>2. WorkInv /\ [MCNext]_mcVars => WorkInv'
  BY WorkStep, WorkNext
<1>3. WorkInv => RunsAtMostOnce
  BY DEF WorkInv, FunctorsInv, RunsAtMostOnce
<1> QED BY <1>1, <1>2, <1>3, PTL DEF MCSpec, mcVars

\* Timer: however the callback, which may rearm its timer, interleaves with
\* cancel and the destructor, none runs or is queued after they return.
THEOREM NothingAfterDeleteHolds == MCSpec => []NothingAfterDelete
<1>1. MCInit => TimerInv
  BY TimerInit DEF MCInit
<1>2. TimerInv /\ [MCNext]_mcVars => TimerInv'
  BY TimerStep, TimerNext
<1>3. TimerInv => NothingAfterDelete
  BY DEF TimerInv
<1> QED BY <1>1, <1>2, <1>3, PTL DEF MCSpec, mcVars

\* Timer: for a jiffies of any width, schedule(d) with a delay of less than half
\* its range never fires before d ticks have passed.
THEOREM NeverEarlyHolds == MCSpec => NeverEarly
<1> DEFINE Late == ~running /\ running' => age >= delay
<1>1. MCInit => TimerInv
  BY TimerInit DEF MCInit
<1>2. TimerInv /\ [MCNext]_mcVars => TimerInv'
  BY TimerStep, TimerNext
<1>3. TimerInv /\ [MCNext]_mcVars => [Late]_(T!vars)
  BY TimerStep, FiresLate
<1> HIDE DEF Late
<1>4. MCSpec => [][Late]_(T!vars)
  BY <1>1, <1>2, <1>3, PTL DEF MCSpec, mcVars
<1> QED BY <1>4 DEF NeverEarly, T!NeverEarly, Late
==============================================================================
