---------------------------- MODULE LibraryProofs ----------------------------
(***************************************************************************)
(* Proofs about the library classes: the invariants of MCLibrary hold for  *)
(* any number of objects, threads, units, workers, CPUs, counters, pages,  *)
(* slots and bytes.  The containers have a module of their own.            *)
(***************************************************************************)
EXTENDS MCLibrary, FiniteSetTheorems, SequenceTheorems, WellFoundedInduction, TLAPS

\* Every variable of the model.
mcVars == <<part, vars, ioctlVars, mapVars, listVars, semaphoreVars, completionVars, spinVars,
            perCpuVars, counterVars, pageVars, skbVars>>

\* The least element of a set of natural numbers.
LEMMA LeastNat ==
  ASSUME NEW T, T \subseteq Nat, T # {}
  PROVE  \E x \in T : \A y \in T : x <= y
<1> DEFINE R == OpToRel(<, Nat)
<1>1. IsWellFoundedOn(R, Nat)
  BY NatLessThanWellFounded
<1>2. \E x \in T : \A y \in T : ~ (<<y, x>> \in R)
  <2> HIDE DEF R
  <2> QED BY <1>1, WFMin
<1>3. ASSUME NEW x \in Nat, NEW y \in Nat, ~(<<y, x>> \in R) PROVE x <= y
  <2>1. ~(y < x)
    BY <1>3 DEF OpToRel
  <2> QED BY <2>1
<1> HIDE DEF R
<1> QED BY <1>2, <1>3

------------------------------------------------------------------------------
(***************************************************************************)
(* Sequences as queues: what Append, Tail and RemoveAt do to the set of    *)
(* the elements and to their being different.                              *)
(***************************************************************************)

\* s is a sequence without repetition of the elements of T.
Lists(s, T) ==
  /\ \A x \in T : \E k \in 1 .. Len(s) : s[k] = x
  /\ \A k \in 1 .. Len(s) : s[k] \in T
  /\ \A k, m \in 1 .. Len(s) : s[k] = s[m] => k = m

\* Append adds one element to what a list without repetition lists.
LEMMA AppendLists ==
  ASSUME NEW S, NEW s \in Seq(S), NEW T, Lists(s, T), NEW x \in S, x \notin T
  PROVE  Append(s, x) \in Seq(S) /\ Lists(Append(s, x), T \union {x})
<1>1. /\ Append(s, x) \in Seq(S) /\ Len(Append(s, x)) = Len(s) + 1 /\ Len(s) \in Nat
      /\ Append(s, x)[Len(s) + 1] = x
      /\ \A k \in 1 .. Len(s) : Append(s, x)[k] = s[k]
  OBVIOUS
<1> DEFINE r == Append(s, x)
<1> HIDE DEF r
<1>2. /\ r \in Seq(S) /\ Len(r) = Len(s) + 1 /\ Len(s) \in Nat /\ r[Len(s) + 1] = x
      /\ \A k \in 1 .. Len(s) : r[k] = s[k]
  BY <1>1 DEF r
<1>3. ASSUME NEW k \in 1 .. Len(s) + 1 PROVE k \in 1 .. Len(s) \/ k = Len(s) + 1
  BY <1>2
<1>4. \A y \in T \union {x} : \E k \in 1 .. Len(r) : r[k] = y
  BY <1>2 DEF Lists
<1>5. \A k \in 1 .. Len(r) : r[k] \in T \union {x}
  BY <1>2, <1>3 DEF Lists
<1>6. \A k, m \in 1 .. Len(r) : r[k] = r[m] => k = m
  BY <1>2, <1>3 DEF Lists
<1> QED BY <1>2, <1>4, <1>5, <1>6 DEF Lists, r

\* Tail takes the first element away.
LEMMA TailLists ==
  ASSUME NEW S, NEW s \in Seq(S), NEW T, Lists(s, T), s # <<>>
  PROVE  Tail(s) \in Seq(S) /\ Head(s) \in T /\ Head(s) = s[1] /\ Lists(Tail(s), T \ {Head(s)})
<1>1. /\ Tail(s) \in Seq(S) /\ Len(Tail(s)) = Len(s) - 1 /\ Len(s) \in Nat \ {0}
      /\ Head(s) = s[1] /\ \A k \in 1 .. Len(s) - 1 : Tail(s)[k] = s[k + 1]
  OBVIOUS
<1> DEFINE r == Tail(s)
<1> HIDE DEF r
<1>2. /\ r \in Seq(S) /\ Len(r) = Len(s) - 1 /\ Len(s) \in Nat \ {0}
      /\ \A k \in 1 .. Len(r) : k + 1 \in 1 .. Len(s) /\ k + 1 # 1 /\ r[k] = s[k + 1]
  BY <1>1 DEF r
<1>3. ASSUME NEW k \in 1 .. Len(s), k # 1 PROVE k - 1 \in 1 .. Len(r) /\ r[k - 1] = s[k]
  BY <1>2, <1>3
<1>4. 1 \in 1 .. Len(s)
  BY <1>1
<1>5. \A y \in T \ {s[1]} : \E k \in 1 .. Len(r) : r[k] = y
  BY <1>3 DEF Lists
<1>6. \A k \in 1 .. Len(r) : r[k] \in T \ {s[1]}
  BY <1>2, <1>4 DEF Lists
<1>7. \A k, m \in 1 .. Len(r) : r[k] = r[m] => k = m
  BY <1>2 DEF Lists
<1>8. s[1] \in T
  BY <1>4 DEF Lists
<1> QED BY <1>1, <1>2, <1>5, <1>6, <1>7, <1>8 DEF Lists, r

\* The sequence without its element at q.
LEMMA RemoveLists ==
  ASSUME NEW S, NEW s \in Seq(S), NEW T, Lists(s, T), NEW q \in 1 .. Len(s)
  PROVE  LET r == SubSeq(s, 1, q - 1) \o SubSeq(s, q + 1, Len(s))
         IN  r \in Seq(S) /\ Lists(r, T \ {s[q]})
<1> DEFINE a == SubSeq(s, 1, q - 1)
           b == SubSeq(s, q + 1, Len(s))
           r == a \o b
<1>1. Len(s) \in Nat /\ q \in Nat
  OBVIOUS
<1>2. a \in Seq(S) /\ Len(a) = q - 1 /\ \A k \in 1 .. q - 1 : a[k] = s[k]
  <2>1. \A k \in 1 .. q - 1 : s[k] \in S
    BY <1>1, ElementOfSeq
  <2>2. /\ a \in Seq(S) /\ Len(a) = IF 1 <= q - 1 THEN q - 1 - 1 + 1 ELSE 0
        /\ \A k \in 1 .. q - 1 - 1 + 1 : a[k] = s[1 + k - 1]
    BY <1>1, <2>1, SubSeqProperties
  <2> HIDE DEF a
  <2> QED BY <1>1, <2>2
<1>3. b \in Seq(S) /\ Len(b) = Len(s) - q /\ \A k \in 1 .. Len(s) - q : b[k] = s[q + k]
  <2>1. \A k \in q + 1 .. Len(s) : s[k] \in S
    BY <1>1, ElementOfSeq
  <2>2. /\ b \in Seq(S) /\ Len(b) = IF q + 1 <= Len(s) THEN Len(s) - (q + 1) + 1 ELSE 0
        /\ \A k \in 1 .. Len(s) - (q + 1) + 1 : b[k] = s[q + 1 + k - 1]
    BY <1>1, <2>1, SubSeqProperties
  <2> HIDE DEF b
  <2> QED BY <1>1, <2>2
<1> HIDE DEF a, b
<1>4. /\ r \in Seq(S) /\ Len(r) = Len(s) - 1
      /\ \A k \in 1 .. Len(s) - 1 : r[k] = IF k < q THEN s[k] ELSE s[k + 1]
  <2>1. /\ r \in Seq(S) /\ Len(r) = Len(a) + Len(b)
        /\ \A k \in 1 .. Len(a) + Len(b) : r[k] = IF k <= Len(a) THEN a[k] ELSE b[k - Len(a)]
    BY <1>2, <1>3, ConcatProperties
  <2> HIDE DEF r
  <2>2. Len(a) + Len(b) = Len(s) - 1
    BY <1>1, <1>2, <1>3
  <2>3. ASSUME NEW k \in 1 .. Len(s) - 1 PROVE r[k] = IF k < q THEN s[k] ELSE s[k + 1]
    <3>1. CASE k < q
      BY <1>1, <1>2, <2>1, <2>2, <3>1
    <3>2. CASE ~(k < q)
      <4>1. k - Len(a) \in 1 .. Len(s) - q /\ q + (k - Len(a)) = k + 1 /\ ~(k <= Len(a))
        BY <1>1, <1>2, <3>2
      <4> QED BY <1>3, <2>1, <2>2, <3>2, <4>1
    <3> QED BY <3>1, <3>2
  <2> QED BY <2>1, <2>2, <2>3
<1> HIDE DEF r
<1>5. ASSUME NEW k \in 1 .. Len(r)
      PROVE  \E m \in 1 .. Len(s) : m # q /\ r[k] = s[m] /\ (m < q => k = m) /\ (m > q => k = m - 1)
  <2>1. CASE k < q
    BY <1>1, <1>4, <2>1
  <2>2. CASE ~(k < q)
    BY <1>1, <1>4, <2>2
  <2> QED BY <2>1, <2>2
<1>6. ASSUME NEW m \in 1 .. Len(s), m # q PROVE \E k \in 1 .. Len(r) : r[k] = s[m]
  <2>1. CASE m < q
    BY <1>1, <1>4, <2>1
  <2>2. CASE m > q
    <3>1. m - 1 \in 1 .. Len(s) - 1 /\ ~(m - 1 < q) /\ (m - 1) + 1 = m
      BY <1>1, <2>2
    <3> QED BY <1>4, <3>1
  <2> QED BY <1>1, <1>6, <2>1, <2>2
<1>7. \A x \in T \ {s[q]} : \E k \in 1 .. Len(r) : r[k] = x
  BY <1>6 DEF Lists
<1>8. \A k \in 1 .. Len(r) : r[k] \in T \ {s[q]}
  BY <1>5 DEF Lists
<1>9. ASSUME NEW k \in 1 .. Len(r), NEW n \in 1 .. Len(r), r[k] = r[n] PROVE k = n
  <2>1. PICK m \in 1 .. Len(s) : m # q /\ r[k] = s[m] /\ (m < q => k = m) /\ (m > q => k = m - 1)
    BY <1>5
  <2>2. PICK w \in 1 .. Len(s) : w # q /\ r[n] = s[w] /\ (w < q => n = w) /\ (w > q => n = w - 1)
    BY <1>5
  <2>3. m = w
    BY <1>9, <2>1, <2>2 DEF Lists
  <2> QED BY <1>1, <2>1, <2>2, <2>3
<1> QED BY <1>4, <1>7, <1>8, <1>9 DEF Lists, r, a, b

------------------------------------------------------------------------------
(***************************************************************************)
(* Expected.  The invariant of the run is inductive: that destructors and  *)
(* moves use the right member needs MembersMatchFlag, and that giving back *)
(* owned[x] leaves no other owner of it needs ResourceHasOneOwner.         *)
(***************************************************************************)

\* The initial state, in which no Expected lives, satisfies the invariant.
LEMMA ExpectedInit == Init => LifetimesInv
  BY ConstantsAssumption DEF Init, LifetimesInv, TypeOK, MembersMatchFlag, ResourceHasOneOwner

\* What ~Expected does to the members and the resources of x, given the
\* invariant.
LEMMA DestroyedEffect ==
  ASSUME LifetimesInv, NEW x \in alive
  PROVE  /\ Destroyed(x).values = values \ {x}
         /\ Destroyed(x).errors = errors \ {x}
         /\ Destroyed(x).held = IF x \in values THEN held \ {owned[x]} ELSE held
  BY DEF Destroyed, LifetimesInv, TypeOK, MembersMatchFlag

\* Every step preserves the invariant: constructors, destructor and moves.
LEMMA ExpectedNext == LifetimesInv /\ [Next]_vars => LifetimesInv'
<1> SUFFICES ASSUME LifetimesInv, [Next]_vars PROVE LifetimesInv'
  OBVIOUS
<1> USE ConstantsAssumption
<1>1. ASSUME NEW x \in Slots, NEW r \in Resources, FromValue(x, r) PROVE LifetimesInv'
  <2>1. TypeOK'
    BY <1>1 DEF FromValue, LifetimesInv, TypeOK
  <2>2. MembersMatchFlag'
    BY <1>1 DEF FromValue, LifetimesInv, TypeOK, MembersMatchFlag
  <2>3. ResourceHasOneOwner'
    <3>1. x \notin values
      BY <1>1 DEF FromValue, LifetimesInv, MembersMatchFlag
    <3> QED BY <1>1, <3>1 DEF FromValue, LifetimesInv, TypeOK, ResourceHasOneOwner
  <2> QED BY <2>1, <2>2, <2>3 DEF LifetimesInv
<1>2. ASSUME NEW x \in Slots, FromError(x) PROVE LifetimesInv'
  <2>1. TypeOK'
    BY <1>2 DEF FromError, LifetimesInv, TypeOK
  <2>2. MembersMatchFlag'
    BY <1>2 DEF FromError, LifetimesInv, TypeOK, MembersMatchFlag
  <2>3. ResourceHasOneOwner'
    BY <1>2 DEF FromError, LifetimesInv, ResourceHasOneOwner
  <2> QED BY <2>1, <2>2, <2>3 DEF LifetimesInv
<1>3. ASSUME NEW x \in Slots, Destruct(x) PROVE LifetimesInv'
  <2>1. /\ values' = values \ {x} /\ errors' = errors \ {x}
        /\ held' = IF x \in values THEN held \ {owned[x]} ELSE held
    BY <1>3, DestroyedEffect DEF Destruct
  <2>2. TypeOK' /\ MembersMatchFlag'
    BY <1>3, <2>1 DEF Destruct, LifetimesInv, TypeOK, MembersMatchFlag
  <2>3. ResourceHasOneOwner'
    BY <1>3, <2>1 DEF Destruct, LifetimesInv, TypeOK, MembersMatchFlag, ResourceHasOneOwner
  <2> QED BY <2>2, <2>3 DEF LifetimesInv
<1>4. ASSUME NEW x \in Slots, NEW y \in Slots, MoveConstruct(x, y) PROVE LifetimesInv'
  <2>1. TypeOK' /\ MembersMatchFlag'
    BY <1>4 DEF MoveConstruct, Moved, LifetimesInv, TypeOK, MembersMatchFlag
  <2>2. ResourceHasOneOwner'
    BY <1>4 DEF MoveConstruct, Moved, LifetimesInv, TypeOK, MembersMatchFlag, ResourceHasOneOwner
  <2> QED BY <2>1, <2>2 DEF LifetimesInv
<1>5. ASSUME NEW x \in Slots, NEW y \in Slots, MoveAssign(x, y) PROVE LifetimesInv'
  <2>1. /\ x \in alive /\ y \in alive /\ x # y
        /\ Moved(x, y, values \ {x}, errors \ {x})
        /\ held' = IF x \in values THEN held \ {owned[x]} ELSE held
        /\ alive' = alive
    BY <1>5, DestroyedEffect DEF MoveAssign, NotSelf
  <2>2. TypeOK' /\ MembersMatchFlag'
    BY <2>1 DEF Moved, LifetimesInv, TypeOK, MembersMatchFlag
  <2>3. ResourceHasOneOwner'
    BY <2>1 DEF Moved, LifetimesInv, TypeOK, MembersMatchFlag, ResourceHasOneOwner
  <2> QED BY <2>2, <2>3 DEF LifetimesInv
<1>6. CASE UNCHANGED vars
  BY <1>6 DEF vars, LifetimesInv, TypeOK, MembersMatchFlag, ResourceHasOneOwner
<1> QED BY <1>1, <1>2, <1>3, <1>4, <1>5, <1>6 DEF Next

------------------------------------------------------------------------------
(***************************************************************************)
(* Semaphore.  The invariant of the run is inductive: a unit moves between *)
(* count and the threads that have been handed one, and the wait list is   *)
(* the set of the waiting threads in some order.                           *)
(***************************************************************************)

\* The module reaches FiniteSets through an instance; its operators are the
\* same as those of the theorems on finite sets.
LEMMA SemFinite == ASSUME NEW S PROVE Sem!IsFiniteSet(S) <=> IsFiniteSet(S)
BY DEF Sem!IsFiniteSet, IsFiniteSet

\* The instance's Cardinality is the one of FiniteSets.
LEMMA SemCardinality == ASSUME NEW S PROVE Sem!Cardinality(S) = Cardinality(S)
BY SemFinite DEF Sem!Cardinality, Cardinality

Taken(s) == {t \in Threads : s[t] \in {"granted", "holding"}}
Asleep(s) == {t \in Threads : s[t] = "waiting"}

SemInv ==
  /\ count \in 0 .. Count /\ wait_list \in Seq(Threads)
  /\ how \in [Threads -> Sem!Calls]
  /\ state \in [Threads -> {"idle", "waiting", "granted", "holding"}]
  /\ count + Cardinality(Taken(state)) = Count
  /\ wait_list # <<>> => count = 0
  /\ Lists(wait_list, Asleep(state))

\* SemInv is what NoLostWakeup says of the semaphore.
LEMMA SemInvIsProperty == SemInv <=> Sem!TypeOK /\ Sem!UnitsConserved /\ Sem!NoLostWakeup
<1>1. Sem!UnitsConserved <=> count + Cardinality(Taken(state)) = Count
  BY SemCardinality DEF Sem!UnitsConserved, Taken
<1>2. ASSUME wait_list \in Seq(Threads)
      PROVE  (Sem!ToSet(wait_list) = Asleep(state) /\ Sem!IsInjective(wait_list))
               <=> Lists(wait_list, Asleep(state))
  <2>1. DOMAIN wait_list = 1 .. Len(wait_list)
    BY <1>2
  <2>2. Sem!ToSet(wait_list) = {wait_list[k] : k \in 1 .. Len(wait_list)}
    BY <2>1 DEF Sem!ToSet
  <2>3. Sem!IsInjective(wait_list)
          <=> \A k, m \in 1 .. Len(wait_list) : wait_list[k] = wait_list[m] => k = m
    BY <2>1 DEF Sem!IsInjective
  <2>4. {wait_list[k] : k \in 1 .. Len(wait_list)} = Asleep(state)
          <=> /\ \A x \in Asleep(state) : \E k \in 1 .. Len(wait_list) : wait_list[k] = x
              /\ \A k \in 1 .. Len(wait_list) : wait_list[k] \in Asleep(state)
    OBVIOUS
  <2> QED BY <2>2, <2>3, <2>4 DEF Lists
<1> QED BY <1>1, <1>2 DEF SemInv, Sem!TypeOK, Sem!NoLostWakeup, Asleep

\* The threads with a unit are finitely many.
LEMMA TakenFinite ==
  ASSUME NEW s PROVE IsFiniteSet(Taken(s)) /\ Cardinality(Taken(s)) \in Nat
<1>1. IsFiniteSet(Threads)
  BY PartsAssumption, SemFinite DEF Sem!ConstantsAssumption
<1>2. IsFiniteSet(Taken(s))
  BY <1>1, FS_Subset DEF Taken
<1> QED BY <1>2, FS_CardinalityType

\* The number of units taken changes only by the thread that takes or gives
\* one.
LEMMA TakenGrows ==
  ASSUME NEW s, NEW r, NEW t \in Threads, t \notin Taken(s), Taken(r) = Taken(s) \union {t}
  PROVE  Cardinality(Taken(r)) = Cardinality(Taken(s)) + 1
BY TakenFinite, FS_AddElement

\* A thread that gives its unit back is one fewer.
LEMMA TakenShrinks ==
  ASSUME NEW s, NEW r, NEW t \in Threads, t \in Taken(s), Taken(r) = Taken(s) \ {t}
  PROVE  Cardinality(Taken(r)) = Cardinality(Taken(s)) - 1
BY TakenFinite, FS_RemoveElement

\* The constructor: every unit is free.
LEMMA SemInit == Sem!Init => SemInv
<1> SUFFICES ASSUME Sem!Init PROVE SemInv
  OBVIOUS
<1>1. Taken(state) = {} /\ Asleep(state) = {}
  BY DEF Sem!Init, Taken, Asleep
<1>2. Count \in Nat
  BY PartsAssumption DEF Sem!ConstantsAssumption
<1>3. Cardinality(Taken(state)) = 0
  BY <1>1, FS_EmptySet
<1>4. Lists(wait_list, Asleep(state)) /\ wait_list = <<>> /\ wait_list \in Seq(Threads)
  BY <1>1 DEF Sem!Init, Lists
<1>5. /\ how \in [Threads -> Sem!Calls]
      /\ state \in [Threads -> {"idle", "waiting", "granted", "holding"}] /\ count = Count
  BY DEF Sem!Init, Sem!Calls
<1> QED BY <1>2, <1>3, <1>4, <1>5 DEF SemInv

\* A call to down, down_interruptible or down_timeout takes a unit or queues.
LEMMA SemEnter ==
  ASSUME SemInv, NEW t \in Threads, NEW c \in Sem!Calls, Sem!Enter(t, c)
  PROVE  SemInv'
<1>1. /\ count \in Nat /\ Count \in Nat /\ count <= Count /\ state[t] = "idle"
      /\ how' \in [Threads -> Sem!Calls]
  BY PartsAssumption DEF Sem!ConstantsAssumption, SemInv, Sem!Enter
<1>2. t \notin Taken(state) /\ t \notin Asleep(state)
  BY <1>1 DEF Taken, Asleep
<1>3. CASE /\ count > 0 /\ count' = count - 1
           /\ state' = [state EXCEPT ![t] = "holding"] /\ wait_list' = wait_list
  <2>1. state' \in [Threads -> {"idle", "waiting", "granted", "holding"}]
    BY <1>3 DEF SemInv
  <2>2. Taken(state') = Taken(state) \union {t} /\ Asleep(state') = Asleep(state)
    BY <1>1, <1>3 DEF SemInv, Taken, Asleep
  <2>3. Cardinality(Taken(state')) = Cardinality(Taken(state)) + 1
    BY <1>2, <2>2, TakenGrows
  <2>4. count' \in 0 .. Count /\ count' + Cardinality(Taken(state')) = Count
    BY <1>1, <1>3, <2>3, TakenFinite DEF SemInv
  <2>5. wait_list = <<>>
    BY <1>1, <1>3 DEF SemInv
  <2> QED BY <1>1, <1>3, <2>1, <2>2, <2>4, <2>5 DEF SemInv
<1>4. CASE /\ count = 0 /\ count' = count
           /\ state' = [state EXCEPT ![t] = "waiting"] /\ wait_list' = Append(wait_list, t)
  <2>1. state' \in [Threads -> {"idle", "waiting", "granted", "holding"}]
    BY <1>4 DEF SemInv
  <2>2. Taken(state') = Taken(state) /\ Asleep(state') = Asleep(state) \union {t}
    BY <1>1, <1>4 DEF SemInv, Taken, Asleep
  <2>3. wait_list' \in Seq(Threads) /\ Lists(wait_list', Asleep(state'))
    <3>1. wait_list \in Seq(Threads) /\ Lists(wait_list, Asleep(state))
      BY DEF SemInv
    <3>2. /\ Append(wait_list, t) \in Seq(Threads)
          /\ Lists(Append(wait_list, t), Asleep(state) \union {t})
      BY <1>2, <3>1, AppendLists, Zenon
    <3> QED BY <1>4, <2>2, <3>2
  <2> QED BY <1>1, <1>4, <2>1, <2>2, <2>3 DEF SemInv
<1> QED BY <1>3, <1>4 DEF Sem!Enter

\* A call returns with its unit.
LEMMA SemReturnZero ==
  ASSUME SemInv, NEW t \in Threads, Sem!ReturnZero(t)
  PROVE  SemInv'
<1>1. state' \in [Threads -> {"idle", "waiting", "granted", "holding"}]
  BY DEF SemInv, Sem!ReturnZero
<1>2. Taken(state') = Taken(state) /\ Asleep(state') = Asleep(state)
  BY DEF SemInv, Taken, Asleep, Sem!ReturnZero
<1>3. count' = count /\ wait_list' = wait_list /\ how' = how
  BY DEF Sem!ReturnZero
<1> QED BY <1>1, <1>2, <1>3 DEF SemInv

\* A signal or the timeout ends a wait: the thread leaves the queue.
LEMMA SemReturnError ==
  ASSUME SemInv, NEW t \in Threads, Sem!ReturnError(t)
  PROVE  SemInv'
<1>1. state' \in [Threads -> {"idle", "waiting", "granted", "holding"}]
  BY DEF SemInv, Sem!ReturnError
<1>2. Taken(state') = Taken(state) /\ Asleep(state') = Asleep(state) \ {t}
  BY DEF SemInv, Taken, Asleep, Sem!ReturnError
<1>3. count' = count /\ how' = how
  BY DEF Sem!ReturnError
<1>4. PICK q \in DOMAIN wait_list : wait_list[q] = t /\ wait_list' = Sem!RemoveAt(wait_list, q)
  BY DEF Sem!ReturnError
<1>5. q \in 1 .. Len(wait_list)
  BY <1>4 DEF SemInv
<1>6. wait_list' \in Seq(Threads) /\ Lists(wait_list', Asleep(state) \ {t})
  BY <1>4, <1>5, RemoveLists DEF SemInv, Sem!RemoveAt
<1>7. wait_list # <<>>
  BY <1>5 DEF SemInv
<1> QED BY <1>1, <1>2, <1>3, <1>6, <1>7 DEF SemInv

\* up hands the unit to the thread that waits longest, or puts it back.
LEMMA SemUp ==
  ASSUME SemInv, NEW t \in Threads, Sem!up(t)
  PROVE  SemInv'
<1>1. /\ count \in Nat /\ Count \in Nat /\ count <= Count /\ state[t] = "holding"
      /\ how' = how /\ t \in Taken(state) /\ t \notin Asleep(state)
  BY PartsAssumption DEF Sem!ConstantsAssumption, SemInv, Sem!up, Taken, Asleep
<1>2. CASE wait_list = <<>>
  <2>1. /\ count' = count + 1 /\ state' = [state EXCEPT ![t] = "idle"] /\ wait_list' = wait_list
    BY <1>2 DEF Sem!up
  <2>2. state' \in [Threads -> {"idle", "waiting", "granted", "holding"}]
    BY <2>1 DEF SemInv
  <2>3. Taken(state') = Taken(state) \ {t} /\ Asleep(state') = Asleep(state)
    BY <1>1, <2>1 DEF SemInv, Taken, Asleep
  <2>4. Cardinality(Taken(state')) = Cardinality(Taken(state)) - 1
    BY <1>1, <2>3, TakenShrinks
  <2>5. count' \in 0 .. Count /\ count' + Cardinality(Taken(state')) = Count
    BY <1>1, <2>1, <2>4, TakenFinite DEF SemInv
  <2> QED BY <1>1, <1>2, <2>1, <2>2, <2>3, <2>5 DEF SemInv
<1>3. CASE wait_list # <<>>
  <2> DEFINE h == Head(wait_list)
  <2>1. wait_list' \in Seq(Threads) /\ h \in Asleep(state) /\ Lists(wait_list', Asleep(state) \ {h})
    <3>1. wait_list \in Seq(Threads) /\ Lists(wait_list, Asleep(state))
      BY DEF SemInv
    <3>2. wait_list' = Tail(wait_list)
      BY <1>3 DEF Sem!up
    <3>3. /\ Tail(wait_list) \in Seq(Threads) /\ Head(wait_list) \in Asleep(state)
          /\ Lists(Tail(wait_list), Asleep(state) \ {Head(wait_list)})
      BY <1>3, <3>1, TailLists, Zenon
    <3> QED BY <3>2, <3>3
  <2> HIDE DEF h
  <2>2. h \in Threads /\ h # t /\ state[h] = "waiting" /\ h \notin Taken(state)
    BY <1>1, <2>1 DEF Asleep, Taken
  <2>3. count' = count /\ state' = [state EXCEPT ![t] = "idle", ![h] = "granted"]
    BY <1>3 DEF Sem!up, h
  <2>4. state' \in [Threads -> {"idle", "waiting", "granted", "holding"}]
    BY <2>3 DEF SemInv
  <2>5. Taken(state') = (Taken(state) \ {t}) \union {h} /\ Asleep(state') = Asleep(state) \ {h}
    BY <1>1, <2>2, <2>3 DEF SemInv, Taken, Asleep
  <2>6. Cardinality(Taken(state')) = Cardinality(Taken(state))
    <3>1. /\ IsFiniteSet(Taken(state) \ {t})
          /\ Cardinality(Taken(state) \ {t}) = Cardinality(Taken(state)) - 1
      BY <1>1, TakenFinite, FS_RemoveElement
    <3>2. h \notin Taken(state) \ {t}
      BY <2>2
    <3>3. Cardinality(Taken(state')) = Cardinality(Taken(state) \ {t}) + 1
      BY <2>5, <3>1, <3>2, FS_AddElement
    <3> QED BY <3>1, <3>3, TakenFinite
  <2> QED BY <1>1, <1>3, <2>1, <2>3, <2>4, <2>5, <2>6 DEF SemInv
<1> QED BY <1>2, <1>3

\* Every step of the semaphore.
LEMMA SemNext == SemInv /\ [Sem!Next]_(Sem!vars) => SemInv'
<1> SUFFICES ASSUME SemInv, [Sem!Next]_(Sem!vars) PROVE SemInv'
  OBVIOUS
<1>1. ASSUME NEW t \in Threads, Sem!down(t) \/ Sem!down_interruptible(t) \/ Sem!down_killable(t)
                                  \/ Sem!down_timeout(t)
      PROVE  SemInv'
  BY <1>1, SemEnter
     DEF Sem!down, Sem!down_interruptible, Sem!down_killable, Sem!down_timeout, Sem!Calls
<1>2. CASE UNCHANGED Sem!vars
  BY <1>2 DEF SemInv, Sem!vars
<1> QED BY <1>1, <1>2, SemReturnZero, SemReturnError, SemUp DEF Sem!Next

------------------------------------------------------------------------------
(***************************************************************************)
(* Completion.  That nobody uses the object after its scope needs a count: *)
(* in a "jobs" use the calls of complete that were not waited for and the  *)
(* workers still to call add up to the waits that the owner has left, and  *)
(* a worker inside of complete is one of those calls.                      *)
(***************************************************************************)

\* The instance's IsFiniteSet is the one of FiniteSets.
LEMMA ComFinite == ASSUME NEW S PROVE Com!IsFiniteSet(S) <=> IsFiniteSet(S)
BY DEF Com!IsFiniteSet, IsFiniteSet

\* The instance's Cardinality is the one of FiniteSets.
LEMMA ComCardinality == ASSUME NEW S PROVE Com!Cardinality(S) = Cardinality(S)
BY ComFinite DEF Com!Cardinality, Cardinality

ComInv ==
  /\ use \in {"jobs", "event"} /\ exists \in BOOLEAN
  /\ done \in Nat /\ done <= Com!All /\ lock \in Workers \union {none}
  /\ todo \subseteq Workers /\ left \in [Waiters -> 0 .. Cardinality(Workers)]
  /\ use = "jobs" => /\ done + Cardinality(todo) = left[owner]
                     /\ \A t \in Waiters \ {owner} : left[t] = 0
                     /\ lock # none => done > 0
  /\ use = "event" => exists /\ done \in {0, Com!All}
  /\ ~exists => left[owner] = 0

\* What the assumptions on the constants say of the completion.
LEMMA ComConstants ==
  /\ IsFiniteSet(Workers) /\ Cardinality(Workers) \in Nat /\ owner \in Waiters /\ none \notin Workers
  /\ Com!All = Cardinality(Workers) + 1 /\ Com!All \in Nat
<1>1. IsFiniteSet(Workers) /\ owner \in Waiters /\ none \notin Workers
  BY PartsAssumption, ComFinite DEF Com!ConstantsAssumption
<1>2. Cardinality(Workers) \in Nat
  BY <1>1, FS_CardinalityType
<1>3. Com!All = Cardinality(Workers) + 1
  BY ComCardinality DEF Com!All
<1> QED BY <1>1, <1>2, <1>3

\* The workers that have still to complete are finitely many.
LEMMA TodoFinite ==
  ASSUME NEW S \in SUBSET Workers
  PROVE  IsFiniteSet(S) /\ Cardinality(S) \in Nat /\ Cardinality(S) <= Cardinality(Workers)
BY ComConstants, FS_Subset, FS_CardinalityType

\* ComInv is strong enough.
LEMMA ComInvImplies == ComInv => Com!TypeOK /\ Com!NotUsedAfterScope
<1> SUFFICES ASSUME ComInv PROVE Com!TypeOK /\ Com!NotUsedAfterScope
  OBVIOUS
<1>1. done \in 0 .. Com!All /\ left \in [Waiters -> 0 .. Com!Cardinality(Workers)]
  BY ComConstants, ComCardinality DEF ComInv
<1>2. Com!TypeOK
  BY <1>1 DEF ComInv, Com!TypeOK
<1>3. ASSUME ~exists PROVE lock = none /\ todo = {}
  <2>1. use = "jobs" /\ done + Cardinality(todo) = 0 /\ done \in Nat
    BY <1>3 DEF ComInv
  <2>2. IsFiniteSet(todo) /\ Cardinality(todo) \in Nat
    BY TodoFinite DEF ComInv
  <2>3. done = 0 /\ Cardinality(todo) = 0
    BY <2>1, <2>2
  <2> QED BY <2>1, <2>2, <2>3, FS_EmptySet DEF ComInv
<1> QED BY <1>2, <1>3 DEF Com!NotUsedAfterScope

\* The constructor: nothing is done, every worker has still to complete.
LEMMA ComInit == Com!Init => ComInv
<1> SUFFICES ASSUME Com!Init PROVE ComInv
  OBVIOUS
<1>1. exists = TRUE /\ done = 0 /\ lock = none
  BY DEF Com!Init
<1>2. CASE /\ use = "jobs" /\ todo \in SUBSET Workers \ {{}}
           /\ left = [t \in Waiters |-> IF t = owner THEN Com!Cardinality(todo) ELSE 0]
  <2>1. left[owner] = Cardinality(todo) /\ \A t \in Waiters \ {owner} : left[t] = 0
    BY <1>2, ComConstants, ComCardinality
  <2>2. todo \subseteq Workers
    BY <1>2
  <2>3. left \in [Waiters -> 0 .. Cardinality(Workers)] /\ Cardinality(todo) \in Nat
    BY <1>2, <2>2, ComConstants, ComCardinality, TodoFinite
  <2> QED BY <1>1, <1>2, <2>1, <2>2, <2>3, ComConstants DEF ComInv
<1>3. CASE /\ use = "event" /\ todo \in {{w} : w \in Workers} /\ left = [t \in Waiters |-> 1]
  <2>1. PICK w \in Workers : todo = {w}
    BY <1>3
  <2>2. Cardinality(Workers) >= 1
    <3>1. Cardinality(Workers) # 0
      BY ComConstants, FS_EmptySet
    <3> QED BY <3>1, ComConstants
  <2>3. left \in [Waiters -> 0 .. Cardinality(Workers)]
    BY <1>3, <2>2, ComConstants
  <2> QED BY <1>1, <1>3, <2>1, <2>3, ComConstants DEF ComInv
<1> QED BY <1>2, <1>3 DEF Com!Init

\* complete wakes one waiter or leaves one unit.
LEMMA ComComplete ==
  ASSUME ComInv, NEW w \in Workers, Com!complete(w)
  PROVE  ComInv'
<1>1. /\ use = "jobs" /\ w \in todo /\ done' = done + 1 /\ lock' = w /\ todo' = todo \ {w}
      /\ use' = use /\ exists' = exists /\ left' = left
  BY DEF Com!complete
<1>2. IsFiniteSet(todo) /\ Cardinality(todo) \in Nat
  BY TodoFinite DEF ComInv
<1>3. Cardinality(todo') = Cardinality(todo) - 1
  BY <1>1, <1>2, FS_RemoveElement
<1>4. done \in Nat /\ left[owner] \in 0 .. Cardinality(Workers)
  BY ComConstants DEF ComInv
<1>5. todo' \subseteq Workers
  BY <1>1 DEF ComInv
<1>5a. Cardinality(todo') \in Nat
  BY <1>5, TodoFinite
<1>6. done' \in Nat /\ done' > 0 /\ done' + Cardinality(todo') = left[owner] /\ done' <= Com!All
  <2>1. done + Cardinality(todo) = left[owner]
    BY <1>1 DEF ComInv
  <2> QED BY <1>1, <1>2, <1>3, <1>4, <1>5a, <2>1, ComConstants
<1> QED BY <1>1, <1>5, <1>6 DEF ComInv

\* complete_all lets every wait through from then on.
LEMMA ComCompleteAll ==
  ASSUME ComInv, NEW w \in Workers, Com!complete_all(w)
  PROVE  ComInv'
<1>1. /\ use = "event" /\ done' = Com!All /\ lock' = w /\ todo' = todo \ {w}
      /\ use' = use /\ exists' = exists /\ left' = left
  BY DEF Com!complete_all
<1> QED BY <1>1, ComConstants DEF ComInv

\* A wait begins, or finds a unit.
LEMMA ComWait ==
  ASSUME ComInv, NEW t \in Waiters, Com!wait(t)
  PROVE  ComInv'
<1>1. /\ left[t] > 0 /\ done > 0 /\ lock = none /\ lock' = lock /\ todo' = todo
      /\ done' = (IF done = Com!All THEN Com!All ELSE done - 1)
      /\ use' = use /\ exists' = exists /\ left' = [left EXCEPT ![t] = left[t] - 1]
  BY DEF Com!wait
<1>2. done \in Nat /\ \A x \in Waiters : left[x] \in Nat /\ left[x] <= Cardinality(Workers)
  BY ComConstants DEF ComInv
<1>3. /\ left' \in [Waiters -> 0 .. Cardinality(Workers)]
      /\ done' \in Nat /\ done' <= Com!All
  <2>1. left[t] - 1 \in 0 .. Cardinality(Workers)
    BY <1>1, <1>2, ComConstants
  <2>2. left' \in [Waiters -> 0 .. Cardinality(Workers)]
    BY <1>1, <2>1 DEF ComInv
  <2>3. done' \in Nat /\ done' <= Com!All
    BY <1>1, <1>2, ComConstants DEF ComInv
  <2> QED BY <2>2, <2>3
<1>4. CASE use = "jobs"
  <2>1. t = owner /\ done + Cardinality(todo) = left[owner]
    BY <1>1, <1>2, <1>4 DEF ComInv
  <2>2. Cardinality(todo) \in Nat
    BY TodoFinite DEF ComInv
  <2>3. done # Com!All
    BY <1>2, <2>1, <2>2, ComConstants
  <2>4. left'[owner] = left[owner] - 1 /\ \A x \in Waiters \ {owner} : left'[x] = left[x]
    BY <1>1, <2>1, ComConstants DEF ComInv
  <2>5. done' + Cardinality(todo') = left'[owner]
    BY <1>1, <1>2, <2>1, <2>2, <2>3, <2>4, ComConstants
  <2>6. exists
    BY <1>1, <1>2, <2>1 DEF ComInv
  <2>7. \A x \in Waiters \ {owner} : left'[x] = 0
    BY <1>4, <2>4 DEF ComInv
  <2> QED BY <1>1, <1>3, <1>4, <2>5, <2>6, <2>7 DEF ComInv
<1>5. CASE use = "event"
  <2>1. done = Com!All /\ exists
    BY <1>1, <1>5 DEF ComInv
  <2> QED BY <1>1, <1>3, <1>5, <2>1 DEF ComInv
<1> QED BY <1>4, <1>5 DEF ComInv

\* Every step of the completion.
LEMMA ComNext == ComInv /\ [Com!Next]_(Com!vars) => ComInv'
<1> SUFFICES ASSUME ComInv, [Com!Next]_(Com!vars) PROVE ComInv'
  OBVIOUS
<1>1. ASSUME NEW w \in Workers, Com!Unlock(w) PROVE ComInv'
  BY <1>1 DEF ComInv, Com!Unlock
<1>2. CASE Com!Destruct
  BY <1>2 DEF ComInv, Com!Destruct
<1>3. CASE UNCHANGED Com!vars
  BY <1>3 DEF ComInv, Com!vars
<1> QED BY <1>1, <1>2, <1>3, ComComplete, ComCompleteAll, ComWait DEF Com!Next

------------------------------------------------------------------------------
(***************************************************************************)
(* Kref and Atomic.  The invariant of the run is inductive.                *)
(***************************************************************************)

\* The instance's IsFiniteSet is the one of FiniteSets.
LEMMA RefFinite == ASSUME NEW S PROVE Ref!IsFiniteSet(S) <=> IsFiniteSet(S)
BY DEF Ref!IsFiniteSet, IsFiniteSet

\* The instance's Cardinality is the one of FiniteSets.
LEMMA RefCardinality == ASSUME NEW S PROVE Ref!Cardinality(S) = Cardinality(S)
BY RefFinite DEF Ref!Cardinality, Cardinality

RefInv ==
  /\ api \in {"Kref", "Atomic"} /\ object \in {"none", "live", "dying"}
  /\ holding \subseteq Shares /\ counter = Cardinality(holding)
  /\ object = "live" <=> holding # {}

\* A set of shares is finite.
LEMMA SharesFinite ==
  ASSUME NEW S \in SUBSET Shares PROVE IsFiniteSet(S) /\ Cardinality(S) \in Nat
<1>1. IsFiniteSet(Shares)
  BY PartsAssumption, RefFinite DEF Ref!ConstantsAssumption
<1> QED BY <1>1, FS_Subset, FS_CardinalityType

\* RefInv is what CountsExact says of the counters.
LEMMA RefInvIsProperty == RefInv <=> Ref!TypeOK /\ Ref!CountIsShares
<1>1. ASSUME holding \subseteq Shares PROVE Cardinality(holding) \in Nat
  BY <1>1, SharesFinite
<1> QED BY <1>1, RefCardinality DEF RefInv, Ref!TypeOK, Ref!CountIsShares

\* A counter is built with as many references as it has shares.
LEMMA RefBuild ==
  ASSUME RefInv, NEW c, NEW S \in SUBSET Shares, S # {}, Ref!Build(c, S, Cardinality(S))
  PROVE  RefInv'
BY DEF RefInv, Ref!Build

\* Taking shares adds as many to the count.
LEMMA RefTake ==
  ASSUME RefInv, NEW c, NEW S \in SUBSET Shares, Ref!Take(c, S, Cardinality(S))
  PROVE  RefInv'
<1>1. /\ object = "live" /\ S \intersect holding = {} /\ holding # {}
      /\ holding' = holding \union S /\ counter' = counter + Cardinality(S)
      /\ api' = api /\ object' = object
  BY DEF Ref!Take
<1>2. /\ IsFiniteSet(holding) /\ IsFiniteSet(S)
      /\ Cardinality(holding) \in Nat /\ Cardinality(S) \in Nat
  BY SharesFinite DEF RefInv
<1>3. Cardinality(holding \intersect S) = 0
  BY <1>1, FS_EmptySet
<1>4. Cardinality(holding') = Cardinality(holding) + Cardinality(S)
  <2>1. Cardinality(holding \union S)
          = Cardinality(holding) + Cardinality(S) - Cardinality(holding \intersect S)
    BY <1>2, FS_Union, Zenon
  <2> QED BY <1>1, <1>2, <1>3, <2>1
<1> QED BY <1>1, <1>4 DEF RefInv

\* Giving a share back takes one from the count.
LEMMA RefGiveBack ==
  ASSUME RefInv, NEW c, NEW s \in Shares, Ref!GiveBack(c, s)
  PROVE  RefInv'
<1>1. /\ s \in holding /\ holding' = holding \ {s} /\ counter' = counter - 1
      /\ object' = (IF counter = 1 THEN "dying" ELSE object) /\ api' = api
  BY DEF Ref!GiveBack
<1>2. IsFiniteSet(holding) /\ Cardinality(holding) \in Nat
  BY SharesFinite DEF RefInv
<1>3. IsFiniteSet(holding') /\ Cardinality(holding') = Cardinality(holding) - 1
  BY <1>1, <1>2, FS_RemoveElement
<1>4. counter = 1 <=> holding' = {}
  BY <1>2, <1>3, FS_EmptySet DEF RefInv
<1> QED BY <1>1, <1>3, <1>4 DEF RefInv

\* Atomic::sub takes as many from the count as it gives shares back.
LEMMA RefSub ==
  ASSUME RefInv, NEW S \in SUBSET Shares, Ref!AtomicSub(S)
  PROVE  RefInv'
<1>1. /\ S \subseteq holding /\ S # holding /\ holding' = holding \ S
      /\ counter' = counter - Cardinality(S) /\ object' = object /\ api' = api
  BY RefCardinality DEF Ref!AtomicSub
<1>2. IsFiniteSet(holding) /\ holding \intersect S = S
  BY <1>1, SharesFinite DEF RefInv
<1>3. Cardinality(holding') = Cardinality(holding) - Cardinality(S)
  BY <1>1, <1>2, FS_Difference
<1> QED BY <1>1, <1>3 DEF RefInv

\* Before a counter is built there is no share.
LEMMA RefInit == Ref!Init => RefInv
BY FS_EmptySet DEF Ref!Init, RefInv

\* Every step of the counters.
LEMMA RefNext == RefInv /\ [Ref!Next]_(Ref!vars) => RefInv'
<1> SUFFICES ASSUME RefInv, [Ref!Next]_(Ref!vars) PROVE RefInv'
  OBVIOUS
<1>1. \A s \in Shares : {s} \in SUBSET Shares /\ {s} # {} /\ Cardinality({s}) = 1
  BY FS_Singleton
<1>2. ASSUME NEW s \in Shares, Ref!KrefConstruct(s) PROVE RefInv'
  BY <1>1, <1>2, RefBuild DEF Ref!KrefConstruct
<1>3. ASSUME NEW s \in Shares, Ref!KrefInit(s) PROVE RefInv'
  BY <1>1, <1>3 DEF RefInv, Ref!KrefInit
<1>4. ASSUME NEW s \in Shares, Ref!KrefGet(s) \/ Ref!AtomicInc(s) \/ Ref!AtomicIncAndTest(s)
      PROVE  RefInv'
  BY <1>1, <1>4, RefTake DEF Ref!KrefGet, Ref!AtomicInc, Ref!AtomicIncAndTest
<1>5. ASSUME NEW s \in Shares, Ref!KrefPut(s) \/ Ref!AtomicDecAndTest(s) PROVE RefInv'
  BY <1>5, RefGiveBack DEF Ref!KrefPut, Ref!AtomicDecAndTest
<1>6. ASSUME NEW s \in Shares, Ref!AtomicDec(s) PROVE RefInv'
  BY <1>1, <1>6, RefSub DEF Ref!AtomicDec
<1>7. ASSUME NEW S \in SUBSET Shares, Ref!AtomicConstruct(S) PROVE RefInv'
  BY <1>7, RefBuild, RefCardinality DEF Ref!AtomicConstruct
<1>8. ASSUME NEW S \in SUBSET Shares, Ref!AtomicAdd(S) PROVE RefInv'
  BY <1>8, RefTake, RefCardinality DEF Ref!AtomicAdd
<1>9. CASE Ref!Release
  BY <1>9, FS_EmptySet DEF RefInv, Ref!Release
<1>10. CASE UNCHANGED Ref!vars
  BY <1>10 DEF RefInv, Ref!vars
<1> QED BY <1>2, <1>3, <1>4, <1>5, <1>6, <1>7, <1>8, <1>9, <1>10, RefSub DEF Ref!Next

------------------------------------------------------------------------------
(***************************************************************************)
(* SpinLock.  Only the first in the queue is past the lock, and what it    *)
(* has read is still what is there when it writes.                         *)
(***************************************************************************)

AtLock(p) == {x \in Spin!Lockers : p[x] \in {"spin", "read", "written"}}

SpinInv ==
  /\ queue \in Seq(Spin!Lockers)
  /\ spinPc \in [Spin!Contexts -> {"out", "run", "spin", "read", "written"}]
  /\ shared \in 0 .. Modulus - 1 /\ shared = expected
  /\ spinSeen \in [Spin!Contexts -> 0 .. Modulus - 1]
  /\ Lists(queue, AtLock(spinPc))
  /\ \A x \in Spin!Lockers :
       /\ spinPc[x] \in {"read", "written"} => queue # <<>> /\ Head(queue) = x
       /\ spinPc[x] = "read" => spinSeen[x] = shared

\* SpinInv is strong enough.
LEMMA SpinInvImplies == SpinInv => Spin!TypeOK /\ Spin!NoLostUpdate
BY DEF SpinInv, Spin!TypeOK, Spin!NoLostUpdate

\* What the assumptions on the constants say of the spinlock.
LEMMA SpinConstants ==
  /\ Modulus \in Nat \ {0, 1} /\ IrqCpus \subseteq LockCpus
  /\ Spin!Lockers \subseteq Spin!Contexts
  /\ \A c \in LockCpus : Spin!Handler(c) \in Spin!Contexts
  /\ \A c \in LockCpus : Spin!Handler(c) \in Spin!Lockers => c \in IrqCpus
<1>1. Modulus \in Nat \ {0, 1} /\ IrqCpus \subseteq LockCpus
  BY PartsAssumption DEF Spin!ConstantsAssumption
<1>2. \A c \in LockCpus : Spin!Handler(c) \in Spin!Contexts
  BY DEF Spin!Contexts, Spin!Handler
<1>3. Spin!Lockers \subseteq Spin!Contexts
  BY <1>1 DEF Spin!Contexts, Spin!Handler, Spin!Thread, Spin!Lockers
<1>4. \A c \in LockCpus : Spin!Handler(c) \in Spin!Lockers => c \in IrqCpus
  BY DEF Spin!Handler, Spin!Thread, Spin!Lockers
<1> QED BY <1>1, <1>2, <1>3, <1>4

\* The constructor: nobody has the lock.
LEMMA SpinInit == Spin!Init => SpinInv
<1> SUFFICES ASSUME Spin!Init PROVE SpinInv
  OBVIOUS
<1>1. AtLock(spinPc) = {} /\ queue = <<>> /\ \A x \in Spin!Lockers : spinPc[x] = "out"
  BY SpinConstants DEF Spin!Init, AtLock
<1>2. Lists(queue, AtLock(spinPc)) /\ queue \in Seq(Spin!Lockers)
  BY <1>1 DEF Lists
<1>3. 0 \in 0 .. Modulus - 1
  BY SpinConstants
<1>4. /\ spinPc \in [Spin!Contexts -> {"out", "run", "spin", "read", "written"}]
      /\ spinSeen \in [Spin!Contexts -> 0 .. Modulus - 1]
      /\ shared = 0 /\ expected = 0
  BY <1>3 DEF Spin!Init
<1> QED BY <1>1, <1>2, <1>3, <1>4 DEF SpinInv

\* A handler starts, or returns without having used the lock.
LEMMA SpinIrq ==
  ASSUME SpinInv, NEW c \in LockCpus, Spin!Interrupt(c) \/ Spin!HandlerReturns(c)
  PROVE  SpinInv'
<1> DEFINE h == Spin!Handler(c)
<1>1. h \in Spin!Contexts
  BY SpinConstants
<1>2. /\ UNCHANGED <<queue, shared, spinSeen, expected>>
      /\ \E v \in {"out", "run"} : spinPc' = [spinPc EXCEPT ![h] = v]
      /\ spinPc[h] \in {"out", "run"}
  BY DEF Spin!Interrupt, Spin!HandlerReturns
<1> HIDE DEF h
<1>3. spinPc' \in [Spin!Contexts -> {"out", "run", "spin", "read", "written"}]
  BY <1>1, <1>2 DEF SpinInv
<1>4. \A x \in Spin!Lockers : \/ spinPc'[x] = spinPc[x]
                              \/ spinPc'[x] \in {"out", "run"} /\ spinPc[x] \in {"out", "run"}
  BY <1>1, <1>2, SpinConstants DEF SpinInv
<1>5. AtLock(spinPc') = AtLock(spinPc)
  BY <1>4 DEF AtLock
<1> QED BY <1>2, <1>3, <1>4, <1>5 DEF SpinInv

\* lock is given to one context.
LEMMA SpinLockStep ==
  ASSUME SpinInv, NEW x \in Spin!Lockers, Spin!lock(x)
  PROVE  SpinInv'
<1>1. /\ spinPc[x] \in {"out", "run"} /\ queue' = Append(queue, x)
      /\ spinPc' = [spinPc EXCEPT ![x] = "spin"]
      /\ UNCHANGED <<shared, spinSeen, expected>>
  BY DEF Spin!lock, Spin!Starts
<1>2. x \in Spin!Contexts
  BY SpinConstants
<1>3. spinPc' \in [Spin!Contexts -> {"out", "run", "spin", "read", "written"}]
  BY <1>1, <1>2 DEF SpinInv
<1>4. AtLock(spinPc') = AtLock(spinPc) \union {x} /\ x \notin AtLock(spinPc)
  BY <1>1, <1>2, SpinConstants DEF SpinInv, AtLock
<1>5. queue' \in Seq(Spin!Lockers) /\ Lists(queue', AtLock(spinPc'))
  <2>1. queue \in Seq(Spin!Lockers) /\ Lists(queue, AtLock(spinPc))
    BY DEF SpinInv
  <2>2. /\ Append(queue, x) \in Seq(Spin!Lockers)
        /\ Lists(Append(queue, x), AtLock(spinPc) \union {x})
    BY <1>4, <2>1, AppendLists, Zenon
  <2> QED BY <1>1, <1>4, <2>2
<1>6. queue # <<>> => queue' # <<>> /\ Head(queue') = Head(queue)
  BY <1>1 DEF SpinInv
<1>7. ASSUME NEW y \in Spin!Lockers, spinPc'[y] \in {"read", "written"}
      PROVE  y # x /\ spinPc'[y] = spinPc[y]
  BY <1>1, <1>2, <1>7, SpinConstants DEF SpinInv
<1>8. ASSUME NEW y \in Spin!Lockers
      PROVE  /\ spinPc'[y] \in {"read", "written"} => queue' # <<>> /\ Head(queue') = y
             /\ spinPc'[y] = "read" => spinSeen'[y] = shared'
  BY <1>1, <1>6, <1>7 DEF SpinInv
<1> QED BY <1>1, <1>3, <1>5, <1>8 DEF SpinInv

\* The holder reads the counter.
LEMMA SpinRead ==
  ASSUME SpinInv, NEW x \in Spin!Lockers, Spin!Read(x)
  PROVE  SpinInv'
<1>1. /\ spinPc[x] = "spin" /\ queue # <<>> /\ Head(queue) = x
      /\ spinPc' = [spinPc EXCEPT ![x] = "read"] /\ spinSeen' = [spinSeen EXCEPT ![x] = shared]
      /\ UNCHANGED <<queue, shared, expected>>
  BY DEF Spin!Read, Spin!HasLock
<1>2. x \in Spin!Contexts
  BY SpinConstants
<1>3. /\ spinPc' \in [Spin!Contexts -> {"out", "run", "spin", "read", "written"}]
      /\ spinSeen' \in [Spin!Contexts -> 0 .. Modulus - 1]
  BY <1>1, <1>2 DEF SpinInv
<1>4. AtLock(spinPc') = AtLock(spinPc)
  BY <1>1, <1>2, SpinConstants DEF SpinInv, AtLock
<1>5. ASSUME NEW y \in Spin!Lockers
      PROVE  /\ spinPc'[y] \in {"read", "written"} => queue # <<>> /\ Head(queue) = y
             /\ spinPc'[y] = "read" => spinSeen'[y] = shared
  <2>1. CASE y = x
    BY <1>1, <1>2, <2>1 DEF SpinInv
  <2>2. CASE y # x
    <3>1. spinPc'[y] = spinPc[y] /\ spinSeen'[y] = spinSeen[y]
      BY <1>1, <2>2, SpinConstants DEF SpinInv
    <3> QED BY <3>1 DEF SpinInv
  <2> QED BY <2>1, <2>2
<1> QED BY <1>1, <1>3, <1>4, <1>5 DEF SpinInv

\* The holder writes what it has read, plus one.
LEMMA SpinWrite ==
  ASSUME SpinInv, NEW x \in Spin!Lockers, Spin!Write(x)
  PROVE  SpinInv'
<1>1. /\ spinPc[x] = "read" /\ shared' = (spinSeen[x] + 1) % Modulus
      /\ expected' = (expected + 1) % Modulus
      /\ spinPc' = [spinPc EXCEPT ![x] = "written"] /\ spinSeen' = [spinSeen EXCEPT ![x] = 0]
      /\ UNCHANGED queue
  BY DEF Spin!Write
<1>2. x \in Spin!Contexts /\ Modulus \in Nat \ {0, 1} /\ shared \in 0 .. Modulus - 1
  BY SpinConstants DEF SpinInv
<1>3. /\ spinPc' \in [Spin!Contexts -> {"out", "run", "spin", "read", "written"}]
      /\ spinSeen' \in [Spin!Contexts -> 0 .. Modulus - 1]
  <2>1. 0 \in 0 .. Modulus - 1
    BY <1>2
  <2> QED BY <1>1, <1>2, <2>1 DEF SpinInv
<1>4. AtLock(spinPc') = AtLock(spinPc)
  BY <1>1, <1>2, SpinConstants DEF SpinInv, AtLock
<1>5. spinSeen[x] = shared /\ shared = expected
  BY <1>1 DEF SpinInv
<1>6. shared' = expected' /\ shared' \in 0 .. Modulus - 1
  <2>1. shared' = expected'
    BY <1>1, <1>5
  <2>2. \A n \in Nat : n % Modulus \in 0 .. Modulus - 1
    BY <1>2
  <2> QED BY <1>1, <1>2, <1>5, <2>1, <2>2
<1>7. ASSUME NEW y \in Spin!Lockers
      PROVE  /\ spinPc'[y] \in {"read", "written"} => queue # <<>> /\ Head(queue) = y
             /\ spinPc'[y] # "read"
  <2>1. CASE y = x
    BY <1>1, <1>2, <2>1 DEF SpinInv
  <2>2. CASE y # x
    <3>1. spinPc'[y] = spinPc[y]
      BY <1>1, <2>2, SpinConstants DEF SpinInv
    <3>2. spinPc[y] \notin {"read", "written"}
      BY <1>1, <2>2 DEF SpinInv
    <3> QED BY <3>1, <3>2
  <2> QED BY <2>1, <2>2
<1> QED BY <1>1, <1>3, <1>4, <1>6, <1>7 DEF SpinInv

\* unlock gives the lock back after the write.
LEMMA SpinUnlock ==
  ASSUME SpinInv, NEW x \in Spin!Lockers, Spin!unlock(x)
  PROVE  SpinInv'
<1>1. /\ spinPc[x] = "written" /\ queue' = Tail(queue) /\ spinPc' = [spinPc EXCEPT ![x] = "out"]
      /\ UNCHANGED <<shared, spinSeen, expected>>
  BY DEF Spin!unlock
<1>2. x \in Spin!Contexts /\ queue # <<>> /\ Head(queue) = x
  BY <1>1, SpinConstants DEF SpinInv
<1>3. spinPc' \in [Spin!Contexts -> {"out", "run", "spin", "read", "written"}]
  BY <1>1, <1>2 DEF SpinInv
<1>4. AtLock(spinPc') = AtLock(spinPc) \ {x}
  BY <1>1, <1>2, SpinConstants DEF SpinInv, AtLock
<1>5. queue' \in Seq(Spin!Lockers) /\ Lists(queue', AtLock(spinPc'))
  <2>1. queue \in Seq(Spin!Lockers) /\ Lists(queue, AtLock(spinPc))
    BY DEF SpinInv
  <2>2. /\ Tail(queue) \in Seq(Spin!Lockers)
        /\ Lists(Tail(queue), AtLock(spinPc) \ {Head(queue)})
    BY <1>2, <2>1, TailLists, Zenon
  <2> QED BY <1>1, <1>2, <1>4, <2>2
<1>6. ASSUME NEW y \in Spin!Lockers PROVE spinPc'[y] \notin {"read", "written"}
  <2>1. CASE y = x
    BY <1>1, <1>2, <2>1 DEF SpinInv
  <2>2. CASE y # x
    <3>1. spinPc'[y] = spinPc[y]
      BY <1>1, <2>2, SpinConstants DEF SpinInv
    <3>2. spinPc[y] \notin {"read", "written"}
      BY <1>2, <2>2 DEF SpinInv
    <3> QED BY <3>1, <3>2
  <2> QED BY <2>1, <2>2
<1> QED BY <1>1, <1>3, <1>5, <1>6 DEF SpinInv

\* Every step of the spinlock and its users.
LEMMA SpinNext == SpinInv /\ [Spin!Next]_(Spin!vars) => SpinInv'
<1> SUFFICES ASSUME SpinInv, [Spin!Next]_(Spin!vars) PROVE SpinInv'
  OBVIOUS
<1>1. CASE UNCHANGED Spin!vars
  BY <1>1 DEF SpinInv, Spin!vars
<1> QED BY <1>1, SpinIrq, SpinLockStep, SpinRead, SpinWrite, SpinUnlock DEF Spin!Next, Spin!InScope

------------------------------------------------------------------------------
(***************************************************************************)
(* PerCPU.  A thread between get and put runs on the CPU whose element it  *)
(* points to, so that nobody else changes the element under it.            *)
(***************************************************************************)

Inside(t) ==
  at[t] # "out" =>
    /\ Per!Runs(t) /\ slot[t] = cpu[t]
    /\ at[t] = "read" => seen[t] = element[cpu[t]] /\ updates[cpu[t]] < MaxUpdates

PerInv == Per!TypeOK /\ Per!NoLostUpdate /\ \A t \in Threads : Inside(t)

\* Every element starts at zero.
LEMMA PerInit == Per!Init => PerInv
<1> SUFFICES ASSUME Per!Init PROVE PerInv
  OBVIOUS
<1>1. MaxUpdates \in Nat
  BY PartsAssumption DEF Per!ConstantsAssumption
<1>2. Per!TypeOK
  BY <1>1 DEF Per!Init, Per!TypeOK
<1> QED BY <1>2 DEF Per!Init, PerInv, Per!NoLostUpdate, Inside

\* Every step of the per-CPU counters.
LEMMA PerNext == PerInv /\ [Per!Next]_(Per!vars) => PerInv'
<1> SUFFICES ASSUME PerInv, [Per!Next]_(Per!vars) PROVE PerInv'
  OBVIOUS
<1> USE DEF Per!objectVars, Per!schedVars, Per!threadVars, Per!readerVars
<1>1. MaxUpdates \in Nat
  BY PartsAssumption DEF Per!ConstantsAssumption
<1>2. CASE Per!Construct
  BY <1>2 DEF PerInv, Per!TypeOK, Per!NoLostUpdate, Inside, Per!Runs, Per!Construct
<1>3. CASE Per!Destruct
  <2>1. Per!TypeOK' /\ Per!NoLostUpdate'
    BY <1>1, <1>3 DEF PerInv, Per!TypeOK, Per!NoLostUpdate, Per!Destruct
  <2>2. \A t \in Threads : at'[t] = "out"
    BY <1>3 DEF Per!Destruct
  <2> QED BY <2>1, <2>2 DEF PerInv, Inside
<1>4. ASSUME NEW t \in Threads, Per!get(t) PROVE PerInv'
  <2>1. /\ cpu[t] \in Cpus /\ element[cpu[t]] \in Nat
    BY DEF PerInv, Per!TypeOK
  <2>2. Per!TypeOK' /\ Per!NoLostUpdate'
    BY <1>4, <2>1 DEF PerInv, Per!TypeOK, Per!NoLostUpdate, Per!get
  <2>3. ASSUME NEW x \in Threads PROVE Inside(x)'
    <3>1. CASE x = t
      BY <1>4, <2>1, <3>1 DEF PerInv, Per!TypeOK, Inside, Per!Runs, Per!get
    <3>2. CASE x # t
      BY <1>4, <3>2 DEF PerInv, Per!TypeOK, Inside, Per!Runs, Per!get
    <3> QED BY <3>1, <3>2
  <2> QED BY <2>2, <2>3 DEF PerInv
<1>5. ASSUME NEW t \in Threads, Per!Store(t) PROVE PerInv'
  <2> DEFINE c == cpu[t]
  <2>1. /\ c \in Cpus /\ slot[t] = c /\ seen[t] = element[c] /\ running[c] = t
        /\ element[c] = updates[c] /\ updates[c] \in Nat /\ updates[c] + 1 \in 0 .. MaxUpdates
        /\ element[c] \in Nat
    BY <1>1, <1>5 DEF PerInv, Inside, Per!TypeOK, Per!NoLostUpdate, Per!Store, Per!Runs
  <2>2. /\ element' = [element EXCEPT ![c] = element[c] + 1]
        /\ updates' = [updates EXCEPT ![c] = updates[c] + 1]
        /\ at' = [at EXCEPT ![t] = "written"]
        /\ UNCHANGED <<ptr_, cpu, running, slot, seen, unread, sum, before>>
    BY <1>5, <2>1 DEF Per!Store
  <2> HIDE DEF c
  <2>3. Per!TypeOK'
    BY <2>1, <2>2 DEF PerInv, Per!TypeOK
  <2>4. Per!NoLostUpdate'
    BY <2>1, <2>2 DEF PerInv, Per!NoLostUpdate
  <2>5. ASSUME NEW x \in Threads PROVE Inside(x)'
    <3>1. CASE x = t
      BY <2>1, <2>2, <3>1 DEF PerInv, Per!TypeOK, Inside, Per!Runs, c
    <3>2. CASE x # t
      <4>1. at'[x] = at[x] /\ slot'[x] = slot[x] /\ seen'[x] = seen[x]
        BY <2>2, <3>2 DEF PerInv, Per!TypeOK
      <4>2. ASSUME at[x] # "out" PROVE cpu[x] # c /\ cpu[x] \in Cpus
        BY <2>1, <3>2, <4>2 DEF PerInv, Per!TypeOK, Inside, Per!Runs
      <4>3. ASSUME at[x] # "out"
            PROVE  element'[cpu[x]] = element[cpu[x]] /\ updates'[cpu[x]] = updates[cpu[x]]
        BY <2>2, <4>2, <4>3 DEF PerInv, Per!TypeOK
      <4>4. Inside(x)
        BY DEF PerInv
      <4> QED BY <2>2, <4>1, <4>3, <4>4 DEF Inside, Per!Runs
    <3> QED BY <3>1, <3>2
  <2> QED BY <2>3, <2>4, <2>5 DEF PerInv
<1>6. ASSUME NEW t \in Threads, Per!put(t) PROVE PerInv'
  <2>1. Per!TypeOK' /\ Per!NoLostUpdate'
    BY <1>6 DEF PerInv, Per!TypeOK, Per!NoLostUpdate, Per!put
  <2>2. ASSUME NEW x \in Threads PROVE Inside(x)'
    <3>1. CASE x = t
      BY <1>6, <3>1 DEF PerInv, Per!TypeOK, Inside, Per!put
    <3>2. CASE x # t
      BY <1>6, <3>2 DEF PerInv, Per!TypeOK, Inside, Per!Runs, Per!put
    <3> QED BY <3>1, <3>2
  <2> QED BY <2>1, <2>2 DEF PerInv
<1>7. ASSUME NEW c \in Cpus, Per!get_for_cpu(c) PROVE PerInv'
  <2>1. element[c] \in Nat
    BY DEF PerInv, Per!TypeOK
  <2>2. Per!TypeOK' /\ Per!NoLostUpdate'
    BY <1>7, <2>1 DEF PerInv, Per!TypeOK, Per!NoLostUpdate, Per!get_for_cpu
  <2> QED BY <1>7, <2>2 DEF PerInv, Inside, Per!Runs, Per!get_for_cpu
<1>8. ASSUME NEW c \in Cpus, NEW t \in Threads, Per!Switch(c, t) PROVE PerInv'
  <2>1. Per!TypeOK' /\ Per!NoLostUpdate'
    BY <1>8 DEF PerInv, Per!TypeOK, Per!NoLostUpdate, Per!Switch
  <2>2. ASSUME NEW x \in Threads PROVE Inside(x)'
    <3>1. at[x] # "out" => cpu[x] # c
      BY <1>8 DEF PerInv, Inside, Per!Runs, Per!Switch, Per!Preemptible
    <3>2. at[x] # "out" => running'[cpu[x]] = running[cpu[x]]
      BY <1>8, <3>1 DEF PerInv, Per!TypeOK, Per!Switch
    <3> QED BY <1>8, <3>2 DEF PerInv, Inside, Per!Runs, Per!Switch
  <2> QED BY <2>1, <2>2 DEF PerInv
<1>9. ASSUME NEW c \in Cpus, NEW t \in Threads, Per!Migrate(t, c) PROVE PerInv'
  <2>1. Per!TypeOK' /\ Per!NoLostUpdate'
    BY <1>9 DEF PerInv, Per!TypeOK, Per!NoLostUpdate, Per!Migrate
  <2>2. ASSUME NEW x \in Threads PROVE Inside(x)'
    <3>1. at[x] # "out" => x # t
      BY <1>9 DEF PerInv, Inside, Per!Migrate
    <3>2. at[x] # "out" => cpu'[x] = cpu[x]
      BY <1>9, <3>1 DEF PerInv, Per!TypeOK, Per!Migrate
    <3> QED BY <1>9, <3>2 DEF PerInv, Inside, Per!Runs, Per!Migrate
  <2> QED BY <2>1, <2>2 DEF PerInv
<1>10. CASE UNCHANGED Per!vars
  BY <1>10 DEF PerInv, Per!TypeOK, Per!NoLostUpdate, Inside, Per!Runs, Per!vars
<1> QED BY <1>2, <1>3, <1>4, <1>5, <1>6, <1>7, <1>8, <1>9, <1>10 DEF Per!Next

------------------------------------------------------------------------------
(***************************************************************************)
(* The sum of a PerCPU.  Total, a fold, is the number of the single updates*)
(* of all CPUs, which grows with the counts and with the set of CPUs.      *)
(***************************************************************************)

\* The single updates that f counts on the CPUs of D.
Units(f, D) == {x \in D \X (1 .. MaxUpdates) : x[2] <= f[x[1]]}
SizeOf(f, D) == Cardinality(Units(f, D))

\* The counts of the CPUs.
Counts == [Cpus -> 0 .. MaxUpdates]

\* Only finitely many updates are counted.
LEMMA UnitsFinite ==
  ASSUME NEW D \in SUBSET Cpus, NEW f
  PROVE  IsFiniteSet(Units(f, D)) /\ SizeOf(f, D) \in Nat
<1>1. MaxUpdates \in Int /\ IsFiniteSet(Cpus)
  <2>1. Per!IsFiniteSet(Cpus) <=> IsFiniteSet(Cpus)
    BY DEF Per!IsFiniteSet, IsFiniteSet
  <2> QED BY <2>1, PartsAssumption DEF Per!ConstantsAssumption
<1>2. IsFiniteSet(D) /\ IsFiniteSet(1 .. MaxUpdates)
  BY <1>1, FS_Subset, FS_Interval
<1>3. IsFiniteSet(D \X (1 .. MaxUpdates))
  BY <1>2, FS_Product
<1>4. Units(f, D) \in SUBSET (D \X (1 .. MaxUpdates))
  BY DEF Units
<1>5. IsFiniteSet(Units(f, D))
  BY <1>3, <1>4, FS_Subset
<1> QED BY <1>5, FS_CardinalityType DEF SizeOf

\* The updates of no CPU are none, and those of one more CPU come on top.
LEMMA UnitsAdd ==
  ASSUME NEW f \in Counts
  PROVE  /\ SizeOf(f, {}) = 0
         /\ \A D \in SUBSET Cpus : \A c \in Cpus \ D : SizeOf(f, D \union {c}) = SizeOf(f, D) + f[c]
<1>1. SizeOf(f, {}) = 0
  <2>1. Units(f, {}) = {}
    BY DEF Units
  <2> QED BY <2>1, FS_EmptySet DEF SizeOf
<1>2. ASSUME NEW D \in SUBSET Cpus, NEW c \in Cpus \ D
      PROVE  SizeOf(f, D \union {c}) = SizeOf(f, D) + f[c]
  <2>1. f[c] \in Nat /\ f[c] <= MaxUpdates /\ MaxUpdates \in Nat /\ f[c] \in Int
    BY PartsAssumption DEF Counts, Per!ConstantsAssumption
  <2>2. Units(f, {c}) = {c} \X (1 .. f[c])
    BY <2>1 DEF Units
  <2>3. IsFiniteSet(1 .. f[c]) /\ Cardinality(1 .. f[c]) = f[c]
    <3>1. ASSUME NEW m \in Nat PROVE IsFiniteSet(1 .. m) /\ Cardinality(1 .. m) = m
      <4>1. 1 \in Int /\ m \in Int
        OBVIOUS
      <4>2. IsFiniteSet(1 .. m) /\ Cardinality(1 .. m) = IF 1 > m THEN 0 ELSE m - 1 + 1
        BY <4>1, FS_Interval
      <4>3. (IF 1 > m THEN 0 ELSE m - 1 + 1) = m
        OBVIOUS
      <4> QED BY <4>2, <4>3
    <3> QED BY <2>1, <3>1
  <2>4. IsFiniteSet({c}) /\ Cardinality({c}) = 1
    BY FS_Singleton
  <2>5. IsFiniteSet(Units(f, {c})) /\ Cardinality(Units(f, {c})) = f[c]
    <3>1. /\ IsFiniteSet({c} \X (1 .. f[c]))
          /\ Cardinality({c} \X (1 .. f[c])) = Cardinality({c}) * Cardinality(1 .. f[c])
      BY <2>3, <2>4, FS_Product
    <3>2. Cardinality({c}) * Cardinality(1 .. f[c]) = 1 * f[c]
      BY <2>3, <2>4
    <3>3. 1 * f[c] = f[c]
      BY <2>1
    <3> QED BY <2>2, <3>1, <3>2, <3>3
  <2>6. Units(f, D \union {c}) = Units(f, D) \union Units(f, {c})
    BY DEF Units
  <2>7. Units(f, D) \intersect Units(f, {c}) = {}
    BY DEF Units
  <2>8. IsFiniteSet(Units(f, D)) /\ Cardinality(Units(f, D)) \in Nat
    BY UnitsFinite DEF SizeOf
  <2>9. Cardinality(Units(f, D) \union Units(f, {c})) =
          Cardinality(Units(f, D)) + Cardinality(Units(f, {c}))
            - Cardinality(Units(f, D) \intersect Units(f, {c}))
    BY <2>5, <2>8, FS_Union
  <2>10. Cardinality(Units(f, D) \intersect Units(f, {c})) = 0
    BY <2>7, FS_EmptySet
  <2>11. Cardinality(Units(f, D \union {c})) = Cardinality(Units(f, D)) + f[c] - 0
    BY <2>5, <2>6, <2>9, <2>10
  <2>12. \A m \in Nat : m + f[c] - 0 = m + f[c]
    BY <2>1
  <2> QED BY <2>8, <2>11, <2>12 DEF SizeOf
<1> QED BY <1>1, <1>2

\* Larger counts have at least as many updates.
LEMMA UnitsGrow ==
  ASSUME NEW f \in Counts, NEW g \in Counts, \A c \in Cpus : f[c] <= g[c], NEW D \in SUBSET Cpus
  PROVE  SizeOf(f, D) <= SizeOf(g, D)
<1>1. ASSUME NEW x \in Units(f, D) PROVE x \in Units(g, D)
  <2>1. /\ x \in D \X (1 .. MaxUpdates) /\ x[2] <= f[x[1]]
        /\ x[1] \in Cpus /\ x[2] \in Int /\ MaxUpdates \in Nat
    BY PartsAssumption DEF Units, Per!ConstantsAssumption
  <2>2. f[x[1]] \in Int /\ g[x[1]] \in Int /\ f[x[1]] <= g[x[1]]
    BY <2>1 DEF Counts
  <2>3. x[2] <= g[x[1]]
    BY <2>1, <2>2
  <2> QED BY <2>1, <2>3 DEF Units
<1>2. Units(f, D) \in SUBSET Units(g, D)
  BY <1>1
<1> QED BY <1>2, UnitsFinite, FS_Subset DEF SizeOf

\* The fold adds up the counts of all CPUs, in whatever order it takes them.
LEMMA TotalIs ==
  ASSUME NEW f \in Counts
  PROVE  Per!Total(f) = SizeOf(f, Cpus)
<1> DEFINE Pick(s) == CHOOSE x \in s : TRUE
           Rec(h) == h = [s \in SUBSET Cpus |-> IF s = {} THEN 0 ELSE f[Pick(s)] + h[s \ {Pick(s)}]]
           g == [s \in SUBSET Cpus |-> SizeOf(f, s)]
<1>1. ASSUME NEW s \in SUBSET Cpus, s # {}
      PROVE  /\ Pick(s) \in s /\ s \ {Pick(s)} \in SUBSET Cpus
             /\ SizeOf(f, s) = f[Pick(s)] + SizeOf(f, s \ {Pick(s)})
  <2> DEFINE p == Pick(s)
             u == s \ {p}
  <2>1. p \in s
    BY <1>1
  <2> HIDE DEF p
  <2>2. u \in SUBSET Cpus /\ p \in Cpus \ u /\ s = u \union {p}
    BY <2>1
  <2> HIDE DEF u
  <2>3. SizeOf(f, u \union {p}) = SizeOf(f, u) + f[p]
    BY <2>2, UnitsAdd
  <2>4. SizeOf(f, u) \in Nat /\ f[p] \in Nat
    BY <2>2, UnitsFinite, PartsAssumption DEF Counts, Per!ConstantsAssumption
  <2>5. SizeOf(f, s) = f[p] + SizeOf(f, u)
    BY <2>2, <2>3, <2>4
  <2> QED BY <2>1, <2>2, <2>5 DEF p, u
<1>2. Rec(g)
  <2>1. ASSUME NEW s \in SUBSET Cpus
        PROVE  SizeOf(f, s) = IF s = {} THEN 0 ELSE f[Pick(s)] + g[s \ {Pick(s)}]
    <3> HIDE DEF Pick
    <3>1. CASE s = {}
      BY <3>1, UnitsAdd
    <3>2. CASE s # {}
      BY <1>1, <3>2
    <3> QED BY <3>1, <3>2
  <2> HIDE DEF Pick
  <2> QED BY <2>1
<1>3. Per!Total(f) = (CHOOSE h : Rec(h))[Cpus]
  <2>1. DOMAIN f = Cpus
    BY DEF Counts
  <2> QED BY <2>1 DEF Per!Total, Per!FoldFunction, Per!FoldFunctionOnSet, Per!MapThenFoldSet
<1> DEFINE t == CHOOSE h : Rec(h)
<1>4. Rec(t)
  <2> HIDE DEF g, Rec
  <2> QED BY <1>2 DEF t
<1> HIDE DEF t, Pick
<1>5. ASSUME NEW s \in SUBSET Cpus
      PROVE  t[s] = IF s = {} THEN 0 ELSE f[Pick(s)] + t[s \ {Pick(s)}]
  BY <1>4
<1> HIDE DEF Rec
<1>6. IsFiniteSet(Cpus)
  <2>1. Per!IsFiniteSet(Cpus) <=> IsFiniteSet(Cpus)
    BY DEF Per!IsFiniteSet, IsFiniteSet
  <2> QED BY <2>1, PartsAssumption DEF Per!ConstantsAssumption
<1>7. ASSUME t[Cpus] # SizeOf(f, Cpus) PROVE FALSE
  <2> DEFINE Wrong == {s \in SUBSET Cpus : t[s] # SizeOf(f, s)}
             Sizes == {Cardinality(s) : s \in Wrong}
  <2>1. \A s \in SUBSET Cpus : IsFiniteSet(s) /\ Cardinality(s) \in Nat
    BY <1>6, FS_Subset, FS_CardinalityType
  <2>2. Sizes \subseteq Nat /\ Sizes # {}
    BY <1>7, <2>1
  <2> HIDE DEF Sizes
  <2>3. PICK z \in Sizes : \A y \in Sizes : z <= y
    BY <2>2, LeastNat
  <2>4. PICK s \in Wrong : Cardinality(s) = z
    BY DEF Sizes
  <2>5. s \in SUBSET Cpus /\ t[s] # SizeOf(f, s)
    OBVIOUS
  <2>6. s # {}
    BY <1>5, <2>5, UnitsAdd
  <2>7. Pick(s) \in s /\ s \ {Pick(s)} \in SUBSET Cpus
        /\ SizeOf(f, s) = f[Pick(s)] + SizeOf(f, s \ {Pick(s)})
    BY <1>1, <2>5, <2>6
  <2>8. t[s \ {Pick(s)}] # SizeOf(f, s \ {Pick(s)})
    BY <1>5, <2>5, <2>6, <2>7
  <2>9. Cardinality(s \ {Pick(s)}) \in Sizes
    BY <2>7, <2>8 DEF Sizes
  <2>10. Cardinality(s \ {Pick(s)}) = z - 1 /\ z \in Nat
    BY <2>1, <2>4, <2>5, <2>7, FS_RemoveElement
  <2> HIDE DEF Wrong
  <2> QED BY <2>3, <2>9, <2>10
<1> QED BY <1>3, <1>7 DEF t

\* While the reader is under way, what it has added up lies between the counts
\* at its start and now, of the CPUs that it has read.
SumInv ==
  unread # Cpus =>
    /\ \A c \in Cpus : before[c] <= updates[c]
    /\ SizeOf(before, Cpus \ unread) <= sum /\ sum <= SizeOf(updates, Cpus \ unread)

\* What a read of one more CPU makes of the sum.
LEMMA SumRead ==
  ASSUME PerInv, SumInv, NEW c \in Cpus, Per!get_for_cpu(c)
  PROVE  /\ \A d \in Cpus : before'[d] <= updates[d]
         /\ SizeOf(before', (Cpus \ unread) \union {c}) <= sum'
         /\ sum' <= SizeOf(updates, (Cpus \ unread) \union {c})
<1> DEFINE D == Cpus \ unread
<1>1. /\ updates \in Counts /\ before \in Counts /\ before' \in Counts /\ element = updates
      /\ sum \in Nat /\ MaxUpdates \in Nat
  BY PartsAssumption DEF PerInv, Per!TypeOK, Per!NoLostUpdate, Per!get_for_cpu, Counts,
                         Per!ConstantsAssumption
<1>2. D \in SUBSET Cpus /\ c \in Cpus \ D
  BY DEF Per!get_for_cpu
<1>3. /\ SizeOf(before', D \union {c}) = SizeOf(before', D) + before'[c]
      /\ SizeOf(updates, D \union {c}) = SizeOf(updates, D) + updates[c]
  BY <1>1, <1>2, UnitsAdd
<1>4. /\ SizeOf(before', D) \in Nat /\ SizeOf(updates, D) \in Nat
      /\ before'[c] \in Nat /\ updates[c] \in Nat
  BY <1>1, <1>2, UnitsFinite DEF Counts
<1>5. CASE unread = Cpus
  <2>1. before' = updates /\ sum' = 0 + updates[c] /\ D = {}
    BY <1>1, <1>5 DEF Per!get_for_cpu
  <2>2. SizeOf(before', D) = 0 /\ SizeOf(updates, D) = 0
    BY <1>1, <2>1, UnitsAdd
  <2>3. \A d \in Cpus : before'[d] <= updates[d]
    BY <1>1, <2>1 DEF Counts
  <2> HIDE DEF D
  <2>4. SizeOf(before', D \union {c}) = updates[c] /\ SizeOf(updates, D \union {c}) = updates[c]
    BY <1>3, <1>4, <2>1, <2>2
  <2>5. sum' = updates[c] /\ updates[c] <= updates[c]
    BY <1>4, <2>1
  <2> QED BY <2>3, <2>4, <2>5 DEF D
<1>6. CASE unread # Cpus
  <2>1. before' = before /\ sum' = sum + updates[c]
    BY <1>1, <1>6 DEF Per!get_for_cpu
  <2>2. /\ \A d \in Cpus : before[d] <= updates[d]
        /\ SizeOf(before, D) <= sum /\ sum <= SizeOf(updates, D)
    BY <1>6 DEF SumInv
  <2> HIDE DEF D
  <2>3. /\ SizeOf(before', D \union {c}) <= sum' /\ sum' <= SizeOf(updates, D \union {c})
    BY <1>1, <1>3, <1>4, <2>1, <2>2
  <2> QED BY <2>1, <2>2, <2>3 DEF D
<1> QED BY <1>5, <1>6

\* Every step keeps the partial sum between its bounds: a store only moves the
\* upper one.
LEMMA SumNext == PerInv /\ SumInv /\ [Per!Next]_(Per!vars) => SumInv'
<1> SUFFICES ASSUME PerInv, SumInv, [Per!Next]_(Per!vars) PROVE SumInv'
  OBVIOUS
<1> USE DEF Per!objectVars, Per!schedVars, Per!threadVars, Per!readerVars
<1>1. /\ updates \in Counts /\ before \in Counts /\ sum \in Nat /\ MaxUpdates \in Nat
      /\ Cpus \ unread \in SUBSET Cpus
  BY PartsAssumption DEF PerInv, Per!TypeOK, Counts, Per!ConstantsAssumption
<1>2. ASSUME UNCHANGED <<updates, unread, sum, before>> PROVE SumInv'
  BY <1>2 DEF SumInv
<1>3. CASE Per!Construct
  BY <1>2, <1>3 DEF Per!Construct
<1>4. CASE Per!Destruct
  BY <1>4 DEF Per!Destruct, SumInv
<1>5. ASSUME NEW t \in Threads, Per!get(t) \/ Per!put(t) PROVE SumInv'
  BY <1>2, <1>5 DEF Per!get, Per!put
<1>6. ASSUME NEW t \in Threads, Per!Store(t) PROVE SumInv'
  <2>1. PerInv'
    BY PerNext
  <2>2. updates' \in Counts /\ unread' = unread /\ sum' = sum /\ before' = before
    BY <1>6, <2>1 DEF Per!Store, PerInv, Per!TypeOK, Counts
  <2>3. \A c \in Cpus : updates[c] \in Nat /\ before[c] \in Nat
    BY <1>1 DEF Counts
  <2>4. updates' = [updates EXCEPT ![slot[t]] = updates[slot[t]] + 1]
    BY <1>6 DEF Per!Store
  <2>5. \A c \in Cpus : updates[c] <= updates'[c]
    BY <1>1, <2>3, <2>4 DEF Counts
  <2>6. \A c \in Cpus : updates'[c] \in Nat
    BY <1>1, <2>2 DEF Counts
  <2>7. SizeOf(updates, Cpus \ unread) <= SizeOf(updates', Cpus \ unread)
    BY <1>1, <2>2, <2>5, UnitsGrow
  <2>8. SizeOf(updates, Cpus \ unread) \in Nat /\ SizeOf(updates', Cpus \ unread) \in Nat
    BY <1>1, UnitsFinite
  <2>9. ASSUME unread # Cpus PROVE \A c \in Cpus : before[c] <= updates'[c]
    BY <2>3, <2>5, <2>6, <2>9 DEF SumInv
  <2>10. ASSUME unread # Cpus PROVE sum <= SizeOf(updates', Cpus \ unread)
    BY <1>1, <2>7, <2>8, <2>10 DEF SumInv
  <2>11. (unread # Cpus)' => unread # Cpus
    BY <2>2
  <2> QED BY <2>2, <2>9, <2>10, <2>11 DEF SumInv
<1>7. ASSUME NEW c \in Cpus, Per!get_for_cpu(c) PROVE SumInv'
  <2>1. updates' = updates /\ unread' = IF unread = {c} THEN Cpus ELSE unread \ {c}
    BY <1>7 DEF Per!get_for_cpu
  <2>2. unread' # Cpus => Cpus \ unread' = (Cpus \ unread) \union {c}
    BY <2>1
  <2> QED BY <1>7, <2>1, <2>2, SumRead DEF SumInv
<1>8. ASSUME NEW c \in Cpus, NEW t \in Threads, Per!Switch(c, t) \/ Per!Migrate(t, c) PROVE SumInv'
  BY <1>2, <1>8 DEF Per!Switch, Per!Migrate
<1>9. CASE UNCHANGED Per!vars
  BY <1>2, <1>9 DEF Per!vars
<1> QED BY <1>3, <1>4, <1>5, <1>6, <1>7, <1>8, <1>9 DEF Per!Next

\* When the last CPU has been read the bounds are those of all CPUs.
LEMMA SumEnds ==
  ASSUME PerInv, SumInv, NEW c \in Cpus, unread = {c}, Per!get_for_cpu(c)
  PROVE  Per!Total(before') <= sum' /\ sum' <= Per!Total(updates)
<1>1. updates \in Counts /\ before' \in Counts
  BY DEF PerInv, Per!TypeOK, Per!get_for_cpu, Counts
<1>2. (Cpus \ unread) \union {c} = Cpus
  OBVIOUS
<1>3. Per!Total(before') = SizeOf(before', Cpus) /\ Per!Total(updates) = SizeOf(updates, Cpus)
  BY <1>1, TotalIs
<1>4. SizeOf(before', Cpus) <= sum' /\ sum' <= SizeOf(updates, Cpus)
  BY <1>2, SumRead
<1> QED BY <1>3, <1>4

------------------------------------------------------------------------------
(***************************************************************************)
(* The buffer of an SKB.  As long as the tail never was behind the buffer  *)
(* the buffer holds what the callers put there; the history variables have *)
(* to be known for the time after it, too.                                 *)
(***************************************************************************)

\* What is between the ends o and e of a buffer f is the sequence p.
Holds(f, o, e, p) ==
  /\ f \in [0 .. Size - 1 -> Bytes] /\ o \in Nat /\ e \in Nat /\ o <= e /\ e <= Size
  /\ p \in Seq(Bytes) /\ Len(p) = e - o
  /\ \A k \in 1 .. e - o : f[o + k - 1] = p[k]

\* The strings that callers put are sequences of bytes.
LEMMA StringsAre == ASSUME NEW bs \in Skb!Strings PROVE bs \in Seq(Bytes) /\ Len(bs) \in Nat
<1>1. PICK n \in 1 .. 2 : bs \in [1 .. n -> Bytes]
  BY DEF Skb!Strings
<1>2. bs \in Seq(Bytes)
  BY <1>1
<1> QED BY <1>2

\* Writing bs just before, or just behind, what the buffer holds.
LEMMA HoldsPush ==
  ASSUME NEW f, NEW o, NEW e, NEW p, Holds(f, o, e, p), NEW bs \in Seq(Bytes), Len(bs) <= o,
         NEW g, g = [k \in 0 .. Size - 1 |-> IF k >= o - Len(bs) /\ k < o - Len(bs) + Len(bs)
                                             THEN bs[k - (o - Len(bs)) + 1] ELSE f[k]]
  PROVE  Holds(g, o - Len(bs), e, bs \o p)
<1> DEFINE c == o - Len(bs)
           q == bs \o p
<1>1. /\ Size \in Nat /\ o \in Nat /\ e \in Nat /\ o <= e /\ e <= Size /\ Len(bs) \in Nat
      /\ p \in Seq(Bytes) /\ Len(p) = e - o
  BY PartsAssumption DEF Skb!ConstantsAssumption, Holds
<1>2. c \in Nat /\ c <= e /\ c + Len(bs) = o /\ e - c = Len(bs) + Len(p)
  BY <1>1
<1>3. q \in Seq(Bytes) /\ Len(q) = Len(bs) + Len(p)
      /\ \A k \in 1 .. Len(bs) + Len(p) : q[k] = IF k <= Len(bs) THEN bs[k] ELSE p[k - Len(bs)]
  BY <1>1, ConcatProperties
<1>4. g = [k \in 0 .. Size - 1 |-> IF k >= c /\ k < o THEN bs[k - c + 1] ELSE f[k]]
  BY <1>2
<1> HIDE DEF c, q
<1>5. g \in [0 .. Size - 1 -> Bytes]
  <2>1. ASSUME NEW k \in 0 .. Size - 1, k >= c /\ k < o PROVE bs[k - c + 1] \in Bytes
    <3>1. k - c + 1 \in 1 .. Len(bs)
      BY <1>1, <1>2, <2>1
    <3> QED BY <3>1, ElementOfSeq
  <2> QED BY <1>4, <2>1 DEF Holds
<1>6. ASSUME NEW k \in 1 .. e - c PROVE g[c + k - 1] = q[k]
  <2>1. c + k - 1 \in 0 .. Size - 1 /\ k \in 1 .. Len(bs) + Len(p)
    BY <1>1, <1>2
  <2>2. CASE k <= Len(bs)
    <3>1. c + k - 1 >= c /\ c + k - 1 < o /\ (c + k - 1) - c + 1 = k
      BY <1>1, <1>2, <2>2
    <3> QED BY <1>3, <1>4, <2>1, <2>2, <3>1
  <2>3. CASE ~(k <= Len(bs))
    <3>0. /\ c \in Int /\ e \in Int /\ o \in Int /\ Len(bs) \in Nat
          /\ o = c + Len(bs) /\ k \in 1 .. e - c /\ k > Len(bs)
      BY <1>1, <1>2, <2>3
    <3>1. ~(c + k - 1 < o) /\ k - Len(bs) \in 1 .. e - o /\ o + (k - Len(bs)) - 1 = c + k - 1
      BY <3>0, SMTT(30)
    <3>2. f[o + (k - Len(bs)) - 1] = p[k - Len(bs)]
      BY <3>1 DEF Holds
    <3> QED BY <1>3, <1>4, <2>1, <2>3, <3>1, <3>2
  <2> QED BY <2>2, <2>3
<1>7. Holds(g, c, e, q)
  BY <1>1, <1>2, <1>3, <1>5, <1>6 DEF Holds
<1> QED BY <1>7 DEF c, q

\* put: bytes behind the tail lengthen the payload.
LEMMA HoldsPut ==
  ASSUME NEW f, NEW o, NEW e, NEW p, Holds(f, o, e, p), NEW bs \in Seq(Bytes), e + Len(bs) <= Size,
         NEW g, g = [k \in 0 .. Size - 1 |-> IF k >= e /\ k < e + Len(bs) THEN bs[k - e + 1] ELSE f[k]]
  PROVE  Holds(g, o, e + Len(bs), p \o bs)
<1> DEFINE q == p \o bs
<1>1. /\ Size \in Nat /\ o \in Nat /\ e \in Nat /\ o <= e /\ e <= Size /\ Len(bs) \in Nat
      /\ p \in Seq(Bytes) /\ Len(p) = e - o
  BY PartsAssumption DEF Skb!ConstantsAssumption, Holds
<1>3. q \in Seq(Bytes) /\ Len(q) = Len(p) + Len(bs)
      /\ \A k \in 1 .. Len(p) + Len(bs) : q[k] = IF k <= Len(p) THEN p[k] ELSE bs[k - Len(p)]
  BY <1>1, ConcatProperties
<1> HIDE DEF q
<1>5. g \in [0 .. Size - 1 -> Bytes]
  <2>1. ASSUME NEW k \in 0 .. Size - 1, k >= e /\ k < e + Len(bs) PROVE bs[k - e + 1] \in Bytes
    <3>1. k - e + 1 \in 1 .. Len(bs)
      BY <1>1, <2>1
    <3> QED BY <3>1, ElementOfSeq
  <2> QED BY <2>1 DEF Holds
<1>6. ASSUME NEW k \in 1 .. e + Len(bs) - o PROVE g[o + k - 1] = q[k]
  <2>1. o + k - 1 \in 0 .. Size - 1 /\ k \in 1 .. Len(p) + Len(bs)
    BY <1>1, SMTT(30)
  <2>2. CASE k <= Len(p)
    <3>1. ~(o + k - 1 >= e) /\ k \in 1 .. e - o
      BY <1>1, <2>2
    <3>2. f[o + k - 1] = p[k]
      BY <3>1 DEF Holds
    <3> QED BY <1>3, <2>1, <2>2, <3>1, <3>2
  <2>3. CASE ~(k <= Len(p))
    <3>1. o + k - 1 >= e /\ o + k - 1 < e + Len(bs) /\ (o + k - 1) - e + 1 = k - Len(p)
      BY <1>1, <2>1, <2>3
    <3> QED BY <1>3, <2>1, <2>3, <3>1
  <2> QED BY <2>2, <2>3
<1>7. e + Len(bs) \in Nat /\ o <= e + Len(bs) /\ Len(q) = e + Len(bs) - o
  BY <1>1, <1>3, SMTT(30)
<1>8. Holds(g, o, e + Len(bs), q)
  BY <1>1, <1>3, <1>5, <1>6, <1>7, SMTT(30) DEF Holds
<1> QED BY <1>8 DEF q

\* The middle of what the buffer holds, from the m-th byte to the n-th.
LEMMA HoldsPart ==
  ASSUME NEW f, NEW o, NEW e, NEW p, Holds(f, o, e, p), NEW m \in Nat, NEW n \in Nat,
         m <= n, n <= e - o
  PROVE  Holds(f, o + m, o + n, SubSeq(p, m + 1, n))
<1> DEFINE q == SubSeq(p, m + 1, n)
<1>1. /\ Size \in Nat /\ o \in Nat /\ e \in Nat /\ o <= e /\ e <= Size
      /\ p \in Seq(Bytes) /\ Len(p) = e - o
  BY PartsAssumption DEF Skb!ConstantsAssumption, Holds
<1>2. \A k \in m + 1 .. n : p[k] \in Bytes
  BY <1>1, ElementOfSeq
<1>3. /\ q \in Seq(Bytes) /\ Len(q) = IF m + 1 <= n THEN n - (m + 1) + 1 ELSE 0
      /\ \A k \in 1 .. n - (m + 1) + 1 : q[k] = p[m + 1 + k - 1]
  BY <1>1, <1>2, SubSeqProperties
<1> HIDE DEF q
<1>4. Len(q) = n - m /\ \A k \in 1 .. n - m : q[k] = p[m + k]
  BY <1>1, <1>3
<1>5. ASSUME NEW k \in 1 .. n - m PROVE f[o + m + k - 1] = q[k]
  <2>1. m + k \in 1 .. e - o /\ o + (m + k) - 1 = o + m + k - 1
    BY <1>1
  <2> QED BY <1>4, <2>1 DEF Holds
<1>6. /\ o + m \in Nat /\ o + n \in Nat /\ o + m <= o + n /\ o + n <= Size
      /\ (o + n) - (o + m) = n - m
  BY <1>1
<1>7. Holds(f, o + m, o + n, q)
  BY <1>3, <1>4, <1>5, <1>6 DEF Holds
<1> QED BY <1>7 DEF q

\* reserve: the ends of the packet move over what is in the buffer.
LEMMA HoldsReserve ==
  ASSUME NEW f, NEW o, NEW e, NEW p, Holds(f, o, e, p), NEW n \in Nat, e + n <= Size,
         NEW q, q = [k \in 1 .. e - o |-> IF k + n <= e - o THEN p[k + n] ELSE f[o + n + k - 1]]
  PROVE  Holds(f, o + n, e + n, q)
<1>1. /\ Size \in Nat /\ o \in Nat /\ e \in Nat /\ o <= e /\ e - o \in Nat
      /\ o + n \in Nat /\ e + n \in Nat /\ o + n <= e + n /\ (e + n) - (o + n) = e - o
  BY PartsAssumption DEF Skb!ConstantsAssumption, Holds
<1>2. ASSUME NEW k \in 1 .. e - o PROVE q[k] = f[o + n + k - 1] /\ q[k] \in Bytes
  <2>1. o + n + k - 1 \in 0 .. Size - 1
    BY <1>1
  <2>2. f[o + n + k - 1] \in Bytes
    BY <2>1 DEF Holds
  <2>3. CASE k + n <= e - o
    <3>1. k + n \in 1 .. e - o /\ o + (k + n) - 1 = o + n + k - 1
      BY <1>1, <2>3
    <3>2. f[o + n + k - 1] = p[k + n]
      BY <3>1 DEF Holds
    <3> QED BY <2>2, <2>3, <3>2
  <2> QED BY <2>2, <2>3
<1>3. q \in [1 .. e - o -> Bytes]
  BY <1>2
<1>4. q \in Seq(Bytes) /\ Len(q) = e - o
  <2> DEFINE m == e - o
  <2>1. m \in Nat /\ q \in [1 .. m -> Bytes]
    BY <1>1, <1>3
  <2> HIDE DEF m
  <2>2. q \in Seq(Bytes)
    BY <2>1, SeqDef
  <2>3. DOMAIN q = 1 .. Len(q) /\ Len(q) \in Nat
    BY <2>2, LenProperties
  <2>4. DOMAIN q = 1 .. m
    BY <2>1
  <2>5. Len(q) = m
    <3> DEFINE l == Len(q)
    <3>1. l \in Nat /\ 1 .. l = 1 .. m
      BY <2>3, <2>4
    <3> HIDE DEF l
    <3>2. l \in 1 .. l => l <= m
      BY <2>1, <3>1
    <3>3. m \in 1 .. m => m <= l
      BY <2>1, <3>1
    <3>4. l = m
      BY <2>1, <3>1, <3>2, <3>3
    <3> QED BY <3>4 DEF l
  <2> QED BY <2>2, <2>5 DEF m
<1> QED BY <1>1, <1>2, <1>4 DEF Holds

\* A write changes only bytes of the buffer.
LEMMA WrittenIs ==
  ASSUME buffer \in [0 .. Size - 1 -> Bytes], NEW c \in Nat, NEW bs \in Seq(Bytes)
  PROVE  Skb!Written(c, bs) \in [0 .. Size - 1 -> Bytes]
<1>1. ASSUME NEW k \in 0 .. Size - 1, k >= c /\ k < c + Len(bs) PROVE bs[k - c + 1] \in Bytes
  <2>1. k - c + 1 \in 1 .. Len(bs)
    BY <1>1
  <2> QED BY <2>1, ElementOfSeq
<1> QED BY <1>1 DEF Skb!Written

\* The ends of the payload are in order, and within reach of reserve.
Ends(o, e) == o \in Nat /\ e \in Nat /\ o <= e /\ e <= Size + Beyond

SkbInv ==
  /\ buffer \in [0 .. Size - 1 -> Bytes] /\ Ends(data, tail)
  /\ panic \in BOOLEAN /\ spoilt \in BOOLEAN /\ beyond \in BOOLEAN
  /\ beyond => payload = <<>>
  /\ ~beyond => ~spoilt /\ Holds(buffer, data, tail, payload)

\* SkbInv is strong enough.
LEMMA SkbInvImplies == SkbInv => Skb!TypeOK /\ Skb!PayloadIntact
<1> SUFFICES ASSUME SkbInv PROVE Skb!TypeOK /\ Skb!PayloadIntact
  OBVIOUS
<1>1. Size \in Nat /\ Beyond \in Nat
  BY PartsAssumption DEF Skb!ConstantsAssumption
<1>2. data \in Nat /\ tail \in data .. Size + Beyond
  BY <1>1 DEF SkbInv, Ends
<1>3. payload \in Seq(Bytes)
  <2>1. CASE beyond
    BY <2>1 DEF SkbInv
  <2>2. CASE ~beyond
    BY <2>2 DEF SkbInv, Holds
  <2> QED BY <2>1, <2>2
<1>4. Skb!TypeOK
  BY <1>2, <1>3, Zenon DEF SkbInv, Skb!TypeOK
<1>5. Skb!PayloadIntact
  BY DEF SkbInv, Holds, Skb!PayloadIntact, Skb!len
<1> QED BY <1>4, <1>5

\* A new buffer is empty.
LEMMA SkbInit == Skb!Init => SkbInv
<1> SUFFICES ASSUME Skb!Init PROVE SkbInv
  OBVIOUS
<1>1. Size \in Nat /\ Beyond \in Nat
  BY PartsAssumption DEF Skb!ConstantsAssumption
<1>2. /\ buffer \in [0 .. Size - 1 -> Bytes] /\ data = 0 /\ tail = 0
      /\ panic = FALSE /\ spoilt = FALSE /\ beyond = FALSE
      /\ payload = <<>> /\ payload \in Seq(Bytes) /\ Len(payload) = 0
  BY DEF Skb!Init
<1>3. tail - data = 0 /\ \A k \in 1 .. tail - data : FALSE
  BY <1>2
<1>4. /\ data \in Nat /\ tail \in Nat /\ data <= tail /\ tail <= Size
      /\ Len(payload) = tail - data /\ tail <= Size + Beyond
  BY <1>1, <1>2
<1>5. Holds(buffer, data, tail, payload)
  BY <1>2, <1>3, <1>4, Zenon DEF Holds
<1> QED BY <1>2, <1>4, <1>5, Zenon DEF SkbInv, Ends

\* What a step has to show: where the packet is, and, if it never left the
\* buffer, what the buffer holds.
LEMMA SkbKept ==
  ASSUME buffer' \in [0 .. Size - 1 -> Bytes], Ends(data', tail'),
         panic' \in BOOLEAN, spoilt' \in BOOLEAN, beyond' \in BOOLEAN, NEW p, Skb!Tracks(p),
         ~beyond' => ~spoilt' /\ Holds(buffer', data', tail', p)
  PROVE  SkbInv'
<1>1. CASE beyond'
  <2>1. payload' = <<>>
    BY <1>1, Zenon DEF Skb!Tracks
  <2> QED BY <1>1, <2>1, Zenon DEF SkbInv
<1>2. CASE ~beyond'
  <2>1. payload' = p
    BY <1>2, Zenon DEF Skb!Tracks
  <2> QED BY <1>2, <2>1, Zenon DEF SkbInv
<1> QED BY <1>1, <1>2

\* Every step of the buffer.
LEMMA SkbNext == SkbInv /\ [Skb!Next]_(Skb!vars) => SkbInv'
<1> SUFFICES ASSUME SkbInv, [Skb!Next]_(Skb!vars) PROVE SkbInv'
  OBVIOUS
<1>1. /\ Size \in Nat /\ Beyond \in Nat /\ data \in Nat /\ tail \in Nat /\ data <= tail
      /\ tail <= Size + Beyond /\ Skb!len = tail - data
      /\ buffer \in [0 .. Size - 1 -> Bytes]
  BY PartsAssumption DEF Skb!ConstantsAssumption, SkbInv, Ends, Skb!len
<1>2. panic \in BOOLEAN /\ spoilt \in BOOLEAN /\ beyond \in BOOLEAN
  BY Zenon DEF SkbInv
<1>3. ASSUME ~beyond
      PROVE  /\ ~spoilt /\ Holds(buffer, data, tail, payload) /\ payload \in Seq(Bytes)
             /\ Len(payload) = tail - data /\ data <= Size /\ tail <= Size
  <2>1. ~spoilt /\ Holds(buffer, data, tail, payload)
    BY <1>3, Zenon DEF SkbInv
  <2> QED BY <1>1, <2>1 DEF Holds
<1>4. ASSUME NEW n \in Skb!Lengths PROVE n \in Nat
  BY <1>1 DEF Skb!Lengths
<1>5. ASSUME NEW n \in Skb!Lengths, Skb!reserve(n) PROVE SkbInv'
  <2> DEFINE p == [k \in 1 .. tail - data |-> IF k + n <= tail - data THEN payload[k + n]
                                              ELSE buffer[data + n + k - 1]]
  <2>1. /\ data' = data + n /\ tail' = tail + n /\ tail + n <= Size + Beyond
        /\ buffer' = buffer /\ Skb!Tracks(p)
    BY <1>1, <1>5 DEF Skb!reserve
  <2>2. panic' = panic /\ spoilt' = spoilt /\ beyond' = (beyond \/ tail + n > Size)
    BY <1>5 DEF Skb!reserve
  <2>3. ~beyond' => ~beyond /\ ~(tail + n > Size)
    BY <2>2, Zenon
  <2>4. beyond' \in BOOLEAN
    BY <2>2, Zenon
  <2>5. ASSUME ~beyond' PROVE Holds(buffer, data + n, tail + n, p)
    <3>1. Holds(buffer, data, tail, payload) /\ tail + n <= Size /\ n \in Nat
      BY <1>1, <1>3, <1>4, <2>3, <2>5
    <3> HIDE DEF p
    <3> QED BY <3>1, HoldsReserve DEF p
  <2>6. Ends(data', tail')
    BY <1>1, <1>4, <2>1 DEF Ends
  <2> HIDE DEF p
  <2>7. ~beyond' => ~spoilt' /\ Holds(buffer', data', tail', p)
    BY <1>3, <2>1, <2>2, <2>3, <2>5, Zenon
  <2>8. buffer' \in [0 .. Size - 1 -> Bytes] /\ panic' \in BOOLEAN /\ spoilt' \in BOOLEAN
    BY <1>1, <1>2, <2>1, <2>2, Zenon
  <2> QED BY <2>1, <2>4, <2>6, <2>7, <2>8, SkbKept, Zenon
<1>6. ASSUME NEW n \in Skb!Lengths, Skb!pull(n) PROVE SkbInv'
  <2> DEFINE p == SubSeq(payload, n + 1, Len(payload))
  <2>1. /\ n <= tail - data /\ data' = data + n /\ tail' = tail /\ Skb!Tracks(p)
    BY <1>1, <1>6 DEF Skb!pull
  <2>2. buffer' = buffer /\ panic' = panic /\ spoilt' = spoilt /\ beyond' = beyond
    BY <1>6 DEF Skb!pull
  <2>3. ASSUME ~beyond PROVE Holds(buffer, data + n, tail, p)
    <3>1. /\ tail - data \in Nat /\ tail - data <= tail - data /\ n \in Nat
          /\ data + (tail - data) = tail
      BY <1>1, <1>4
    <3>2. Holds(buffer, data + n, data + (tail - data), SubSeq(payload, n + 1, tail - data))
      BY <1>3, <2>1, <2>3, <3>1, HoldsPart
    <3> QED BY <1>3, <2>3, <3>1, <3>2
  <2>4. Ends(data', tail')
    BY <1>1, <1>4, <2>1 DEF Ends
  <2> HIDE DEF p
  <2>5. ~beyond' => ~spoilt' /\ Holds(buffer', data', tail', p)
    BY <1>3, <2>1, <2>2, <2>3, Zenon
  <2> QED BY <1>1, <1>2, <2>1, <2>2, <2>4, <2>5, SkbKept, Zenon
<1>7. ASSUME NEW n \in Skb!Lengths, Skb!trim(n) PROVE SkbInv'
  <2> DEFINE p == IF Len(payload) > n THEN SubSeq(payload, 1, n) ELSE payload
  <2>1. /\ tail' = (IF tail - data > n THEN data + n ELSE tail) /\ data' = data /\ Skb!Tracks(p)
    BY <1>1, <1>7 DEF Skb!trim
  <2>2. buffer' = buffer /\ panic' = panic /\ spoilt' = spoilt /\ beyond' = beyond
    BY <1>7 DEF Skb!trim
  <2>3. ASSUME ~beyond PROVE Holds(buffer, data, tail', p)
    <3>1. Holds(buffer, data, tail, payload) /\ Len(payload) = tail - data
      BY <1>3, <2>3
    <3>2. CASE tail - data > n
      <4>1. Holds(buffer, data + 0, data + n, SubSeq(payload, 0 + 1, n))
        BY <1>1, <1>4, <3>1, <3>2, HoldsPart
      <4>2. data + 0 = data
        BY <1>1
      <4> QED BY <2>1, <3>1, <3>2, <4>1, <4>2
    <3>3. CASE ~(tail - data > n)
      BY <2>1, <3>1, <3>3
    <3> QED BY <3>2, <3>3
  <2>4. Ends(data', tail')
    BY <1>1, <1>4, <2>1 DEF Ends
  <2> HIDE DEF p
  <2>5. ~beyond' => ~spoilt' /\ Holds(buffer', data', tail', p)
    BY <1>3, <2>1, <2>2, <2>3, Zenon
  <2> QED BY <1>1, <1>2, <2>1, <2>2, <2>4, <2>5, SkbKept, Zenon
<1>8. ASSUME panic' = TRUE, UNCHANGED <<buffer, data, tail, spoilt, beyond, payload>> PROVE SkbInv'
  BY <1>8, Zenon DEF SkbInv
<1>9. ASSUME NEW bs \in Skb!Strings, Skb!push(bs) PROVE SkbInv'
  <2>1. bs \in Seq(Bytes) /\ Len(bs) \in Nat
    BY StringsAre
  <2>2. tail' = tail /\ beyond' = beyond /\ panic' = (Len(bs) > data)
    BY <1>9 DEF Skb!push
  <2>3. CASE Len(bs) > data
    <3>1. panic' = TRUE
      BY <2>2, <2>3, Zenon
    <3>2. UNCHANGED <<buffer, data, spoilt, payload>>
      BY <1>9, <3>1 DEF Skb!push
    <3> QED BY <1>8, <2>2, <3>1, <3>2, Zenon
  <2>4. CASE ~(Len(bs) > data)
    <3>0. (Len(bs) > data) = FALSE
      BY <2>4
    <3> DEFINE p == bs \o payload
    <3>1. panic' = FALSE
      BY <2>2, <3>0
    <3>2. data' = data - Len(bs) /\ buffer' = Skb!Written(data', bs) /\ Skb!Tracks(p)
      BY <1>9, <3>1 DEF Skb!push
    <3>3. spoilt' = (data > Size)
      BY <1>9, <3>1 DEF Skb!push
    <3>4. Len(bs) <= data /\ data' \in Nat
      BY <1>1, <2>1, <2>4, <3>2
    <3>5. buffer' \in [0 .. Size - 1 -> Bytes]
      BY <1>1, <2>1, <3>2, <3>4, WrittenIs
    <3>6. ASSUME ~beyond PROVE Holds(buffer', data', tail, p)
      <4>1. buffer' = [k \in 0 .. Size - 1 |->
                         IF k >= data - Len(bs) /\ k < data - Len(bs) + Len(bs)
                         THEN bs[k - (data - Len(bs)) + 1] ELSE buffer[k]]
        BY <3>2 DEF Skb!Written
      <4>2. Holds(buffer, data, tail, payload)
        BY <1>3, <3>6
      <4> QED BY <2>1, <3>2, <3>4, <4>1, <4>2, HoldsPush
    <3>7. ASSUME ~beyond PROVE ~(data > Size)
      BY <1>1, <1>3, <3>7
    <3>8. Ends(data', tail')
      BY <1>1, <2>1, <2>2, <3>2, <3>4 DEF Ends
    <3> HIDE DEF p
    <3>9. ~beyond' => ~spoilt' /\ Holds(buffer', data', tail', p)
      BY <2>2, <3>3, <3>6, <3>7, Zenon
    <3>10. spoilt' \in BOOLEAN
      BY <3>3
    <3> QED BY <1>2, <2>2, <3>1, <3>2, <3>5, <3>8, <3>9, <3>10, SkbKept, Zenon
  <2> QED BY <2>3, <2>4
<1>10. ASSUME NEW bs \in Skb!Strings, Skb!put(bs) PROVE SkbInv'
  <2>1. bs \in Seq(Bytes) /\ Len(bs) \in Nat
    BY StringsAre
  <2>2. data' = data /\ spoilt' = spoilt /\ beyond' = beyond /\ panic' = (tail + Len(bs) > Size)
    BY <1>10 DEF Skb!put
  <2>3. CASE tail + Len(bs) > Size
    <3>1. panic' = TRUE
      BY <2>2, <2>3, Zenon
    <3>2. UNCHANGED <<buffer, tail, payload>>
      BY <1>10, <3>1 DEF Skb!put
    <3> QED BY <1>8, <2>2, <3>1, <3>2, Zenon
  <2>4. CASE ~(tail + Len(bs) > Size)
    <3>0. (tail + Len(bs) > Size) = FALSE
      BY <2>4
    <3> DEFINE p == payload \o bs
    <3>1. panic' = FALSE
      BY <2>2, <3>0
    <3>2. tail' = tail + Len(bs) /\ buffer' = Skb!Written(tail, bs) /\ Skb!Tracks(p)
      BY <1>10, <3>1 DEF Skb!put
    <3>3. tail + Len(bs) <= Size
      BY <1>1, <2>1, <2>4
    <3>4. buffer' \in [0 .. Size - 1 -> Bytes]
      BY <1>1, <2>1, <3>2, WrittenIs
    <3>5. ASSUME ~beyond PROVE Holds(buffer', data, tail + Len(bs), p)
      <4>1. buffer' = [k \in 0 .. Size - 1 |->
                         IF k >= tail /\ k < tail + Len(bs) THEN bs[k - tail + 1] ELSE buffer[k]]
        BY <3>2 DEF Skb!Written
      <4>2. Holds(buffer, data, tail, payload)
        BY <1>3, <3>5
      <4> QED BY <2>1, <3>3, <4>1, <4>2, HoldsPut
    <3>6. Ends(data', tail')
      BY <1>1, <2>1, <2>2, <3>2, <3>3 DEF Ends
    <3> HIDE DEF p
    <3>7. ~beyond' => ~spoilt' /\ Holds(buffer', data', tail', p)
      BY <1>3, <2>2, <3>2, <3>5, Zenon
    <3> QED BY <1>2, <2>2, <3>1, <3>2, <3>4, <3>6, <3>7, SkbKept, Zenon
  <2> QED BY <2>3, <2>4
<1>11. CASE UNCHANGED Skb!vars
  <2>1. /\ buffer' = buffer /\ data' = data /\ tail' = tail /\ payload' = payload
        /\ panic' = panic /\ spoilt' = spoilt /\ beyond' = beyond
    BY <1>11 DEF Skb!vars
  <2> QED BY <2>1, Zenon DEF SkbInv
<1> QED BY <1>5, <1>6, <1>7, <1>9, <1>10, <1>11 DEF Skb!Next

------------------------------------------------------------------------------
(***************************************************************************)
(* Page.  A place is given up when its count of mappings is 1: that this   *)
(* is the last MappedPtr with its address needs the count to be exact.     *)
(***************************************************************************)

\* The instance's IsFiniteSet is the one of FiniteSets.
LEMMA PageFinite == ASSUME NEW S PROVE P!IsFiniteSet(S) <=> IsFiniteSet(S)
BY DEF P!IsFiniteSet, IsFiniteSet

\* The MappedPtrs with address s, as pairs of a thread and a scope.
PtrsTo(a, s) ==
  {x \in Mappers \X (1 .. Depth) : x[2] <= Len(a[x[1]]) /\ a[x[1]][x[2]] = s}

PageInv ==
  /\ P!TypeOK /\ P!AddressStaysMapped
  /\ \A t \in Mappers :
       /\ Len(addr_[t]) = Len(meant[t])
       /\ Len(addr_[t]) + (IF waiting[t] = nullptr THEN 0 ELSE 1) <= Depth
  /\ \A s \in PageSlots : mappings[s] = Cardinality(PtrsTo(addr_, s))

\* What the assumptions on the constants say of the page mappings.
LEMMA PageConstants ==
  IsFiniteSet(Mappers) /\ Depth \in Nat \ {0} /\ nullptr \notin Pages
BY PartsAssumption, PageFinite DEF P!ConstantsAssumption

\* The pointers into a slot are finitely many.
LEMMA PtrsFinite ==
  ASSUME NEW a, NEW s PROVE IsFiniteSet(PtrsTo(a, s)) /\ Cardinality(PtrsTo(a, s)) \in Nat
<1>1. IsFiniteSet(1 .. Depth)
  BY PageConstants, FS_Interval
<1>2. IsFiniteSet(Mappers \X (1 .. Depth))
  BY <1>1, PageConstants, FS_Product
<1>3. IsFiniteSet(PtrsTo(a, s))
  BY <1>2, FS_Subset DEF PtrsTo
<1> QED BY <1>3, FS_CardinalityType

\* Nothing is mapped.
LEMMA PageInit == P!Init => PageInv
<1> SUFFICES ASSUME P!Init PROVE PageInv
  OBVIOUS
<1>1. P!TypeOK
  BY DEF P!Init, P!TypeOK
<1>2. \A t \in Mappers : Len(addr_[t]) = 0 /\ Len(meant[t]) = 0 /\ waiting[t] = nullptr
  BY DEF P!Init
<1>3. P!AddressStaysMapped
  BY DEF P!Init, P!AddressStaysMapped
<1>4. ASSUME NEW s \in PageSlots PROVE mappings[s] = Cardinality(PtrsTo(addr_, s))
  <2>1. PtrsTo(addr_, s) = {}
    BY <1>2, PageConstants DEF PtrsTo
  <2> QED BY <2>1, FS_EmptySet DEF P!Init
<1>5. ASSUME NEW t \in Mappers
      PROVE  Len(addr_[t]) + (IF waiting[t] = nullptr THEN 0 ELSE 1) <= Depth
  <2>1. Len(addr_[t]) = 0 /\ (IF waiting[t] = nullptr THEN 0 ELSE 1) = 0
    BY <1>2
  <2> QED BY <2>1, PageConstants
<1> QED BY <1>1, <1>2, <1>3, <1>4, <1>5 DEF PageInv

\* From a to b the thread t gets one MappedPtr more.
OneMore(a, b, t) ==
  /\ a \in [Mappers -> Seq(PageSlots)] /\ t \in Mappers /\ Len(a[t]) + 1 <= Depth
  /\ Len(b[t]) = Len(a[t]) + 1 /\ \A k \in 1 .. Len(a[t]) : b[t][k] = a[t][k]
  /\ \A x \in Mappers \ {t} : b[x] = a[x]

\* kmap adds one MappedPtr, and ~MappedPtr takes one away.
LEMMA PtrsAppend ==
  ASSUME NEW a, NEW b, NEW t, OneMore(a, b, t), NEW r
  PROVE  /\ r = b[t][Len(a[t]) + 1] => Cardinality(PtrsTo(b, r)) = Cardinality(PtrsTo(a, r)) + 1
         /\ r # b[t][Len(a[t]) + 1] => PtrsTo(b, r) = PtrsTo(a, r)
<1> USE DEF OneMore
<1> DEFINE n == Len(a[t]) + 1
<1>1. n \in 1 .. Depth /\ Len(a[t]) \in Nat /\ Depth \in Nat
  BY PageConstants
<1>4. ASSUME NEW x \in Mappers \X (1 .. Depth), x # <<t, n>>
      PROVE  x \in PtrsTo(b, r) <=> x \in PtrsTo(a, r)
  <2>1. PICK y \in Mappers, k \in 1 .. Depth : x = <<y, k>>
    OBVIOUS
  <2>2. CASE y # t
    BY <2>1, <2>2 DEF PtrsTo
  <2>3. CASE y = t
    <3>1. k # n /\ (k <= n <=> k <= Len(a[t]))
      BY <1>1, <1>4, <2>1, <2>3
    <3>2. k <= n => b[t][k] = a[t][k]
      BY <1>1, <3>1
    <3> QED BY <2>1, <2>3, <3>1, <3>2 DEF PtrsTo
  <2> QED BY <2>2, <2>3
<1>5. <<t, n>> \notin PtrsTo(a, r) /\ (<<t, n>> \in PtrsTo(b, r) <=> r = b[t][n])
  BY <1>1 DEF PtrsTo
<1> HIDE DEF n
<1>6. PtrsTo(b, r) = IF r = b[t][n] THEN PtrsTo(a, r) \union {<<t, n>>} ELSE PtrsTo(a, r)
  BY <1>4, <1>5 DEF PtrsTo
<1>7. IsFiniteSet(PtrsTo(a, r)) /\ Cardinality(PtrsTo(a, r)) \in Nat
  BY PtrsFinite, Zenon
<1>8. CASE r = b[t][n]
  <2>1. Cardinality(PtrsTo(a, r) \union {<<t, n>>}) = Cardinality(PtrsTo(a, r)) + 1
    BY <1>5, <1>7, FS_AddElement, Zenon
  <2> QED BY <1>6, <1>8, <2>1 DEF n
<1>9. CASE r # b[t][n]
  BY <1>6, <1>7, <1>9 DEF n
<1> QED BY <1>8, <1>9

\* The end of the last mapping of a thread takes one pointer away.
LEMMA PtrsFront ==
  ASSUME NEW a \in [Mappers -> Seq(PageSlots)], NEW t \in Mappers, a[t] # <<>>,
         Len(a[t]) <= Depth, NEW b, b = [a EXCEPT ![t] = SubSeq(a[t], 1, Len(a[t]) - 1)],
         NEW r \in PageSlots
  PROVE  /\ r = a[t][Len(a[t])] => Cardinality(PtrsTo(b, r)) = Cardinality(PtrsTo(a, r)) - 1
         /\ r # a[t][Len(a[t])] => PtrsTo(b, r) = PtrsTo(a, r)
<1> DEFINE n == Len(a[t])
           q == SubSeq(a[t], 1, n - 1)
<1>1. n \in 1 .. Depth /\ Len(a[t]) \in Nat /\ Depth \in Nat
  BY PageConstants
<1>2. Len(q) = n - 1 /\ \A k \in 1 .. n - 1 : q[k] = a[t][k]
  <2>1. a[t] \in Seq(PageSlots) /\ \A k \in 1 .. n - 1 : a[t][k] \in PageSlots
    BY <1>1, ElementOfSeq
  <2>2. /\ Len(q) = IF 1 <= n - 1 THEN n - 1 - 1 + 1 ELSE 0
        /\ \A k \in 1 .. n - 1 - 1 + 1 : q[k] = a[t][1 + k - 1]
    BY <1>1, <2>1, SubSeqProperties
  <2> HIDE DEF q, n
  <2>3. Len(q) = n - 1
    BY <1>1, <2>2
  <2>4. ASSUME NEW k \in 1 .. n - 1 PROVE k \in 1 .. n - 1 - 1 + 1 /\ 1 + k - 1 = k
    BY <1>1
  <2> QED BY <2>2, <2>3, <2>4
<1>3. b[t] = q /\ \A x \in Mappers \ {t} : b[x] = a[x]
  OBVIOUS
<1> HIDE DEF q
<1>4. ASSUME NEW x \in Mappers \X (1 .. Depth), x # <<t, n>>
      PROVE  x \in PtrsTo(b, r) <=> x \in PtrsTo(a, r)
  <2>1. PICK y \in Mappers, k \in 1 .. Depth : x = <<y, k>>
    OBVIOUS
  <2>2. CASE y # t
    BY <1>3, <2>1, <2>2 DEF PtrsTo
  <2>3. CASE y = t
    <3>1. k # n /\ (k <= n <=> k <= n - 1)
      BY <1>1, <1>4, <2>1, <2>3
    <3>2. k <= n - 1 => q[k] = a[t][k]
      BY <1>1, <1>2, <3>1
    <3> QED BY <1>2, <1>3, <2>1, <2>3, <3>1, <3>2 DEF PtrsTo
  <2> QED BY <2>2, <2>3
<1>5. <<t, n>> \notin PtrsTo(b, r) /\ (<<t, n>> \in PtrsTo(a, r) <=> r = a[t][n])
  BY <1>1, <1>2, <1>3 DEF PtrsTo
<1>6. PtrsTo(b, r) = IF r = a[t][n] THEN PtrsTo(a, r) \ {<<t, n>>} ELSE PtrsTo(a, r)
  <2> HIDE DEF n
  <2> QED BY <1>4, <1>5 DEF PtrsTo
<1>7. CASE r = a[t][n]
  <2>1. PtrsTo(b, r) = PtrsTo(a, r) \ {<<t, n>>} /\ <<t, n>> \in PtrsTo(a, r)
    BY <1>5, <1>6, <1>7
  <2>2. Cardinality(PtrsTo(b, r)) = Cardinality(PtrsTo(a, r)) - 1
    <3>1. IsFiniteSet(PtrsTo(a, r))
      BY PtrsFinite, Zenon
    <3>2. Cardinality(PtrsTo(a, r) \ {<<t, n>>}) = Cardinality(PtrsTo(a, r)) - 1
      BY <2>1, <3>1, FS_RemoveElement, Zenon
    <3> QED BY <2>1, <3>2
  <2> QED BY <1>7, <2>2
<1>8. CASE r # a[t][n]
  BY <1>6, <1>8, PtrsFinite
<1> QED BY <1>7, <1>8

\* The constructor of a mapping.
LEMMA PageMapStep ==
  ASSUME PageInv, NEW t \in Mappers, NEW p \in Pages, P!map(t, p) PROVE PageInv'
<1>1. /\ waiting[t] = nullptr /\ Len(addr_[t]) < Depth /\ waiting' = [waiting EXCEPT ![t] = p]
      /\ UNCHANGED <<addr_, meant, page, mappings>>
  BY DEF P!map
<1>2. Len(addr_[t]) \in Nat /\ Depth \in Nat
  BY PageConstants DEF PageInv, P!TypeOK
<1>3. P!TypeOK' /\ P!AddressStaysMapped'
  BY <1>1 DEF PageInv, P!TypeOK, P!AddressStaysMapped
<1>4. ASSUME NEW x \in Mappers
      PROVE  Len(addr_[x]) + (IF waiting'[x] = nullptr THEN 0 ELSE 1) <= Depth
  <2>1. CASE x = t
    <3>1. Len(addr_[x]) + 1 <= Depth /\ Len(addr_[x]) + 0 <= Depth
      BY <1>1, <1>2, <2>1
    <3> QED BY <3>1
  <2>2. CASE x # t
    <3>1. waiting'[x] = waiting[x]
      BY <1>1, <2>2 DEF PageInv, P!TypeOK
    <3> QED BY <3>1 DEF PageInv
  <2> QED BY <2>1, <2>2
<1> QED BY <1>1, <1>3, <1>4 DEF PageInv

\* kmap finds a slot or takes one.
LEMMA PageKmap ==
  ASSUME PageInv, NEW t \in Mappers, P!kmap(t) PROVE PageInv'
<1> DEFINE p == waiting[t]
<1>1. p # nullptr /\ p \in Pages
  BY DEF PageInv, P!TypeOK, P!kmap
<1>2. PICK s \in PageSlots :
        /\ page[s] \in {p, nullptr}
        /\ page' = [page EXCEPT ![s] = p]
        /\ mappings' = [mappings EXCEPT ![s] = mappings[s] + 1]
        /\ addr_' = [addr_ EXCEPT ![t] = Append(addr_[t], s)]
        /\ meant' = [meant EXCEPT ![t] = Append(meant[t], p)]
        /\ waiting' = [waiting EXCEPT ![t] = nullptr]
  BY DEF P!kmap
<1> HIDE DEF p
<1>3. /\ addr_ \in [Mappers -> Seq(PageSlots)] /\ meant \in [Mappers -> Seq(Pages)]
      /\ Len(addr_[t]) = Len(meant[t]) /\ Len(addr_[t]) \in Nat /\ Depth \in Nat
      /\ Len(addr_[t]) + 1 <= Depth
  <2>1. Len(addr_[t]) + (IF p = nullptr THEN 0 ELSE 1) <= Depth
    BY DEF PageInv, p
  <2> QED BY <1>1, <2>1, PageConstants DEF PageInv, P!TypeOK
<1>4. P!TypeOK'
  <2>1. addr_' \in [Mappers -> Seq(PageSlots)] /\ meant' \in [Mappers -> Seq(Pages)]
    BY <1>1, <1>2, <1>3
  <2>2. mappings[s] + 1 \in Nat
    BY DEF PageInv, P!TypeOK
  <2> QED BY <1>1, <1>2, <2>1, <2>2 DEF PageInv, P!TypeOK
<1>5. /\ Len(addr_'[t]) = Len(addr_[t]) + 1 /\ Len(meant'[t]) = Len(addr_[t]) + 1
      /\ addr_'[t][Len(addr_[t]) + 1] = s /\ meant'[t][Len(addr_[t]) + 1] = p
      /\ \A k \in 1 .. Len(addr_[t]) : addr_'[t][k] = addr_[t][k] /\ meant'[t][k] = meant[t][k]
      /\ \A x \in Mappers \ {t} : /\ addr_'[x] = addr_[x] /\ meant'[x] = meant[x]
                                  /\ waiting'[x] = waiting[x]
      /\ waiting'[t] = nullptr
  <2>1. addr_'[t] = Append(addr_[t], s) /\ meant'[t] = Append(meant[t], p) /\ waiting'[t] = nullptr
    BY <1>2, <1>3 DEF PageInv, P!TypeOK
  <2>2. \A x \in Mappers \ {t} : addr_'[x] = addr_[x] /\ meant'[x] = meant[x] /\ waiting'[x] = waiting[x]
    BY <1>2, <1>3 DEF PageInv, P!TypeOK
  <2>3. addr_[t] \in Seq(PageSlots) /\ meant[t] \in Seq(Pages)
    BY <1>3
  <2> QED BY <1>1, <1>3, <2>1, <2>2, <2>3
\* An old address with s was made for the page at s, so that s was not free.
<1>6. ASSUME NEW x \in Mappers, NEW k \in 1 .. Len(addr_[x])
      PROVE  page'[addr_[x][k]] = meant[x][k]
  <2>1. /\ page[addr_[x][k]] = meant[x][k] /\ meant[x][k] \in Pages /\ addr_[x][k] \in PageSlots
    <3>1. addr_[x] \in Seq(PageSlots) /\ meant[x] \in Seq(Pages) /\ k \in 1 .. Len(meant[x])
      BY <1>3 DEF PageInv
    <3>2. k \in DOMAIN addr_[x]
      BY <3>1
    <3>3. page[addr_[x][k]] = meant[x][k]
      BY <3>2 DEF PageInv, P!AddressStaysMapped
    <3> QED BY <3>1, <3>3, ElementOfSeq
  <2> QED BY <1>2, <2>1, PageConstants DEF PageInv, P!TypeOK
<1>7. P!AddressStaysMapped'
  <2> SUFFICES ASSUME NEW x \in Mappers, NEW k \in DOMAIN addr_'[x]
               PROVE  page'[addr_'[x][k]] = meant'[x][k]
    BY DEF P!AddressStaysMapped
  <2>0. k \in 1 .. Len(addr_'[x])
    BY <1>4 DEF P!TypeOK
  <2>1. CASE x # t
    BY <1>5, <1>6, <2>0, <2>1
  <2>2. CASE x = t /\ k # Len(addr_[t]) + 1
    BY <1>3, <1>5, <1>6, <2>0, <2>2
  <2>3. CASE x = t /\ k = Len(addr_[t]) + 1
    BY <1>2, <1>5, <2>3 DEF PageInv, P!TypeOK
  <2> QED BY <2>1, <2>2, <2>3
<1>8. ASSUME NEW x \in Mappers
      PROVE  /\ Len(addr_'[x]) = Len(meant'[x])
             /\ Len(addr_'[x]) + (IF waiting'[x] = nullptr THEN 0 ELSE 1) <= Depth
  <2>1. CASE x = t
    BY <1>3, <1>5, <2>1
  <2>2. CASE x # t
    BY <1>5, <2>2 DEF PageInv
  <2> QED BY <2>1, <2>2
<1>9. ASSUME NEW r \in PageSlots PROVE mappings'[r] = Cardinality(PtrsTo(addr_', r))
  <2>1. /\ r = s => Cardinality(PtrsTo(addr_', r)) = Cardinality(PtrsTo(addr_, r)) + 1
        /\ r # s => PtrsTo(addr_', r) = PtrsTo(addr_, r)
    <3>1. OneMore(addr_, addr_', t)
      BY <1>3, <1>5 DEF OneMore
    <3>2. /\ r = addr_'[t][Len(addr_[t]) + 1]
               => Cardinality(PtrsTo(addr_', r)) = Cardinality(PtrsTo(addr_, r)) + 1
          /\ r # addr_'[t][Len(addr_[t]) + 1] => PtrsTo(addr_', r) = PtrsTo(addr_, r)
      BY <3>1, PtrsAppend, SMT
    <3> QED BY <1>5, <3>2
  <2>2. mappings[r] = Cardinality(PtrsTo(addr_, r)) /\ mappings[r] \in Nat
    BY DEF PageInv, P!TypeOK
  <2>3. mappings'[r] = mappings[r] + (IF r = s THEN 1 ELSE 0)
    BY <1>2, <2>2 DEF PageInv, P!TypeOK
  <2> QED BY <2>1, <2>2, <2>3
<1> QED BY <1>4, <1>7, <1>8, <1>9 DEF PageInv

\* kunmap of the last mapping of a thread.
LEMMA PageUnmap ==
  ASSUME PageInv, NEW t \in Mappers, P!Unmap(t) PROVE PageInv'
<1> DEFINE n == Len(addr_[t])
           s == addr_[t][n]
<1>1. /\ addr_ \in [Mappers -> Seq(PageSlots)] /\ meant \in [Mappers -> Seq(Pages)]
      /\ Len(addr_[t]) = Len(meant[t]) /\ Depth \in Nat /\ n \in Nat /\ n <= Depth
      /\ waiting[t] = nullptr /\ addr_[t] # <<>>
  <2>1. waiting[t] = nullptr /\ addr_[t] # <<>>
    BY DEF P!Unmap
  <2>2. n + 0 <= Depth
    BY <2>1 DEF PageInv
  <2>3. n \in Nat
    BY DEF PageInv, P!TypeOK
  <2> QED BY <2>1, <2>2, <2>3, PageConstants DEF PageInv, P!TypeOK
<1>2. n \in 1 .. Depth /\ s \in PageSlots
  <2>1. addr_[t] \in Seq(PageSlots) /\ n # 0
    BY <1>1
  <2>2. n \in 1 .. n
    BY <1>1, <2>1
  <2> QED BY <1>1, <2>1, <2>2, ElementOfSeq
<1>3. /\ mappings' = [mappings EXCEPT ![s] = mappings[s] - 1]
      /\ page' = (IF mappings[s] = 1 THEN [page EXCEPT ![s] = nullptr] ELSE page)
      /\ addr_' = [addr_ EXCEPT ![t] = SubSeq(addr_[t], 1, n - 1)]
      /\ meant' = [meant EXCEPT ![t] = SubSeq(meant[t], 1, n - 1)]
      /\ waiting' = waiting
  BY <1>1 DEF P!Unmap, P!Last, P!Front
<1>4. /\ addr_'[t] \in Seq(PageSlots) /\ Len(addr_'[t]) = n - 1
      /\ meant'[t] \in Seq(Pages) /\ Len(meant'[t]) = n - 1
      /\ \A k \in 1 .. n - 1 : addr_'[t][k] = addr_[t][k] /\ meant'[t][k] = meant[t][k]
  <2>1. addr_'[t] = SubSeq(addr_[t], 1, n - 1) /\ meant'[t] = SubSeq(meant[t], 1, n - 1)
    BY <1>1, <1>3
  <2>2. addr_[t] \in Seq(PageSlots) /\ meant[t] \in Seq(Pages) /\ Len(meant[t]) = n
    BY <1>1
  <2> QED BY <1>1, <1>2, <2>1, <2>2
<1>5. \A x \in Mappers \ {t} : addr_'[x] = addr_[x] /\ meant'[x] = meant[x]
  BY <1>1, <1>3
<1>6. ASSUME NEW r \in PageSlots
      PROVE  /\ mappings'[r] = Cardinality(PtrsTo(addr_', r))
             /\ mappings'[r] = mappings[r] - (IF r = s THEN 1 ELSE 0)
  <2>1. /\ r = s => Cardinality(PtrsTo(addr_', r)) = Cardinality(PtrsTo(addr_, r)) - 1
        /\ r # s => PtrsTo(addr_', r) = PtrsTo(addr_, r)
    <3>1. addr_ \in [Mappers -> Seq(PageSlots)]
      BY <1>1
    <3>2. Len(addr_[t]) <= Depth /\ addr_[t] # <<>>
      BY <1>1
    <3>3. addr_' = [addr_ EXCEPT ![t] = SubSeq(addr_[t], 1, Len(addr_[t]) - 1)]
      BY <1>3
    <3> QED BY <3>1, <3>2, <3>3, PtrsFront, ZenonT(60)
  <2>2. mappings[r] = Cardinality(PtrsTo(addr_, r)) /\ mappings[r] \in Nat
    BY DEF PageInv, P!TypeOK
  <2> HIDE DEF s
  <2>3. mappings'[r] = mappings[r] - (IF r = s THEN 1 ELSE 0)
    BY <1>3, <2>2 DEF PageInv, P!TypeOK
  <2> QED BY <2>1, <2>2, <2>3
<1>7. mappings' \in [PageSlots -> Nat]
  <2>1. \A r \in PageSlots : mappings'[r] \in Nat
    BY <1>6, PtrsFinite
  <2>2. DOMAIN mappings' = PageSlots /\ mappings' = [r \in DOMAIN mappings' |-> mappings'[r]]
    BY <1>3 DEF PageInv, P!TypeOK
  <2> QED BY <2>1, <2>2
<1>8. addr_' \in [Mappers -> Seq(PageSlots)] /\ meant' \in [Mappers -> Seq(Pages)]
  <2>1. SubSeq(addr_[t], 1, n - 1) \in Seq(PageSlots) /\ SubSeq(meant[t], 1, n - 1) \in Seq(Pages)
    BY <1>1, <1>3, <1>4
  <2> QED BY <1>1, <1>3, <2>1
<1>9. P!TypeOK'
  BY <1>3, <1>7, <1>8 DEF PageInv, P!TypeOK
\* The last MappedPtr with its address frees the place.
<1>10. ASSUME NEW x \in Mappers, NEW k \in 1 .. Len(addr_'[x])
       PROVE  page'[addr_'[x][k]] = page[addr_'[x][k]]
  <2>1. CASE mappings[s] # 1
    BY <1>3, <2>1
  <2>2. CASE mappings[s] = 1
    <3>1. PtrsTo(addr_', s) = {}
      <4>1. Cardinality(PtrsTo(addr_', s)) = 0
        BY <1>2, <1>6, <2>2
      <4> QED BY <4>1, PtrsFinite, FS_EmptySet
    <3>2. k \in 1 .. Depth /\ k <= Len(addr_'[x])
      <4>1. Len(addr_'[x]) \in Nat /\ Len(addr_'[x]) <= Depth
        <5>1. CASE x = t
          BY <1>1, <1>2, <1>4, <5>1
        <5>2. CASE x # t
          <6>1. Len(addr_[x]) \in Nat
            BY <1>1
          <6>2. Len(addr_[x]) + (IF waiting[x] = nullptr THEN 0 ELSE 1) <= Depth
            BY DEF PageInv
          <6> QED BY <1>1, <1>5, <5>2, <6>1, <6>2
        <5> QED BY <5>1, <5>2
      <4> QED BY <1>1, <4>1
    <3>3. addr_'[x][k] # s
      <4> HIDE DEF s
      <4>1. <<x, k>> \in Mappers \X (1 .. Depth) /\ <<x, k>> \notin PtrsTo(addr_', s)
        BY <3>1, <3>2
      <4> QED BY <3>2, <4>1 DEF PtrsTo
    <3>4. addr_'[x][k] \in PageSlots
      BY <1>8, ElementOfSeq
    <3> HIDE DEF s
    <3> QED BY <1>3, <2>2, <3>3, <3>4 DEF PageInv, P!TypeOK
  <2> QED BY <2>1, <2>2
<1>11. ASSUME NEW x \in Mappers, NEW k \in 1 .. Len(addr_'[x])
       PROVE  /\ k \in DOMAIN addr_[x]
              /\ addr_'[x][k] = addr_[x][k] /\ meant'[x][k] = meant[x][k]
  <2>1. CASE x = t
    <3>1. k \in 1 .. n - 1 /\ k \in 1 .. n
      BY <1>1, <1>4, <2>1
    <3> QED BY <1>1, <1>4, <2>1, <3>1
  <2>2. CASE x # t
    BY <1>1, <1>5, <2>2
  <2> QED BY <2>1, <2>2
<1>12. P!AddressStaysMapped'
  <2> SUFFICES ASSUME NEW x \in Mappers, NEW k \in DOMAIN addr_'[x]
               PROVE  page'[addr_'[x][k]] = meant'[x][k]
    BY DEF P!AddressStaysMapped
  <2>1. k \in 1 .. Len(addr_'[x])
    BY <1>8
  <2>2. page[addr_[x][k]] = meant[x][k]
    BY <1>11, <2>1 DEF PageInv, P!AddressStaysMapped
  <2> QED BY <1>10, <1>11, <2>1, <2>2
<1>13. ASSUME NEW x \in Mappers
       PROVE  /\ Len(addr_'[x]) = Len(meant'[x])
              /\ Len(addr_'[x]) + (IF waiting'[x] = nullptr THEN 0 ELSE 1) <= Depth
  <2>1. CASE x = t
    BY <1>1, <1>2, <1>3, <1>4, <2>1
  <2>2. CASE x # t
    BY <1>3, <1>5, <2>2 DEF PageInv
  <2> QED BY <2>1, <2>2
<1> QED BY <1>6, <1>9, <1>12, <1>13 DEF PageInv

\* Every step of the page mappings.
LEMMA PageNext == PageInv /\ [P!Next]_(P!vars) => PageInv'
<1> SUFFICES ASSUME PageInv, [P!Next]_(P!vars) PROVE PageInv'
  OBVIOUS
<1>1. CASE UNCHANGED P!vars
  BY <1>1 DEF PageInv, P!vars, P!TypeOK, P!AddressStaysMapped
<1> QED BY <1>1, PageMapStep, PageKmap, PageUnmap DEF P!Next

------------------------------------------------------------------------------
(***************************************************************************)
(* IoctlHandler.  What ret, calls and handled say while the pack is walked *)
(* follows from one fact: until handled is set no command before i has the *)
(* number, and when it is set a command had it and was the first.          *)
(***************************************************************************)

IoInv ==
  /\ Ioctl!TypeOK
  /\ pc \in {"copyin", "call", "copyout"} =>
       ~handled /\ i <= Len(Commands) /\ Commands[i].cmd = cmd
  /\ ~handled => \A m \in 1 .. i - 1 : Commands[m].cmd # cmd
  /\ handled => Ioctl!FirstMatch # {}
  /\ ~handled /\ pc # "copyout" => calls = <<>> /\ (pc = "idle" \/ ret = -ENOTTY)
  /\ pc = "copyout" => calls = <<i>> /\ ret = 0 /\ result = 0 /\ Ioctl!CopiesOut
  /\ handled =>
       \/ calls = <<>> /\ ret = -EFAULT
       \/ \E k \in Ioctl!FirstMatch :
            calls = <<k>> /\ (ret = result \/ (ret = -EFAULT /\ result = 0))

\* What the assumptions on the constants say of the handler.
LEMMA IoConstants ==
  /\ Len(Commands) \in Nat /\ \A k \in 1 .. Len(Commands) : Commands[k].cmd \in Cmds
  /\ 0 \in Arguments /\ 0 \in Results /\ Results \subseteq Int
  /\ ENOTTY \in Int \ {0} /\ EFAULT \in Int \ {0} /\ ENOTTY # EFAULT
  /\ -ENOTTY \in Int /\ -EFAULT \in Int /\ -ENOTTY # -EFAULT
<1>1. Ioctl!ConstantsAssumption
  BY PartsAssumption
<1>2. /\ Commands \in Seq([cmd : Cmds, dir : {"NONE", "READ", "WRITE", "READ_WRITE"}])
      /\ 0 \in Arguments /\ 0 \in Results /\ Results \subseteq Int
      /\ ENOTTY \in Int \ {0} /\ EFAULT \in Int \ {0} /\ ENOTTY # EFAULT
  BY <1>1 DEF Ioctl!ConstantsAssumption
<1>3. \A k \in 1 .. Len(Commands) : Commands[k].cmd \in Cmds
  <2>1. ASSUME NEW k \in 1 .. Len(Commands)
        PROVE  Commands[k] \in [cmd : Cmds, dir : {"NONE", "READ", "WRITE", "READ_WRITE"}]
    BY <1>2, ElementOfSeq
  <2> QED BY <2>1
<1>4. Len(Commands) \in Nat
  BY <1>2
<1> QED BY <1>2, <1>3, <1>4

\* The command that is being processed is the first with its number.
LEMMA IoFirst ==
  ASSUME IoInv, pc \in {"copyin", "call", "copyout"}
  PROVE  i \in Ioctl!FirstMatch /\ i \in 1 .. Len(Commands)
<1>1. i \in 1 .. Len(Commands)
  BY IoConstants DEF IoInv, Ioctl!TypeOK
<1> QED BY <1>1 DEF IoInv, Ioctl!FirstMatch

\* No call is in the handler.
LEMMA IoInit == Ioctl!Init => IoInv
<1> SUFFICES ASSUME Ioctl!Init PROVE IoInv
  OBVIOUS
<1>1. Ioctl!TypeOK
  <2>1. 1 \in 1 .. Len(Commands) + 1 /\ <<>> \in Seq(1 .. Len(Commands))
    BY IoConstants
  <2> QED BY <2>1, IoConstants DEF Ioctl!Init, Ioctl!TypeOK
<1>2. pc = "idle" /\ handled = FALSE /\ i = 1 /\ calls = <<>>
  BY DEF Ioctl!Init
<1>3. \A m \in 1 .. i - 1 : FALSE
  BY <1>2
<1> QED BY <1>1, <1>2, <1>3 DEF IoInv

\* A call of ioctl begins.
LEMMA IoHandle ==
  ASSUME IoInv, NEW c \in Cmds, Ioctl!Handle(c)
  PROVE  IoInv'
<1>1. /\ cmd' = c /\ i' = 1 /\ handled' = FALSE /\ ret' = -ENOTTY /\ calls' = <<>> /\ result' = 0
      /\ pc' = "match" /\ UNCHANGED <<argument, user, mapped>>
  BY DEF Ioctl!Handle
<1>2. Ioctl!TypeOK'
  <2>1. 1 \in 1 .. Len(Commands) + 1 /\ <<>> \in Seq(1 .. Len(Commands))
    BY IoConstants
  <2> QED BY <1>1, <2>1, IoConstants DEF IoInv, Ioctl!TypeOK
<1>3. \A m \in 1 .. i' - 1 : FALSE
  BY <1>1
<1> QED BY <1>1, <1>2, <1>3 DEF IoInv

\* A command is compared with that of the call.
LEMMA IoMatch == IoInv /\ Ioctl!Match => IoInv'
<1> SUFFICES ASSUME IoInv, Ioctl!Match PROVE IoInv'
  OBVIOUS
<1>1. /\ pc = "match" /\ i <= Len(Commands)
      /\ UNCHANGED <<cmd, handled, ret, user, mapped, calls, result>>
  BY DEF Ioctl!Match
<1>2. i \in Nat \ {0} /\ i \in 1 .. Len(Commands) /\ handled \in BOOLEAN
  BY <1>1, IoConstants DEF IoInv, Ioctl!TypeOK
<1>3. Ioctl!FirstMatch' = Ioctl!FirstMatch
  BY <1>1 DEF Ioctl!FirstMatch
<1>4. CASE Ioctl!Matches
  <2>1. pc' \in {"copyin", "call"} /\ argument' = 0 /\ i' = i
    BY <1>4 DEF Ioctl!Match
  <2>2. ~handled /\ Commands[i].cmd = cmd
    BY <1>4 DEF Ioctl!Matches, Ioctl!Command
  <2>3. Ioctl!TypeOK'
    BY <1>1, <2>1, IoConstants DEF IoInv, Ioctl!TypeOK
  <2> QED BY <1>1, <1>3, <2>1, <2>2, <2>3 DEF IoInv
<1>5. CASE ~Ioctl!Matches
  <2>1. i' = i + 1 /\ pc' = pc /\ argument' = argument
    BY <1>5 DEF Ioctl!Match
  <2>2. i' \in 1 .. Len(Commands) + 1
    BY <1>2, <2>1, IoConstants
  <2>3. Ioctl!TypeOK'
    BY <1>1, <2>1, <2>2 DEF IoInv, Ioctl!TypeOK
  <2>4. ASSUME ~handled, NEW m \in 1 .. i' - 1 PROVE Commands[m].cmd # cmd
    <3>1. CASE m = i
      BY <1>5, <2>4, <3>1 DEF Ioctl!Matches, Ioctl!Command
    <3>2. CASE m # i
      <4>1. m \in 1 .. i - 1
        BY <1>2, <2>1, <3>2
      <4> QED BY <2>4, <4>1 DEF IoInv
    <3> QED BY <3>1, <3>2
  <2> QED BY <1>1, <1>3, <2>1, <2>3, <2>4 DEF IoInv
<1> QED BY <1>4, <1>5

\* process_command returns with handled set.
LEMMA IoLeave ==
  ASSUME IoInv, pc \in {"copyin", "call", "copyout"}, Ioctl!Leave(TRUE), UNCHANGED <<cmd, mapped>>,
         argument' \in Arguments, user' \in Arguments,
         ret' \in Results \union {-ENOTTY, -EFAULT}, result' \in Results,
         \/ calls' = <<>> /\ ret' = -EFAULT
         \/ calls' = <<i>> /\ (ret' = result' \/ (ret' = -EFAULT /\ result' = 0))
  PROVE  IoInv'
<1>1. handled' = TRUE /\ i' = i + 1 /\ pc' = "match"
  BY DEF Ioctl!Leave
<1>2. i \in Ioctl!FirstMatch /\ i \in 1 .. Len(Commands)
  BY IoFirst
<1>3. i' \in 1 .. Len(Commands) + 1
  BY <1>1, <1>2, IoConstants
<1>4. calls' \in Seq(1 .. Len(Commands))
  <2>1. calls' = <<>> \/ calls' = <<i>>
    OBVIOUS
  <2>2. <<>> \in Seq(1 .. Len(Commands)) /\ <<i>> \in Seq(1 .. Len(Commands))
    BY <1>2
  <2> QED BY <2>1, <2>2
<1>5. Ioctl!TypeOK'
  BY <1>1, <1>3, <1>4 DEF IoInv, Ioctl!TypeOK
<1>6. Ioctl!FirstMatch' = Ioctl!FirstMatch
  BY DEF Ioctl!FirstMatch
<1> QED BY <1>1, <1>2, <1>5, <1>6 DEF IoInv

\* copy_from_user succeeds or ends the call with -EFAULT.
LEMMA IoCopyIn == IoInv /\ Ioctl!CopyIn => IoInv'
<1> SUFFICES ASSUME IoInv, Ioctl!CopyIn PROVE IoInv'
  OBVIOUS
<1>1. pc = "copyin" /\ UNCHANGED <<cmd, user, mapped, calls, result>>
  BY DEF Ioctl!CopyIn
<1>2. CASE mapped
  <2>1. argument' = user /\ pc' = "call" /\ UNCHANGED <<i, handled, ret>>
    BY <1>2 DEF Ioctl!CopyIn
  <2>2. Ioctl!TypeOK'
    BY <1>1, <2>1 DEF IoInv, Ioctl!TypeOK
  <2>3. Ioctl!FirstMatch' = Ioctl!FirstMatch
    BY <1>1 DEF Ioctl!FirstMatch
  <2> QED BY <1>1, <2>1, <2>2, <2>3 DEF IoInv
<1>3. CASE ~mapped
  <2>1. ret' = -EFAULT /\ Ioctl!Leave(TRUE) /\ argument' = argument
    BY <1>3 DEF Ioctl!CopyIn
  <2>2. calls' = <<>>
    BY <1>1 DEF IoInv
  <2>3. argument' \in Arguments /\ user' \in Arguments /\ result' \in Results
    BY <1>1, <2>1 DEF IoInv, Ioctl!TypeOK
  <2> QED BY <1>1, <2>1, <2>2, <2>3, IoLeave
<1> QED BY <1>2, <1>3

\* The owner's function runs on the argument.
LEMMA IoCallOwner ==
  ASSUME IoInv, NEW r \in Results, NEW v \in Arguments, Ioctl!CallOwner(r, v)
  PROVE  IoInv'
<1>1. /\ pc = "call" /\ ret' = r /\ result' = r /\ argument' = v /\ calls' = Append(calls, i)
      /\ UNCHANGED <<cmd, user, mapped>>
  BY DEF Ioctl!CallOwner
<1>2. i \in Ioctl!FirstMatch /\ i \in 1 .. Len(Commands)
  BY <1>1, IoFirst
<1>3. calls' = <<i>>
  <2>1. calls = <<>>
    BY <1>1 DEF IoInv
  <2> QED BY <1>1, <2>1
<1>4. CASE Ioctl!CopiesOut /\ r = 0
  <2>1. pc' = "copyout" /\ UNCHANGED <<i, handled>>
    BY <1>4 DEF Ioctl!CallOwner
  <2>2. calls' \in Seq(1 .. Len(Commands))
    BY <1>2, <1>3
  <2>3. Ioctl!TypeOK'
    BY <1>1, <2>1, <2>2 DEF IoInv, Ioctl!TypeOK
  <2>4. Ioctl!FirstMatch' = Ioctl!FirstMatch
    BY <1>1 DEF Ioctl!FirstMatch
  <2>5. Ioctl!CopiesOut'
    BY <1>4, <2>1 DEF Ioctl!CopiesOut, Ioctl!Command
  <2> QED BY <1>1, <1>3, <1>4, <2>1, <2>3, <2>4, <2>5 DEF IoInv
<1>5. CASE ~(Ioctl!CopiesOut /\ r = 0)
  <2>1. Ioctl!Leave(TRUE)
    BY <1>5 DEF Ioctl!CallOwner
  <2>2. user' \in Arguments
    BY <1>1 DEF IoInv, Ioctl!TypeOK
  <2> QED BY <1>1, <1>3, <2>1, <2>2, IoLeave
<1> QED BY <1>4, <1>5

\* copy_to_user succeeds or ends the call with -EFAULT.
LEMMA IoCopyOut == IoInv /\ Ioctl!CopyOut => IoInv'
<1> SUFFICES ASSUME IoInv, Ioctl!CopyOut PROVE IoInv'
  OBVIOUS
<1>1. /\ pc = "copyout" /\ Ioctl!Leave(TRUE)
      /\ UNCHANGED <<cmd, argument, mapped, calls, result>>
      /\ \/ user' = argument /\ ret' = ret
         \/ ret' = -EFAULT /\ user' = user
  BY DEF Ioctl!CopyOut
<1>2. calls' = <<i>> /\ ret = 0 /\ result' = 0
  BY <1>1 DEF IoInv
<1>3. /\ argument' \in Arguments /\ user' \in Arguments /\ result' \in Results
      /\ ret' \in Results \union {-ENOTTY, -EFAULT}
  BY <1>1, <1>2, IoConstants DEF IoInv, Ioctl!TypeOK
<1> QED BY <1>1, <1>2, <1>3, IoLeave

\* The call returns its result.
LEMMA IoReturn == IoInv /\ Ioctl!Return => IoInv'
<1> SUFFICES ASSUME IoInv, Ioctl!Return PROVE IoInv'
  OBVIOUS
<1>1. /\ pc = "match" /\ pc' = "idle"
      /\ UNCHANGED <<cmd, i, handled, ret, argument, user, mapped, calls, result>>
  BY DEF Ioctl!Return
<1>2. Ioctl!TypeOK' /\ Ioctl!FirstMatch' = Ioctl!FirstMatch
  BY <1>1 DEF IoInv, Ioctl!TypeOK, Ioctl!FirstMatch
<1> QED BY <1>1, <1>2 DEF IoInv

\* What the other threads of the program do.
LEMMA IoUser ==
  ASSUME IoInv, Ioctl!UserRemaps \/ \E v \in Arguments : Ioctl!UserWrites(v) PROVE IoInv'
<1>1. /\ UNCHANGED <<pc, cmd, i, handled, ret, argument, calls, result>>
      /\ user' \in Arguments /\ mapped' \in BOOLEAN
  BY DEF Ioctl!UserRemaps, Ioctl!UserWrites, IoInv, Ioctl!TypeOK
<1>2. Ioctl!TypeOK' /\ Ioctl!FirstMatch' = Ioctl!FirstMatch
  BY <1>1 DEF IoInv, Ioctl!TypeOK, Ioctl!FirstMatch
<1>3. Ioctl!CopiesOut' <=> Ioctl!CopiesOut
  BY <1>1 DEF Ioctl!CopiesOut, Ioctl!Command
<1> QED BY <1>1, <1>2, <1>3 DEF IoInv

\* Every step of the handler.
LEMMA IoNext == IoInv /\ [Ioctl!Next]_(Ioctl!vars) => IoInv'
<1> SUFFICES ASSUME IoInv, [Ioctl!Next]_(Ioctl!vars) PROVE IoInv'
  OBVIOUS
<1>1. CASE UNCHANGED Ioctl!vars
  <2>1. /\ UNCHANGED <<pc, cmd, i, handled, ret, argument, user, mapped, calls, result>>
    BY <1>1 DEF Ioctl!vars
  <2>2. Ioctl!TypeOK' /\ Ioctl!FirstMatch' = Ioctl!FirstMatch
    BY <2>1 DEF IoInv, Ioctl!TypeOK, Ioctl!FirstMatch
  <2>3. Ioctl!CopiesOut' <=> Ioctl!CopiesOut
    BY <2>1 DEF Ioctl!CopiesOut, Ioctl!Command
  <2> QED BY <2>1, <2>2, <2>3 DEF IoInv
<1> QED BY <1>1, IoHandle, IoMatch, IoCopyIn, IoCallOwner, IoCopyOut, IoReturn, IoUser
        DEF Ioctl!Next, Ioctl!Handler

\* IoInv is strong enough.
LEMMA IoInvImplies == IoInv => ResultIsTrue
<1> SUFFICES ASSUME IoInv PROVE Ioctl!AtMostOneCall /\ Ioctl!ResultIsTrue
  BY DEF IoInv, ResultIsTrue
<1>1. Ioctl!AtMostOneCall
  <2>1. calls = <<>> \/ \E k \in Ioctl!FirstMatch : calls = <<k>>
    BY IoFirst DEF IoInv, Ioctl!TypeOK
  <2>2. ASSUME NEW k \in Ioctl!FirstMatch, calls = <<k>>
        PROVE  Len(calls) <= 1 /\ \A m \in DOMAIN calls : calls[m] \in Ioctl!FirstMatch
    BY <2>2
  <2>3. ASSUME calls = <<>> PROVE Len(calls) <= 1 /\ \A m \in DOMAIN calls : calls[m] \in Ioctl!FirstMatch
    BY <2>3
  <2> QED BY <2>1, <2>2, <2>3 DEF Ioctl!AtMostOneCall
<1>2. ASSUME pc = "match", i > Len(Commands)
      PROVE  /\ Ioctl!FirstMatch = {} => ret = -ENOTTY /\ calls = <<>>
             /\ Ioctl!FirstMatch # {} /\ calls = <<>> => ret = -EFAULT
             /\ calls # <<>> => ret = result \/ (ret = -EFAULT /\ result = 0)
  <2>1. CASE handled
    <3>1. Ioctl!FirstMatch # {}
      BY <2>1 DEF IoInv
    <3>2. \/ calls = <<>> /\ ret = -EFAULT
          \/ calls # <<>> /\ (ret = result \/ (ret = -EFAULT /\ result = 0))
      <4>1. \/ calls = <<>> /\ ret = -EFAULT
            \/ \E k \in Ioctl!FirstMatch :
                 calls = <<k>> /\ (ret = result \/ (ret = -EFAULT /\ result = 0))
        BY <2>1, Zenon DEF IoInv
      <4> QED BY <4>1
    <3> QED BY <3>1, <3>2
  <2>2. CASE ~handled
    <3>1. i - 1 = Len(Commands)
      BY <1>2, IoConstants DEF IoInv, Ioctl!TypeOK
    <3>2. \A m \in 1 .. Len(Commands) : Commands[m].cmd # cmd
      BY <2>2, <3>1 DEF IoInv
    <3>3. Ioctl!FirstMatch = {}
      BY <3>2 DEF Ioctl!FirstMatch
    <3>4. calls = <<>> /\ ret = -ENOTTY
      BY <1>2, <2>2 DEF IoInv
    <3> QED BY <3>3, <3>4
  <2> QED BY <2>1, <2>2
<1> QED BY <1>1, <1>2 DEF Ioctl!ResultIsTrue

\* A step of handle writes user memory only in CopyOut.
LEMMA IoWrites ==
  ASSUME IoInv, Ioctl!Handler, user' # user
  PROVE  Len(calls) = 1 /\ result = 0 /\ Commands[calls[1]].dir \in {"READ", "READ_WRITE"}
<1>1. pc = "copyout"
  BY DEF Ioctl!Handler, Ioctl!Match, Ioctl!CopyIn, Ioctl!CopyOut, Ioctl!Return, Ioctl!CallOwner
<1>2. calls = <<i>> /\ result = 0 /\ Ioctl!CopiesOut
  BY <1>1 DEF IoInv
<1>3. Len(calls) = 1 /\ calls[1] = i
  BY <1>2
<1> QED BY <1>2, <1>3 DEF Ioctl!CopiesOut, Ioctl!Command

------------------------------------------------------------------------------
(***************************************************************************)
(* MCSpec.  A step of the model is a step of one part, or leaves it alone. *)
(***************************************************************************)

\* Every part starts in one of its initial states.
LEMMA PartsInit ==
  MCInit => /\ Sem!Init /\ Com!Init /\ Ref!Init /\ Spin!Init /\ Per!Init /\ Skb!Init
            /\ P!Init /\ Ioctl!Init
BY DEF MCInit

\* One lemma for each part.
LEMMA SemStep == [MCNext]_mcVars => [Sem!Next]_(Sem!vars)
BY DEF MCNext, mcVars, Still, semaphoreVars, Sem!vars

\* A step of MCNext is one of the completion, or leaves it alone.
LEMMA ComStep == [MCNext]_mcVars => [Com!Next]_(Com!vars)
BY DEF MCNext, mcVars, Still, completionVars, Com!vars

\* A step of MCNext is one of the counters, or leaves them alone.
LEMMA RefStep == [MCNext]_mcVars => [Ref!Next]_(Ref!vars)
BY DEF MCNext, mcVars, Still, counterVars, Ref!vars

\* A step of MCNext is one of the spinlock, or leaves it alone.
LEMMA SpinStep == [MCNext]_mcVars => [Spin!Next]_(Spin!vars)
BY DEF MCNext, mcVars, Still, spinVars, Spin!vars

\* A step of MCNext is one of the per-CPU counters, or leaves them alone.
LEMMA PerStep == [MCNext]_mcVars => [Per!Next]_(Per!vars)
BY DEF MCNext, mcVars, Still, perCpuVars, Per!vars

\* A step of MCNext is one of the buffer, or leaves it alone.
LEMMA SkbStep == [MCNext]_mcVars => [Skb!Next]_(Skb!vars)
BY DEF MCNext, mcVars, Still, skbVars, Skb!vars

\* A step of MCNext is one of the page mappings, or leaves them alone.
LEMMA PageStep == [MCNext]_mcVars => [P!Next]_(P!vars)
BY DEF MCNext, mcVars, Still, pageVars, P!vars

\* A step of MCNext is one of the handler, or leaves it alone.
LEMMA IoStep == [MCNext]_mcVars => [Ioctl!Next]_(Ioctl!vars)
BY DEF MCNext, mcVars, Still, ioctlVars, Ioctl!vars

\* A step of MCNext is one of the Expecteds, or leaves them alone.
LEMMA ExpectedStep == [MCNext]_mcVars => [Next]_vars
BY DEF MCNext, mcVars, Still

\* Expected: in every object the member has_value_ names is alive and no other, and
\* every acquired resource has exactly one owner: no member is destroyed twice
\* or read after its end, no resource leaks.
THEOREM LifetimesInvHolds == MCSpec => []LifetimesInv
<1>1. MCInit => LifetimesInv
  BY ExpectedInit DEF MCInit
<1>2. LifetimesInv /\ [MCNext]_mcVars => LifetimesInv'
  BY ExpectedStep, ExpectedNext
<1> QED BY <1>1, <1>2, PTL DEF MCSpec, mcVars

\* Expected: a step that gives a resource back destroys its owner or assigns another
\* Expected to it.
THEOREM GivenBackByOwnerHolds == MCSpec => GivenBackByOwner
<1> DEFINE GivenBackStep ==
      \A r \in held \ held' :
        \E x \in values :
          /\ owned[x] = r
          /\ \/ x \notin alive'
             \/ \E y \in alive \ {x} : has_value_'[x] = has_value_[y] /\ owned'[x] = owned[y]
<1>1. LifetimesInv /\ [Next]_vars => [GivenBackStep]_vars
  <2> SUFFICES ASSUME LifetimesInv, Next, NEW r \in held \ held'
               PROVE  \E x \in values :
                        /\ owned[x] = r
                        /\ \/ x \notin alive'
                           \/ \E y \in alive \ {x} : has_value_'[x] = has_value_[y] /\ owned'[x] = owned[y]
    OBVIOUS
  <2>1. ASSUME NEW x \in Slots, Destruct(x)
        PROVE  x \in values /\ owned[x] = r /\ x \notin alive'
    BY <2>1, DestroyedEffect DEF Destruct
  <2>2. ASSUME NEW x \in Slots, NEW y \in Slots, MoveAssign(x, y)
        PROVE  /\ x \in values /\ owned[x] = r /\ y \in alive \ {x}
               /\ has_value_'[x] = has_value_[y] /\ owned'[x] = owned[y]
    <3>1. /\ x \in values /\ owned[x] = r /\ y \in alive \ {x} /\ Moved(x, y, values \ {x}, errors \ {x})
      BY <2>2, DestroyedEffect DEF MoveAssign, NotSelf
    <3>2. y \in Slots \ values => owned[y] = nullptr
      BY DEF LifetimesInv, ResourceHasOneOwner
    <3>3. y \in values <=> has_value_[y]
      BY <3>1 DEF LifetimesInv, MembersMatchFlag
    <3> QED BY <3>1, <3>2, <3>3, ConstantsAssumption DEF Moved, LifetimesInv, TypeOK
  <2> QED BY <2>1, <2>2 DEF Next, FromValue, FromError, MoveConstruct
<1> HIDE DEF GivenBackStep
<1>2. MCInit => LifetimesInv
  BY ExpectedInit DEF MCInit
<1>3. LifetimesInv /\ [MCNext]_mcVars => LifetimesInv' /\ [GivenBackStep]_vars
  BY <1>1, ExpectedStep, ExpectedNext
<1>4. MCSpec => [][GivenBackStep]_vars
  BY <1>2, <1>3, PTL DEF MCSpec, mcVars
<1> QED BY <1>4 DEF GivenBackByOwner, GivenBackStep

\* Semaphore and Completion: however downs, signals, timeouts and ups of any
\* number of threads interleave, a unit is with one thread or counted, a waiting
\* thread is on the wait list and nobody sleeps while a unit is free; and no
\* worker touches a completion of a scope that has ended.
THEOREM NoLostWakeupHolds == MCSpec => []NoLostWakeup
<1>1. MCInit => SemInv /\ ComInv
  BY PartsInit, SemInit, ComInit
<1>2. SemInv /\ ComInv /\ [MCNext]_mcVars => SemInv' /\ ComInv'
  BY SemStep, ComStep, SemNext, ComNext
<1>3. SemInv /\ ComInv => NoLostWakeup
  BY SemInvIsProperty, ComInvImplies DEF NoLostWakeup
<1> QED BY <1>1, <1>2, <1>3, PTL DEF MCSpec, mcVars

\* PerCPU, SpinLock, Kref and Atomic: for any number of CPUs, threads, lockers
\* and shares, an update between get and put or under the lock is never lost,
\* and a counter counts the shares of a live object.
THEOREM CountsExactHolds == MCSpec => []CountsExact
<1>1. MCInit => RefInv /\ SpinInv /\ PerInv
  BY PartsInit, RefInit, SpinInit, PerInit
<1>2. RefInv /\ SpinInv /\ PerInv /\ [MCNext]_mcVars => RefInv' /\ SpinInv' /\ PerInv'
  BY RefStep, SpinStep, PerStep, RefNext, SpinNext, PerNext
<1>3. RefInv /\ SpinInv /\ PerInv => CountsExact
  BY RefInvIsProperty, SpinInvImplies DEF CountsExact, PerInv
<1> QED BY <1>1, <1>2, <1>3, PTL DEF MCSpec, mcVars

\* PerCPU: for any number of CPUs and threads, a sum that was read without a
\* lock is at least the number of updates at its start and at most the number
\* at its end.
THEOREM SumIsBetweenHolds == MCSpec => SumIsBetween
<1> DEFINE Between == \A c \in Cpus : unread = {c} /\ Per!get_for_cpu(c) =>
                        Per!Total(before') <= sum' /\ sum' <= Per!Total(updates)
<1>1. MCInit => PerInv /\ SumInv
  <2>1. Per!Init => SumInv
    BY DEF Per!Init, SumInv
  <2> QED BY <2>1, PartsInit, PerInit
<1>2. PerInv /\ SumInv /\ [MCNext]_mcVars => PerInv' /\ SumInv'
  BY PerStep, PerNext, SumNext
<1>3. PerInv /\ SumInv => Between
  BY SumEnds
<1>4. PerInv /\ SumInv /\ [MCNext]_mcVars => [Between]_(Per!vars)
  BY <1>3
<1> HIDE DEF Between
<1>5. MCSpec => [][Between]_(Per!vars)
  BY <1>1, <1>2, <1>4, PTL DEF MCSpec, mcVars
<1> QED BY <1>5 DEF SumIsBetween, Per!SumIsBetween, Between

\* Page and SKB: with any number of threads, pages and slots an address between
\* map and unmap leads to the page it was asked for, and in a buffer of any size
\* the bytes between data and tail are what push, put, pull, trim and reserve
\* left there, as long as no reserve moved the tail behind the buffer.
THEOREM BuffersIntactHolds == MCSpec => []BuffersIntact
<1>1. MCInit => SkbInv /\ PageInv
  BY PartsInit, SkbInit, PageInit
<1>2. SkbInv /\ PageInv /\ [MCNext]_mcVars => SkbInv' /\ PageInv'
  BY SkbStep, PageStep, SkbNext, PageNext
<1>3. SkbInv /\ PageInv => BuffersIntact
  BY SkbInvImplies DEF BuffersIntact, PageInv
<1> QED BY <1>1, <1>2, <1>3, PTL DEF MCSpec, mcVars

\* IoctlHandler: for every pack of commands one ioctl calls the owner at most
\* once, for the first command that matches, and its result says what was done,
\* whatever the owner answers.
THEOREM ResultIsTrueHolds == MCSpec => []ResultIsTrue
<1>1. MCInit => IoInv
  BY PartsInit, IoInit
<1>2. IoInv /\ [MCNext]_mcVars => IoInv'
  BY IoStep, IoNext
<1> QED BY <1>1, <1>2, IoInvImplies, PTL DEF MCSpec, mcVars

\* IoctlHandler: handle writes user memory only after a successful call of the
\* owner, for a command that returns data.
THEOREM WritesOnlyResultsHolds == MCSpec => WritesOnlyResults
<1> DEFINE W == /\ Len(calls) = 1 /\ result = 0
                /\ Commands[calls[1]].dir \in {"READ", "READ_WRITE"}
<1>1. MCInit => IoInv
  BY PartsInit, IoInit
<1>2. IoInv /\ [MCNext]_mcVars => IoInv'
  BY IoStep, IoNext
<1>3. IoInv => (Ioctl!Handler /\ user' # user => W)
  BY IoWrites
<1>4. IoInv /\ [MCNext]_mcVars => [Ioctl!Handler /\ user' # user => W]_(Ioctl!vars)
  BY <1>3
<1> HIDE DEF W
<1>5. MCSpec => [][Ioctl!Handler /\ user' # user => W]_(Ioctl!vars)
  BY <1>1, <1>2, <1>4, PTL DEF MCSpec, mcVars
<1> QED BY <1>5 DEF WritesOnlyResults, Ioctl!WritesOnlyResults, W

==============================================================================
