--------------------------- MODULE ContainerProofs ---------------------------
(***************************************************************************)
(* Proofs about the containers HashMap and List, for any keys, hash        *)
(* function, number of buckets and nodes: the invariants of MCLibrary, and *)
(* that the pointers of a List implement a sequence.                       *)
(***************************************************************************)
EXTENDS LibraryProofs

------------------------------------------------------------------------------
(***************************************************************************)
(* HashMap.  The map starts empty and with buckets, and a node in it has   *)
(* the key it was inserted with.  An insertion leaves every answer of find *)
(* as it was, except that a key without an answer gets the new node.       *)
(***************************************************************************)

MapIInv ==
  /\ Map!TypeOK /\ Map!FindsFirstInserted /\ Map!NodesInBuckets
  /\ life = "none" => inserted = <<>> /\ allocated = {}
  /\ life = "ready" => bucket_count_ \in Nat \ {0}
  /\ \A n \in allocated : key[n] \in Keys

\* The positions in q of the nodes whose key is x, and the loop of find.
Hits(q, f, x) == {j \in DOMAIN q : f[q[j]] = x}
Least(T) == CHOOSE j \in T : \A m \in T : j <= m
FirstHit(q, f, x) == IF Hits(q, f, x) = {} THEN nullptr ELSE q[Least(Hits(q, f, x))]

\* Least is a least element.
LEMMA LeastIs ==
  ASSUME NEW T, T \subseteq Nat, T # {}
  PROVE  Least(T) \in T /\ \A y \in T : Least(T) <= y
BY LeastNat DEF Least

\* There is only one.
LEMMA LeastUnique ==
  ASSUME NEW T, T \subseteq Nat, NEW x \in T, \A y \in T : x <= y
  PROVE  Least(T) = x
<1>1. Least(T) \in T /\ \A y \in T : Least(T) <= y
  BY LeastIs
<1>2. Least(T) <= x /\ x <= Least(T) /\ Least(T) \in Nat /\ x \in Nat
  BY <1>1
<1> QED BY <1>2

\* findInBucket walks to the first hit in the bucket.
LEMMA FindIs == ASSUME NEW x PROVE Map!findInBucket(x) = FirstHit(buckets_[Map!Bucket(x)], key, x)
BY DEF Map!findInBucket, FirstHit, Hits, Least

\* A hit is an element of the bucket.
LEMMA HitIsNode ==
  ASSUME NEW S, NEW q \in Seq(S), NEW f, NEW x, Hits(q, f, x) # {}
  PROVE  FirstHit(q, f, x) \in S
<1>1. Hits(q, f, x) \subseteq Nat
  BY DEF Hits
<1>2. Least(Hits(q, f, x)) \in Hits(q, f, x)
  BY <1>1, LeastIs
<1>3. Least(Hits(q, f, x)) \in 1 .. Len(q)
  BY <1>2 DEF Hits
<1>4. FirstHit(q, f, x) = q[Least(Hits(q, f, x))]
  BY DEF FirstHit
<1> QED BY <1>3, <1>4, ElementOfSeq

\* The nodes of q have the same keys in f and in g.
SameKeys(q, f, g) == \A j \in 1 .. Len(q) : g[q[j]] = f[q[j]]

\* Appending a node moves no hit, and adds the first one or a later one.
LEMMA HitsAppend ==
  ASSUME NEW S, NEW q \in Seq(S), NEW n, NEW f, NEW g, NEW x, SameKeys(q, f, g)
  PROVE  /\ Hits(q, f, x) # {} => FirstHit(Append(q, n), g, x) = FirstHit(q, f, x)
         /\ Hits(q, f, x) = {} /\ g[n] = x => FirstHit(Append(q, n), g, x) = n
         /\ Hits(q, f, x) = {} /\ g[n] # x => FirstHit(Append(q, n), g, x) = nullptr
<1> DEFINE r == Append(q, n)
           H == Hits(q, f, x)
           K == Hits(r, g, x)
<1>1. /\ Len(q) \in Nat /\ Len(r) = Len(q) + 1 /\ r[Len(q) + 1] = n
      /\ DOMAIN q = 1 .. Len(q) /\ DOMAIN r = 1 .. Len(q) + 1
      /\ \A j \in 1 .. Len(q) : r[j] = q[j]
  <2>1. q \in Seq(S \union {n}) /\ n \in S \union {n}
    OBVIOUS
  <2> QED BY <2>1
<1> HIDE DEF r
<1>2. K = IF g[n] = x THEN H \union {Len(q) + 1} ELSE H
  <2>1. ASSUME NEW j \in 1 .. Len(q) PROVE j \in K <=> j \in H
    BY <1>1 DEF Hits, SameKeys
  <2>2. Len(q) + 1 \in K <=> g[n] = x
    BY <1>1 DEF Hits
  <2>3. H \subseteq 1 .. Len(q) /\ K \subseteq 1 .. Len(q) + 1
    BY <1>1 DEF Hits
  <2>4. \A j \in 1 .. Len(q) + 1 : j \in 1 .. Len(q) \/ j = Len(q) + 1
    BY <1>1
  <2> HIDE DEF H, K
  <2>5. Len(q) + 1 \notin 1 .. Len(q)
    BY <1>1
  <2>6. CASE g[n] = x
    <3>1. K = H \union {Len(q) + 1}
      BY <2>1, <2>2, <2>3, <2>4, <2>6, Zenon
    <3> QED BY <2>6, <3>1
  <2>7. CASE g[n] # x
    <3>1. K = H
      BY <2>1, <2>2, <2>3, <2>4, <2>5, <2>7, Zenon
    <3> QED BY <2>7, <3>1
  <2> QED BY <2>6, <2>7
<1>3. H \subseteq 1 .. Len(q) /\ H \subseteq Nat /\ K \subseteq Nat
  BY <1>1 DEF Hits
<1>4. CASE H # {}
  <2>1. Least(H) \in H /\ \A y \in H : Least(H) <= y
    BY <1>3, <1>4, LeastIs
  <2>2. Least(H) \in 1 .. Len(q)
    BY <1>3, <2>1
  <2>3. Least(H) \in K /\ \A y \in K : Least(H) <= y
    <3> HIDE DEF H, K
    <3> QED BY <1>1, <1>2, <2>1, <2>2
  <2>4. Least(K) = Least(H)
    BY <1>3, <2>3, LeastUnique
  <2>5. FirstHit(r, g, x) = r[Least(K)] /\ FirstHit(q, f, x) = q[Least(H)]
    BY <1>4, <2>3 DEF FirstHit
  <2> QED BY <1>1, <1>4, <2>2, <2>4, <2>5 DEF r
<1>5. CASE H = {}
  <2>1. CASE g[n] = x
    <3>1. K = {Len(q) + 1}
      <4> HIDE DEF H, K
      <4> QED BY <1>2, <1>5, <2>1
    <3>2. Least(K) = Len(q) + 1
      <4>1. Len(q) + 1 \in K /\ \A y \in K : Len(q) + 1 <= y
        BY <1>1, <3>1
      <4> QED BY <1>3, <4>1, LeastUnique
    <3>3. FirstHit(r, g, x) = r[Least(K)]
      BY <3>1 DEF FirstHit
    <3> QED BY <1>1, <1>5, <2>1, <3>2, <3>3 DEF r
  <2>2. CASE g[n] # x
    <3>1. K = {}
      <4> HIDE DEF H, K
      <4> QED BY <1>2, <1>5, <2>2
    <3> QED BY <1>5, <2>2, <3>1 DEF FirstHit, r
  <2> QED BY <2>1, <2>2
<1> QED BY <1>4, <1>5

\* The same without a new node.
LEMMA HitsSame ==
  ASSUME NEW S, NEW q \in Seq(S), NEW f, NEW g, NEW x, SameKeys(q, f, g)
  PROVE  FirstHit(q, g, x) = FirstHit(q, f, x)
<1>1. Hits(q, g, x) = Hits(q, f, x)
  BY DEF Hits, SameKeys
<1> QED BY <1>1 DEF FirstHit

\* What the assumptions on the constants say of the map.
LEMMA MapConstants ==
  /\ Hash \in [Keys -> Nat] /\ BucketCounts \subseteq Nat
  /\ nullptr \notin Nodes /\ nullptr \notin Values
BY PartsAssumption DEF Map!ConstantsAssumption

\* The bucket of a key is one of the table.
LEMMA BucketIs ==
  ASSUME MapIInv, life = "ready", NEW x \in Keys
  PROVE  Map!Bucket(x) \in 0 .. bucket_count_ - 1 /\ buckets_[Map!Bucket(x)] \in Seq(allocated)
<1>1. Hash[x] \in Nat /\ bucket_count_ \in Nat \ {0}
  BY MapConstants DEF MapIInv
<1>2. Map!Bucket(x) \in 0 .. bucket_count_ - 1
  BY <1>1 DEF Map!Bucket
<1> QED BY <1>2 DEF MapIInv, Map!TypeOK

\* find answers with a node of the map or with nullptr.
LEMMA FindType ==
  ASSUME MapIInv, life = "ready", NEW x \in Keys
  PROVE  /\ Map!find(x) = FirstHit(buckets_[Map!Bucket(x)], key, x)
         /\ Map!find(x) # nullptr => Map!find(x) \in allocated
         /\ Map!find(x) = nullptr <=> Hits(buckets_[Map!Bucket(x)], key, x) = {}
<1> DEFINE q == buckets_[Map!Bucket(x)]
<1>1. q \in Seq(allocated)
  BY BucketIs
<1>2. Map!find(x) = FirstHit(q, key, x)
  BY FindIs DEF Map!find
<1>3. nullptr \notin allocated
  BY MapConstants DEF MapIInv, Map!TypeOK
<1> HIDE DEF q
<1>4. Hits(q, key, x) # {} => FirstHit(q, key, x) \in allocated
  BY <1>1, HitIsNode
<1>5. Hits(q, key, x) = {} => FirstHit(q, key, x) = nullptr
  BY DEF FirstHit
<1> QED BY <1>2, <1>3, <1>4, <1>5 DEF q

\* Before init there is no bucket and no node.
LEMMA MapInit == Map!Init => MapIInv
<1> SUFFICES ASSUME Map!Init PROVE MapIInv
  OBVIOUS
<1>1. Map!TypeOK
  BY DEF Map!Init, Map!TypeOK
<1> QED BY <1>1 DEF Map!Init, MapIInv, Map!FindsFirstInserted, Map!NodesInBuckets

\* The constructor, with and without memory for the buckets.
LEMMA MapConstruct ==
  ASSUME MapIInv, NEW n \in BucketCounts, Map!Construct(n)
  PROVE  MapIInv'
<1>1. /\ life = "none" /\ bucket_count_' = n /\ UNCHANGED <<key, value, allocated, inserted>>
      /\ inserted = <<>> /\ allocated = {} /\ n \in Nat
  BY MapConstants DEF Map!Construct, MapIInv
<1>2. \A x \in Keys : {j \in DOMAIN inserted' : inserted'[j][1] = x} = {}
  BY <1>1
<1>3. CASE life' = "ready" /\ n # 0 /\ buckets_' = [b \in 0 .. n - 1 |-> <<>>]
  <2>1. buckets_' \in [0 .. n - 1 -> Seq(allocated')]
    BY <1>3
  <2>2. Map!TypeOK'
    BY <1>1, <1>3, <2>1 DEF MapIInv, Map!TypeOK
  <2>3. ASSUME NEW x \in Keys PROVE Map!find(x)' = nullptr
    <3>1. Hash[x] \in Nat
      BY MapConstants
    <3>2. Map!Bucket(x)' \in 0 .. n - 1
      BY <1>1, <1>3, <3>1 DEF Map!Bucket
    <3>3. buckets_'[Map!Bucket(x)'] = <<>>
      BY <1>3, <3>2
    <3>4. {j \in DOMAIN buckets_'[Map!Bucket(x)'] : key'[buckets_'[Map!Bucket(x)'][j]] = x} = {}
      BY <3>3
    <3> QED BY <3>4 DEF Map!find, Map!findInBucket
  <2>4. Map!FindsFirstInserted'
    BY <1>2, <2>3 DEF Map!FindsFirstInserted
  <2> QED BY <1>1, <1>3, <2>2, <2>4 DEF MapIInv, Map!NodesInBuckets
<1>4. CASE life' = "failed" /\ buckets_' = buckets_
  <2>1. Map!TypeOK'
    BY <1>1, <1>4 DEF MapIInv, Map!TypeOK
  <2>2. Map!FindsFirstInserted'
    BY <1>2, <1>4 DEF Map!FindsFirstInserted, Map!find
  <2> QED BY <1>1, <1>4, <2>1, <2>2 DEF MapIInv, Map!NodesInBuckets
<1>5. CASE life' = "bare"
  <2>1. Map!TypeOK'
    BY <1>1, <1>5 DEF MapIInv, Map!TypeOK
  <2> QED BY <1>1, <1>5, <2>1 DEF MapIInv, Map!FindsFirstInserted, Map!NodesInBuckets
<1> QED BY <1>3, <1>4, <1>5 DEF Map!Construct

\* A map with no bucket is in no state that the invariant says more of.
LEMMA MapDivide == MapIInv /\ Map!DivideByZero => MapIInv'
BY DEF Map!DivideByZero, MapIInv, Map!TypeOK, Map!FindsFirstInserted, Map!NodesInBuckets

\* The destructor frees every node.
LEMMA MapDestruct == MapIInv /\ Map!Destruct => MapIInv'
BY DEF Map!Destruct, MapIInv, Map!TypeOK, Map!FindsFirstInserted, Map!NodesInBuckets

\* What one insertion of n under the key k does.
Inserts(k, v, n) ==
  /\ life = "ready" /\ life' = life /\ bucket_count_' = bucket_count_
  /\ n \in Nodes \ allocated /\ allocated' = allocated \union {n}
  /\ key' = [key EXCEPT ![n] = k] /\ value' = [value EXCEPT ![n] = v]
  /\ buckets_' = [buckets_ EXCEPT ![Map!Bucket(k)] = Append(buckets_[Map!Bucket(k)], n)]
  /\ inserted' = Append(inserted, <<k, v>>)

\* The answers of find stay, and so does what they point to; a key without an
\* answer gets the new node if it is its key.
LEMMA InsertFind ==
  ASSUME MapIInv, NEW k \in Keys, NEW v \in Values, NEW n, Inserts(k, v, n), NEW x \in Keys
  PROVE  /\ Map!find(x) # nullptr =>
              Map!find(x)' = Map!find(x) /\ value'[Map!find(x)] = value[Map!find(x)]
         /\ Map!find(x) = nullptr => Map!find(x)' = IF k = x THEN n ELSE nullptr
<1> DEFINE B == Map!Bucket(x)
           C == Map!Bucket(k)
<1>1. /\ B \in 0 .. bucket_count_ - 1 /\ buckets_[B] \in Seq(allocated)
      /\ C \in 0 .. bucket_count_ - 1 /\ buckets_[C] \in Seq(allocated)
  BY BucketIs DEF Inserts
<1>2. Map!Bucket(x)' = B
  BY DEF Map!Bucket, Inserts
<1>3. buckets_' = [buckets_ EXCEPT ![C] = Append(buckets_[C], n)] /\ n \notin allocated /\ n \in Nodes
  BY DEF Inserts
<1>4. key'[n] = k /\ \A m \in Nodes \ {n} : key'[m] = key[m] /\ value'[m] = value[m]
  BY DEF Inserts, MapIInv, Map!TypeOK
<1>5. buckets_ \in [0 .. bucket_count_ - 1 -> Seq(allocated)] /\ allocated \subseteq Nodes
  BY DEF MapIInv, Map!TypeOK, Inserts
<1>6. Map!find(x)' = FirstHit(buckets_'[B], key', x)
  <2>1. Map!findInBucket(x)' = FirstHit(buckets_'[Map!Bucket(x)'], key', x)
    BY DEF Map!findInBucket, FirstHit, Hits, Least
  <2> QED BY <1>2, <2>1 DEF Map!find, Inserts
<1>7. /\ Map!find(x) = FirstHit(buckets_[B], key, x)
      /\ Map!find(x) # nullptr => Map!find(x) \in allocated
      /\ Map!find(x) = nullptr <=> Hits(buckets_[B], key, x) = {}
  BY FindType DEF Inserts
<1> HIDE DEF B, C
<1>8. SameKeys(buckets_[B], key, key')
  <2>1. ASSUME NEW j \in 1 .. Len(buckets_[B]) PROVE buckets_[B][j] \in allocated
    BY <1>1, ElementOfSeq
  <2> QED BY <1>3, <1>4, <1>5, <2>1 DEF SameKeys
<1>9. Map!find(x) # nullptr => value'[Map!find(x)] = value[Map!find(x)]
  BY <1>3, <1>4, <1>5, <1>7
<1>10. CASE B = C
  <2>1. buckets_'[B] = Append(buckets_[B], n)
    BY <1>1, <1>3, <1>5, <1>10
  <2>2. /\ Hits(buckets_[B], key, x) # {} =>
             FirstHit(Append(buckets_[B], n), key', x) = FirstHit(buckets_[B], key, x)
        /\ Hits(buckets_[B], key, x) = {} /\ key'[n] = x =>
             FirstHit(Append(buckets_[B], n), key', x) = n
        /\ Hits(buckets_[B], key, x) = {} /\ key'[n] # x =>
             FirstHit(Append(buckets_[B], n), key', x) = nullptr
    BY <1>1, <1>8, HitsAppend
  <2> QED BY <1>4, <1>6, <1>7, <1>9, <2>1, <2>2
<1>11. CASE B # C
  <2>1. buckets_'[B] = buckets_[B] /\ k # x
    BY <1>1, <1>3, <1>5, <1>11 DEF B, C
  <2>2. FirstHit(buckets_[B], key', x) = FirstHit(buckets_[B], key, x)
    BY <1>1, <1>8, HitsSame
  <2> QED BY <1>6, <1>7, <1>9, <2>1, <2>2
<1> QED BY <1>10, <1>11

\* A new node at the end of its bucket hides nothing that find found before.
LEMMA InsertKeepsFind ==
  ASSUME MapIInv, NEW k \in Keys, NEW v \in Values, NEW n, Inserts(k, v, n)
  PROVE  Map!FindsFirstInserted'
<1> SUFFICES ASSUME NEW x \in Keys
             PROVE  LET pairs == {j \in DOMAIN inserted' : inserted'[j][1] = x}
                    IN IF pairs = {} THEN Map!find(x)' = nullptr
                       ELSE /\ Map!find(x)' # nullptr
                            /\ \A j \in pairs : (\A m \in pairs : j <= m)
                                 => value'[Map!find(x)'] = inserted'[j][2]
  BY DEF Map!FindsFirstInserted
<1> DEFINE old == {j \in DOMAIN inserted : inserted[j][1] = x}
           new == {j \in DOMAIN inserted' : inserted'[j][1] = x}
           e == Len(inserted) + 1
<1>1. /\ inserted \in Seq(Keys \X Values) /\ inserted' = Append(inserted, <<k, v>>)
      /\ n \in Nodes /\ n \notin allocated /\ life = "ready"
  BY DEF MapIInv, Map!TypeOK, Inserts
<1>2. /\ e \in Nat /\ DOMAIN inserted = 1 .. e - 1 /\ DOMAIN inserted' = 1 .. e
      /\ inserted'[e] = <<k, v>> /\ \A j \in 1 .. e - 1 : inserted'[j] = inserted[j]
  BY <1>1
<1>3. /\ Map!find(x) # nullptr =>
           Map!find(x)' = Map!find(x) /\ value'[Map!find(x)] = value[Map!find(x)]
      /\ Map!find(x) = nullptr => Map!find(x)' = IF k = x THEN n ELSE nullptr
  BY InsertFind
<1>4. IF old = {} THEN Map!find(x) = nullptr
      ELSE /\ Map!find(x) # nullptr
           /\ \A j \in old : (\A m \in old : j <= m) => value[Map!find(x)] = inserted[j][2]
  BY <1>1 DEF MapIInv, Map!FindsFirstInserted
<1>5. /\ old \subseteq 1 .. e - 1 /\ new \subseteq 1 .. e
      /\ \A j \in 1 .. e - 1 : j \in new <=> j \in old
      /\ e \in new <=> k = x
  BY <1>2
<1>6. nullptr \notin Nodes /\ value'[n] = v
  BY <1>1, MapConstants DEF Inserts, MapIInv, Map!TypeOK
<1>7. \A j \in 1 .. e : j # e => j \in 1 .. e - 1
  BY <1>2
<1> HIDE DEF old, new, e
<1>8. CASE old # {}
  <2>1. PICK p \in old : TRUE
    BY <1>8
  <2>2. p \in new /\ p \in 1 .. e - 1
    BY <1>5, <2>1
  <2>3. ASSUME NEW j \in new, \A m \in new : j <= m
        PROVE  value'[Map!find(x)'] = inserted'[j][2]
    <3>1. j <= p /\ j \in 1 .. e
      BY <1>5, <2>2, <2>3
    <3>2. j # e
      BY <1>2, <2>2, <3>1
    <3>3. j \in 1 .. e - 1
      BY <1>7, <3>1, <3>2
    <3>4. j \in old /\ \A m \in old : j <= m
      BY <1>5, <2>3, <3>3
    <3> QED BY <1>2, <1>3, <1>4, <1>8, <3>3, <3>4
  <2>4. new # {} /\ Map!find(x)' # nullptr
    BY <1>3, <1>4, <1>8, <2>2
  <2> QED BY <2>3, <2>4 DEF new
<1>9. CASE old = {}
  <2>1. Map!find(x)' = IF k = x THEN n ELSE nullptr
    BY <1>3, <1>4, <1>9
  <2>2. CASE k = x
    <3>1. new # {} /\ \A j \in new : j = e
      BY <1>5, <1>7, <1>9, <2>2
    <3>2. Map!find(x)' = n /\ n # nullptr /\ value'[n] = inserted'[e][2]
      BY <1>1, <1>2, <1>6, <2>1, <2>2
    <3> QED BY <3>1, <3>2 DEF new
  <2>3. CASE k # x
    <3>1. new = {}
      BY <1>5, <1>7, <1>9, <2>3
    <3> QED BY <2>1, <2>3, <3>1 DEF new
  <2> QED BY <2>2, <2>3
<1> QED BY <1>8, <1>9

\* A new node is in one bucket, and moves no other.
LEMMA InsertKeepsNodes ==
  ASSUME MapIInv, NEW k \in Keys, NEW v \in Values, NEW n, Inserts(k, v, n)
  PROVE  Map!NodesInBuckets' /\ buckets_' \in [0 .. bucket_count_ - 1 -> Seq(allocated')]
<1> DEFINE C == Map!Bucket(k)
           e == Len(buckets_[C]) + 1
<1>1. C \in 0 .. bucket_count_ - 1 /\ buckets_[C] \in Seq(allocated)
  BY BucketIs DEF Inserts
<1>2. /\ buckets_ \in [0 .. bucket_count_ - 1 -> Seq(allocated)] /\ allocated \subseteq Nodes
      /\ n \in Nodes /\ n \notin allocated /\ allocated' = allocated \union {n}
      /\ buckets_' = [buckets_ EXCEPT ![C] = Append(buckets_[C], n)]
      /\ bucket_count_' = bucket_count_ /\ life = "ready"
  BY DEF MapIInv, Map!TypeOK, Inserts
<1>3. key'[n] = k /\ \A m \in allocated : key'[m] = key[m] /\ key[m] \in Keys
  BY <1>2 DEF Inserts, MapIInv, Map!TypeOK
<1>4. Map!Bucket(k)' = C /\ \A m \in allocated : Map!Bucket(key[m])' = Map!Bucket(key'[m])
  BY <1>2, <1>3 DEF Map!Bucket, Inserts
<1> HIDE DEF C
<1>5. /\ e \in Nat /\ e >= 1 /\ DOMAIN buckets_[C] = 1 .. e - 1
      /\ DOMAIN buckets_'[C] = 1 .. e /\ buckets_'[C][e] = n
      /\ \A j \in 1 .. e - 1 : buckets_'[C][j] = buckets_[C][j]
      /\ \A b \in 0 .. bucket_count_ - 1 : b # C => buckets_'[b] = buckets_[b]
  <2>1. buckets_'[C] = Append(buckets_[C], n) /\ buckets_[C] \in Seq(Nodes)
    BY <1>1, <1>2
  <2>2. \A b \in 0 .. bucket_count_ - 1 : b # C => buckets_'[b] = buckets_[b]
    BY <1>2
  <2> QED BY <1>2, <2>1, <2>2
<1>6. ASSUME NEW b \in 0 .. bucket_count_ - 1, NEW m \in DOMAIN buckets_[b]
      PROVE  buckets_[b][m] \in allocated
  <2>1. buckets_[b] \in Seq(allocated) /\ m \in 1 .. Len(buckets_[b])
    BY <1>2
  <2> QED BY <2>1, ElementOfSeq
<1>7. buckets_' \in [0 .. bucket_count_ - 1 -> Seq(allocated')]
  <2>1. \A b \in 0 .. bucket_count_ - 1 : buckets_[b] \in Seq(allocated')
    BY <1>2
  <2>2. Append(buckets_[C], n) \in Seq(allocated')
    BY <1>1, <1>2, <2>1
  <2> QED BY <1>2, <2>1, <2>2
\* Entries of the buckets after the step are the old ones and the new one.
<1>8. ASSUME NEW b \in 0 .. bucket_count_ - 1, NEW m
      PROVE  /\ m \in DOMAIN buckets_'[b] <=> m \in DOMAIN buckets_[b] \/ (b = C /\ m = e)
             /\ m \in DOMAIN buckets_[b] => buckets_'[b][m] = buckets_[b][m] /\ ~(b = C /\ m = e)
  <2>1. CASE b = C
    <3>1. m \in 1 .. e <=> m \in 1 .. e - 1 \/ m = e
      BY <1>5
    <3>2. e \notin 1 .. e - 1
      BY <1>5
    <3> HIDE DEF e
    <3> QED BY <1>5, <2>1, <3>1, <3>2
  <2>2. CASE b # C
    BY <1>5, <2>2
  <2> QED BY <2>1, <2>2
<1> HIDE DEF e
<1> SUFFICES ASSUME NEW x \in allocated'
             PROVE  \E j \in DOMAIN buckets_'[Map!Bucket(key[x])'] :
                      \A b \in 0 .. bucket_count_' - 1 : \A m \in DOMAIN buckets_'[b] :
                        buckets_'[b][m] = x <=> b = Map!Bucket(key[x])' /\ m = j
  BY <1>7, Zenon DEF Map!NodesInBuckets
<1>b. 0 .. bucket_count_' - 1 = 0 .. bucket_count_ - 1
  BY <1>2
<1>9. CASE x = n
  <2>1. Map!Bucket(key[x])' = C
    BY <1>2, <1>3, <1>9 DEF Map!Bucket, C
  <2>2. e \in DOMAIN buckets_'[C]
    BY <1>1, <1>8
  <2>3. ASSUME NEW b \in 0 .. bucket_count_' - 1, NEW m \in DOMAIN buckets_'[b]
        PROVE  buckets_'[b][m] = n <=> b = C /\ m = e
    <3>1. b \in 0 .. bucket_count_ - 1
      BY <1>b
    <3> QED BY <1>2, <1>5, <1>6, <1>8, <2>3, <3>1
  <2>4. ASSUME NEW b \in 0 .. bucket_count_' - 1, NEW m \in DOMAIN buckets_'[b]
        PROVE  buckets_'[b][m] = x <=> b = Map!Bucket(key[x])' /\ m = e
    BY <1>9, <2>1, <2>3
  <2>5. e \in DOMAIN buckets_'[Map!Bucket(key[x])']
    BY <2>1, <2>2
  <2> QED BY <2>4, <2>5, Zenon
<1>10. CASE x # n
  <2>1. x \in allocated
    BY <1>2, <1>10
  <2> DEFINE D == Map!Bucket(key[x])
  <2>2. Map!Bucket(key[x])' = D
    BY <1>2, <1>3, <2>1 DEF Map!Bucket
  <2>3. PICK j \in DOMAIN buckets_[D] :
          \A b \in 0 .. bucket_count_ - 1 : \A m \in DOMAIN buckets_[b] :
            buckets_[b][m] = x <=> b = D /\ m = j
    BY <1>2, <2>1 DEF MapIInv, Map!NodesInBuckets
  <2>4. D \in 0 .. bucket_count_ - 1
    BY <1>2, <1>3, <2>1, BucketIs
  <2> HIDE DEF D
  <2>5. j \in DOMAIN buckets_'[D] /\ ~(D = C /\ j = e)
    BY <1>8, <2>3, <2>4
  <2>6. ASSUME NEW b \in 0 .. bucket_count_' - 1, NEW m \in DOMAIN buckets_'[b]
        PROVE  buckets_'[b][m] = x <=> b = D /\ m = j
    <3>0. b \in 0 .. bucket_count_ - 1
      BY <1>b
    <3>1. CASE b = C /\ m = e
      BY <1>5, <1>10, <2>5, <3>1
    <3>2. CASE ~(b = C /\ m = e)
      BY <1>8, <2>3, <2>6, <3>0, <3>2
    <3> QED BY <3>1, <3>2
  <2>7. \E p \in DOMAIN buckets_'[D] :
          \A b \in 0 .. bucket_count_' - 1 : \A m \in DOMAIN buckets_'[b] :
            buckets_'[b][m] = x <=> b = D /\ m = p
    BY <2>5, <2>6, Zenon
  <2> QED BY <2>2, <2>7
<1> QED BY <1>9, <1>10

\* insert keeps the whole invariant.
LEMMA MapInsert ==
  ASSUME MapIInv, NEW k \in Keys, NEW v \in Values, NEW n, Inserts(k, v, n)
  PROVE  MapIInv'
<1>1. Map!FindsFirstInserted' /\ Map!NodesInBuckets'
      /\ buckets_' \in [0 .. bucket_count_ - 1 -> Seq(allocated')]
  BY InsertKeepsFind, InsertKeepsNodes
<1>2. /\ key' \in [Nodes -> Keys \union {nullptr}] /\ value' \in [Nodes -> Values \union {nullptr}]
      /\ allocated' \subseteq Nodes /\ \A m \in allocated' : key'[m] \in Keys
  BY DEF MapIInv, Map!TypeOK, Inserts
<1>3. inserted' \in Seq(Keys \X Values)
  <2>1. <<k, v>> \in Keys \X Values /\ inserted \in Seq(Keys \X Values)
    BY DEF MapIInv, Map!TypeOK
  <2> QED BY <2>1 DEF Inserts
<1>4. Map!TypeOK'
  BY <1>1, <1>2, <1>3 DEF MapIInv, Map!TypeOK, Inserts
<1> QED BY <1>1, <1>2, <1>4 DEF MapIInv, Inserts

\* Every step of the map.
LEMMA MapNext == MapIInv /\ [Map!Next]_(Map!vars) => MapIInv'
<1> SUFFICES ASSUME MapIInv, [Map!Next]_(Map!vars) PROVE MapIInv'
  OBVIOUS
<1>1. ASSUME NEW k \in Keys, NEW v \in Values, Map!insert(k, v) PROVE MapIInv'
  <2>1. PICK n \in Nodes \ allocated : Inserts(k, v, n)
    BY <1>1 DEF Map!insert, Inserts
  <2> QED BY <2>1, MapInsert
<1>2. CASE UNCHANGED Map!vars
  <2>1. UNCHANGED <<life, bucket_count_, buckets_, key, value, allocated, inserted>>
    BY <1>2 DEF Map!vars
  <2>2. Map!TypeOK' /\ Map!NodesInBuckets'
    BY <2>1 DEF MapIInv, Map!TypeOK, Map!NodesInBuckets, Map!Bucket
  <2>3. \A x : Map!find(x)' = Map!find(x)
    BY <2>1 DEF Map!find, Map!findInBucket, Map!Bucket
  <2> DEFINE FindsFirst(q, f, v, x) ==
               LET pairs == {j \in DOMAIN q : q[j][1] = x}
               IN IF pairs = {} THEN f = nullptr
                  ELSE f # nullptr /\ \A j \in pairs : (\A m \in pairs : j <= m) => v[f] = q[j][2]
  <2>4. Map!FindsFirstInserted'
    <3>1. life \in {"ready", "failed"} => \A x \in Keys : FindsFirst(inserted, Map!find(x), value, x)
      BY Zenon DEF MapIInv, Map!FindsFirstInserted
    <3> HIDE DEF FindsFirst
    <3>2. life' \in {"ready", "failed"} =>
             \A x \in Keys : FindsFirst(inserted', Map!find(x)', value', x)
      BY <2>1, <2>3, <3>1
    <3> QED BY <3>2, Zenon DEF Map!FindsFirstInserted, FindsFirst
  <2> QED BY <2>1, <2>2, <2>4 DEF MapIInv
<1> QED BY <1>1, <1>2, MapConstruct, MapDivide, MapDestruct DEF Map!Next

\* What find answered stays the answer while the map lives.
LEMMA MapPointers ==
  ASSUME MapIInv, Map!Next, life' = "ready", NEW x \in Keys, Map!find(x) # nullptr
  PROVE  Map!find(x)' = Map!find(x) /\ value'[Map!find(x)] = value[Map!find(x)]
<1>1. life = "ready"
  BY DEF Map!find
<1>2. PICK k \in Keys, v \in Values : Map!insert(k, v)
  BY <1>1 DEF Map!Next, Map!Construct, Map!DivideByZero, Map!Destruct
<1>3. PICK n \in Nodes \ allocated : Inserts(k, v, n)
  BY <1>2 DEF Map!insert, Inserts
<1> QED BY <1>3, InsertFind

\* A step of MCNext is one of the map, or leaves it alone.
LEMMA MapStep == [MCNext]_mcVars => [Map!Next]_(Map!vars)
BY DEF MCNext, mcVars, Still, mapVars, Map!vars

\* HashMap: for every hash function and every number of buckets, find leads to
\* the first value inserted under its key, and each node is in one place, in the
\* bucket of its key.
THEOREM MapInvHolds == MCSpec => []MapInv
<1>1. MCInit => MapIInv
  BY MapInit DEF MCInit
<1>2. MapIInv /\ [MCNext]_mcVars => MapIInv'
  BY MapStep, MapNext
<1>3. MapIInv => MapInv
  BY DEF MapIInv, MapInv
<1> QED BY <1>1, <1>2, <1>3, PTL DEF MCSpec, mcVars

\* HashMap: the node that find returned stays the answer, with its value.
THEOREM PointersStayValidHolds == MCSpec => PointersStayValid
<1> DEFINE Stays == life' = "ready" =>
              \A k \in Keys : Map!find(k) # nullptr =>
                Map!find(k)' = Map!find(k) /\ value'[Map!find(k)] = value[Map!find(k)]
<1>1. MCInit => MapIInv
  BY MapInit DEF MCInit
<1>2. MapIInv /\ [MCNext]_mcVars => MapIInv'
  BY MapStep, MapNext
<1>3. MapIInv /\ [MCNext]_mcVars => [Stays]_(Map!vars)
  <2>1. MapIInv /\ Map!Next => Stays
    BY MapPointers
  <2> HIDE DEF Stays
  <2> QED BY <2>1, MapStep
<1> HIDE DEF Stays
<1>4. MCSpec => [][Stays]_(Map!vars)
  BY <1>1, <1>2, <1>3, PTL DEF MCSpec, mcVars
<1> QED BY <1>4 DEF PointersStayValid, Map!PointersStayValid, Stays

------------------------------------------------------------------------------
(***************************************************************************)
(* List.  The pointers are a ring of a sequence q of distinct nodes: what  *)
(* list_add and list_del do to the pointers is an insertion into q or a    *)
(* removal, and following next from the head computes q.  The Iterator is  *)
(* on one of its positions, or was undercut.                               *)
(***************************************************************************)

\* The list_head at position k of the ring, which is the head at both ends.
At(q, k) == IF k \in 1 .. Len(q) THEN q[k] ELSE head_

\* The pointers nx and pv form the ring through the head and the nodes of q in
\* their order, and every other node is poisoned.
Ring(nx, pv, q) ==
  /\ q \in Seq(ListNodes)
  /\ \A j, k \in 1 .. Len(q) : q[j] = q[k] => j = k
  /\ \A k \in 0 .. Len(q) : nx[At(q, k)] = At(q, k + 1) /\ pv[At(q, k + 1)] = At(q, k)
  /\ \A n \in ListNodes : (\A k \in 1 .. Len(q) : q[k] # n) => nx[n] = poison /\ pv[n] = poison

\* What the assumptions on the constants say of the list.
LEMMA ListConstants ==
  /\ IsFiniteSet(ListNodes) /\ head_ \notin ListNodes /\ poison \notin ListNodes
  /\ none \notin ListNodes /\ head_ # poison /\ none # head_ /\ none # poison
<1>1. L!IsFiniteSet(ListNodes) <=> IsFiniteSet(ListNodes)
  BY DEF L!IsFiniteSet, IsFiniteSet
<1> QED BY <1>1, PartsAssumption DEF L!ConstantsAssumption

\* The instance's Cardinality is the one of FiniteSets.
LEMMA ListCardinality == ASSUME NEW S PROVE L!Cardinality(S) = Cardinality(S)
<1>1. L!IsFiniteSet(S) <=> IsFiniteSet(S)
  BY DEF L!IsFiniteSet, IsFiniteSet
<1> QED BY <1>1 DEF L!Cardinality, Cardinality

\* A position of the ring holds a list_head.
LEMMA AtIn ==
  ASSUME NEW q \in Seq(ListNodes), NEW k \in Int
  PROVE  At(q, k) \in L!Heads /\ Len(q) \in Nat /\ (k \in 1 .. Len(q) => At(q, k) = q[k] /\ q[k] \in ListNodes)
BY ElementOfSeq DEF At, L!Heads

\* The nodes on the list are those of q.
LEMMA RingNodes ==
  ASSUME NEW q, Ring(next, prev, q)
  PROVE  {n \in ListNodes : L!OnList(n)} = {q[k] : k \in 1 .. Len(q)}
<1>1. q \in Seq(ListNodes) /\ Len(q) \in Nat
  BY DEF Ring
<1>2. ASSUME NEW k \in 1 .. Len(q) PROVE q[k] \in ListNodes /\ next[q[k]] # poison
  <2>1. At(q, k) = q[k] /\ q[k] \in ListNodes /\ At(q, k + 1) \in L!Heads
    BY <1>1, AtIn
  <2>2. k \in 0 .. Len(q)
    BY <1>1
  <2>3. next[At(q, k)] = At(q, k + 1)
    BY <2>2 DEF Ring
  <2> QED BY <2>1, <2>3, ListConstants DEF L!Heads
<1>3. ASSUME NEW n \in ListNodes, \A k \in 1 .. Len(q) : q[k] # n PROVE next[n] = poison
  BY <1>3 DEF Ring
<1> QED BY <1>2, <1>3 DEF L!OnList

\* As many nodes are on the list as q has.
LEMMA RingLength ==
  ASSUME NEW q, Ring(next, prev, q)
  PROVE  L!Length = Len(q)
<1> DEFINE S == {q[k] : k \in 1 .. Len(q)}
<1>1. q \in Seq(ListNodes) /\ Len(q) \in Nat /\ q \in [1 .. Len(q) -> ListNodes]
  BY DEF Ring
<1>2. q \in Bijection(1 .. Len(q), S)
  BY <1>1 DEF Ring, Bijection, Injection, Surjection, IsInjective
<1>3. Cardinality(1 .. Len(q)) = Len(q) /\ IsFiniteSet(1 .. Len(q))
  BY <1>1, FS_Interval
<1>4. Cardinality(S) = Len(q)
  BY <1>2, <1>3, FS_Bijection DEF ExistsBijection
<1>5. {n \in ListNodes : L!OnList(n)} = S
  BY RingNodes
<1>6. L!Length = L!Cardinality({n \in ListNodes : L!OnList(n)})
  BY DEF L!Length
<1> HIDE DEF S
<1>7. L!Cardinality(S) = Cardinality(S)
  BY ListCardinality
<1> QED BY <1>4, <1>5, <1>6, <1>7

\* k steps along next lead from the head to position k: At is a function that
\* satisfies the recursion, and at the least position where another one that does
\* so differed, it would not differ one position before.
LEMMA RingSteps ==
  ASSUME NEW q, Ring(next, prev, q)
  PROVE  \A k \in 0 .. Len(q) + 1 : L!Steps[k] = At(q, k)
<1>1. q \in Seq(ListNodes) /\ Len(q) \in Nat
  BY DEF Ring
<1> DEFINE D == 0 .. Len(q) + 1
           Rec(s) == s = [k \in D |-> IF k = 0 THEN head_ ELSE next[s[k - 1]]]
           g == [k \in D |-> At(q, k)]
<1>2. Rec(g)
  <2>1. ASSUME NEW k \in D PROVE At(q, k) = IF k = 0 THEN head_ ELSE next[g[k - 1]]
    <3>1. CASE k = 0
      BY <1>1, <3>1 DEF At
    <3>2. CASE k # 0
      <4>1. k - 1 \in 0 .. Len(q) /\ (k - 1) + 1 = k /\ k - 1 \in D
        BY <1>1, <3>2
      <4>2. next[At(q, k - 1)] = At(q, k)
        BY <4>1 DEF Ring
      <4> QED BY <3>2, <4>1, <4>2
    <3> QED BY <3>1, <3>2
  <2> QED BY <2>1
<1>3. L!Steps = CHOOSE s : Rec(s)
  BY RingLength DEF L!Steps
<1>4. Rec(L!Steps)
  BY <1>2, <1>3
<1> DEFINE t == L!Steps
<1> HIDE DEF t
<1>5. t = [k \in D |-> IF k = 0 THEN head_ ELSE next[t[k - 1]]]
  BY <1>4 DEF t
<1>6. ASSUME \E k \in D : t[k] # At(q, k) PROVE FALSE
  <2>1. PICK k \in {k \in D : t[k] # At(q, k)} : \A m \in {m \in D : t[m] # At(q, m)} : k <= m
    <3> DEFINE T == {k \in D : t[k] # At(q, k)}
    <3>1. T \subseteq Nat /\ T # {}
      BY <1>1, <1>6
    <3> HIDE DEF T
    <3>2. \E k \in T : \A m \in T : k <= m
      BY <3>1, LeastNat
    <3> QED BY <3>2 DEF T
  <2>2. k # 0
    BY <1>1, <1>5, <2>1 DEF At
  <2>3. k - 1 \in D /\ k - 1 \in 0 .. Len(q) /\ (k - 1) + 1 = k /\ ~(k <= k - 1)
    BY <1>1, <2>1, <2>2
  <2>4. t[k - 1] = At(q, k - 1)
    BY <2>1, <2>3
  <2>5. next[At(q, k - 1)] = At(q, k)
    BY <2>3 DEF Ring
  <2> QED BY <1>5, <2>1, <2>2, <2>4, <2>5
<1> QED BY <1>6 DEF t

\* Following next from the head computes q.
LEMMA RingItems ==
  \A q : Ring(next, prev, q) =>
    L!Items = q /\ L!Length = Len(q) /\ \A k \in 0 .. Len(q) + 1 : L!Steps[k] = At(q, k)
<1> SUFFICES ASSUME NEW q, Ring(next, prev, q)
             PROVE  L!Items = q /\ L!Length = Len(q) /\ \A k \in 0 .. Len(q) + 1 : L!Steps[k] = At(q, k)
  OBVIOUS
<1>1. q \in Seq(ListNodes) /\ Len(q) \in Nat /\ q = [k \in 1 .. Len(q) |-> q[k]]
  BY DEF Ring
<1>2. \A k \in 1 .. Len(q) : L!Steps[k] = q[k]
  BY <1>1, RingSteps DEF At
<1>3. L!Items = [k \in 1 .. Len(q) |-> L!Steps[k]]
  BY RingLength DEF L!Items
<1>4. L!Items = q
  BY <1>1, <1>2, <1>3
<1> QED BY <1>4, RingLength, RingSteps

\* The same of the next state.
LEMMA RingItemsNext ==
  \A q : Ring(next', prev', q) =>
    L!Items' = q /\ L!Length' = Len(q)
<1>1. (\A q : Ring(next, prev, q) =>
    L!Items = q /\ L!Length = Len(q) /\ \A k \in 0 .. Len(q) + 1 : L!Steps[k] = At(q, k))'
  BY RingItems, PTL
<1> QED BY <1>1

\* No two positions of the ring hold the same list_head.
LEMMA AtInjective ==
  ASSUME NEW nx, NEW pv, NEW q, Ring(nx, pv, q)
  PROVE  /\ \A j, k \in 0 .. Len(q) : At(q, j) = At(q, k) => j = k
         /\ \A j, k \in 1 .. Len(q) + 1 : At(q, j) = At(q, k) => j = k
<1>1. q \in Seq(ListNodes) /\ Len(q) \in Nat
  BY DEF Ring
<1>2. \A k \in 1 .. Len(q) : At(q, k) = q[k] /\ q[k] # head_
  BY <1>1, AtIn, ListConstants
<1>3. At(q, 0) = head_ /\ At(q, Len(q) + 1) = head_
  BY <1>1 DEF At
<1>4. \A j, k \in 1 .. Len(q) : q[j] = q[k] => j = k
  BY DEF Ring
<1>5. \A j \in 0 .. Len(q) : j = 0 \/ j \in 1 .. Len(q)
  BY <1>1
<1>6. \A j \in 1 .. Len(q) + 1 : j = Len(q) + 1 \/ j \in 1 .. Len(q)
  BY <1>1
<1>7. ASSUME NEW j \in 0 .. Len(q), NEW k \in 0 .. Len(q), At(q, j) = At(q, k) PROVE j = k
  BY <1>2, <1>3, <1>4, <1>5, <1>7
<1>8. ASSUME NEW j \in 1 .. Len(q) + 1, NEW k \in 1 .. Len(q) + 1, At(q, j) = At(q, k) PROVE j = k
  BY <1>2, <1>3, <1>4, <1>6, <1>8
<1> QED BY <1>7, <1>8

\* r is q with n behind position c.
Inserted(q, c, n, r) ==
  /\ r \in Seq(ListNodes) /\ Len(r) = Len(q) + 1
  /\ \A k \in 1 .. Len(q) + 1 : r[k] = IF k <= c THEN q[k] ELSE IF k = c + 1 THEN n ELSE q[k - 1]

\* r is q without its position c.
Removed(q, c, r) ==
  /\ r \in Seq(ListNodes) /\ Len(r) = Len(q) - 1
  /\ \A k \in 1 .. Len(q) - 1 : r[k] = IF k < c THEN q[k] ELSE q[k + 1]

\* The types of next and prev.
Links == [L!Heads -> L!Heads \union {poison}]

\* The positions of the ring after an insertion.
LEMMA AtInserted ==
  ASSUME NEW q \in Seq(ListNodes), NEW n, NEW c \in 0 .. Len(q), NEW r, Inserted(q, c, n, r),
         NEW k \in 0 .. Len(q) + 2
  PROVE  At(r, k) = IF k <= c THEN At(q, k) ELSE IF k = c + 1 THEN n ELSE At(q, k - 1)
<1>1. Len(q) \in Nat /\ Len(r) = Len(q) + 1
  BY DEF Inserted
<1>2. CASE k = 0
  BY <1>1, <1>2 DEF At
<1>3. CASE k = Len(q) + 2
  BY <1>1, <1>3 DEF At
<1>4. CASE k \in 1 .. Len(q) + 1
  <2>1. At(r, k) = r[k] /\ r[k] = IF k <= c THEN q[k] ELSE IF k = c + 1 THEN n ELSE q[k - 1]
    BY <1>1, <1>4 DEF At, Inserted
  <2>2. CASE k <= c
    <3>1. k \in 1 .. Len(q)
      BY <1>1, <1>4, <2>2
    <3> QED BY <2>1, <2>2, <3>1 DEF At
  <2>3. CASE k = c + 1
    <3>1. ~(k <= c)
      BY <1>1, <2>3
    <3> QED BY <2>1, <2>3, <3>1
  <2>4. CASE ~(k <= c) /\ k # c + 1
    <3>1. k - 1 \in 1 .. Len(q)
      BY <1>1, <1>4, <2>4
    <3> QED BY <2>1, <2>4, <3>1 DEF At
  <2> QED BY <2>2, <2>3, <2>4
<1> QED BY <1>1, <1>2, <1>3, <1>4

\* The positions of the ring after a removal.
LEMMA AtRemoved ==
  ASSUME NEW q \in Seq(ListNodes), NEW c \in 1 .. Len(q), NEW r, Removed(q, c, r), NEW k \in 0 .. Len(q)
  PROVE  At(r, k) = IF k < c THEN At(q, k) ELSE At(q, k + 1)
<1>1. Len(q) \in Nat /\ Len(r) = Len(q) - 1
  BY DEF Removed
<1>2. CASE k = 0
  BY <1>1, <1>2 DEF At
<1>3. CASE k = Len(q)
  BY <1>1, <1>3 DEF At
<1>4. CASE k \in 1 .. Len(q) - 1
  <2>1. At(r, k) = r[k] /\ r[k] = IF k < c THEN q[k] ELSE q[k + 1]
    BY <1>1, <1>4 DEF At, Removed
  <2>2. k \in 1 .. Len(q) /\ k + 1 \in 1 .. Len(q)
    BY <1>1, <1>4
  <2> QED BY <2>1, <2>2 DEF At
<1> QED BY <1>1, <1>2, <1>3, <1>4

\* __list_add makes a ring of a ring.
LEMMA InsertRing ==
  ASSUME NEW nx \in Links, NEW pv \in Links, NEW q, Ring(nx, pv, q),
         NEW n \in ListNodes, nx[n] = poison, NEW c \in 0 .. Len(q), NEW r, Inserted(q, c, n, r),
         NEW p, p = At(q, c), NEW s, s = At(q, c + 1)
  PROVE  Ring([nx EXCEPT ![n] = s, ![p] = n], [pv EXCEPT ![s] = n, ![n] = p], r)
<1> DEFINE x == [nx EXCEPT ![n] = s, ![p] = n]
           y == [pv EXCEPT ![s] = n, ![n] = p]
<1>1. q \in Seq(ListNodes) /\ Len(q) \in Nat /\ c \in Nat /\ c <= Len(q) /\ Len(r) = Len(q) + 1
  BY DEF Ring, Inserted
<1>2. p \in L!Heads /\ s \in L!Heads /\ n \in L!Heads
  BY <1>1, AtIn DEF L!Heads
<1>3. \A k \in 0 .. Len(q) + 1 : At(q, k) # n /\ At(q, k) \in L!Heads
  <2> TAKE k \in 0 .. Len(q) + 1
  <2>1. At(q, k) \in L!Heads
    BY <1>1, AtIn
  <2>2. CASE k \in 0 .. Len(q)
    <3>1. nx[At(q, k)] = At(q, k + 1) /\ At(q, k + 1) \in L!Heads
      BY <1>1, <2>2, AtIn DEF Ring
    <3> QED BY <2>1, <3>1, ListConstants DEF L!Heads
  <2>3. CASE k = Len(q) + 1
    BY <1>1, <2>1, <2>3, ListConstants DEF At
  <2> QED BY <1>1, <2>2, <2>3
<1>4. /\ x[n] = s /\ x[p] = n /\ y[s] = n /\ y[n] = p
      /\ \A h \in L!Heads : h # n /\ h # p => x[h] = nx[h]
      /\ \A h \in L!Heads : h # n /\ h # s => y[h] = pv[h]
  <2>1. p # n /\ s # n
    BY <1>1, <1>3
  <2> QED BY <1>2, <2>1 DEF Links
<1> HIDE DEF x, y
<1>5. \A k \in 0 .. Len(q) + 2 :
        At(r, k) = IF k <= c THEN At(q, k) ELSE IF k = c + 1 THEN n ELSE At(q, k - 1)
  BY <1>1, AtInserted
<1>6. ASSUME NEW k \in 0 .. Len(r) PROVE x[At(r, k)] = At(r, k + 1) /\ y[At(r, k + 1)] = At(r, k)
  <2>1. k \in 0 .. Len(q) + 2 /\ k + 1 \in 0 .. Len(q) + 2
    BY <1>1
  <2>2. CASE k < c
    <3>1. k \in 0 .. Len(q) /\ k + 1 \in 1 .. Len(q) + 1 /\ c \in 0 .. Len(q) /\ c + 1 \in 1 .. Len(q) + 1
      BY <1>1, <2>2
    <3>2. At(r, k) = At(q, k) /\ At(r, k + 1) = At(q, k + 1)
      BY <1>1, <1>5, <2>1, <2>2
    <3>3. nx[At(q, k)] = At(q, k + 1) /\ pv[At(q, k + 1)] = At(q, k)
      BY <3>1 DEF Ring
    <3>4. k # c /\ k + 1 # c + 1 /\ k \in 0 .. Len(q) + 1 /\ k + 1 \in 0 .. Len(q) + 1
      BY <1>1, <2>2, <3>1
    <3>5. At(q, k) # p /\ At(q, k + 1) # s
      BY <3>1, <3>4, AtInjective
    <3> QED BY <1>3, <1>4, <3>2, <3>3, <3>4, <3>5
  <2>3. CASE k = c
    <3>1. At(r, k) = p /\ At(r, k + 1) = n
      BY <1>1, <1>5, <2>1, <2>3
    <3> QED BY <1>4, <3>1
  <2>4. CASE k = c + 1
    <3>1. At(r, k) = n /\ At(r, k + 1) = s
      BY <1>1, <1>5, <2>1, <2>4
    <3> QED BY <1>4, <3>1
  <2>5. CASE k > c + 1
    <3>0. /\ ~(k <= c) /\ k # c + 1 /\ ~(k + 1 <= c) /\ k + 1 # c + 1 /\ (k + 1) - 1 = k
          /\ (k - 1) + 1 = k
      BY <1>1, <2>5
    <3>1. /\ k - 1 \in 0 .. Len(q) /\ k \in 1 .. Len(q) + 1
          /\ c \in 0 .. Len(q) /\ c + 1 \in 1 .. Len(q) + 1
      BY <1>1, <2>5
    <3>2. At(r, k) = At(q, k - 1) /\ At(r, k + 1) = At(q, k)
      BY <1>5, <2>1, <3>0
    <3>3. nx[At(q, k - 1)] = At(q, k) /\ pv[At(q, k)] = At(q, k - 1)
      BY <3>0, <3>1 DEF Ring
    <3>4. k - 1 # c /\ k # c + 1 /\ k - 1 \in 0 .. Len(q) + 1 /\ k \in 0 .. Len(q) + 1
      BY <1>1, <2>5, <3>1
    <3>5. At(q, k - 1) # p /\ At(q, k) # s
      BY <3>1, <3>4, AtInjective
    <3> QED BY <1>3, <1>4, <3>2, <3>3, <3>4, <3>5
  <2> QED BY <1>1, <2>2, <2>3, <2>4, <2>5
<1>7. \A k \in 1 .. Len(r) : r[k] = At(r, k) /\ k \in 0 .. Len(q) + 2
  BY <1>1 DEF At
<1>8. ASSUME NEW j \in 1 .. Len(r), NEW k \in 1 .. Len(r), r[j] = r[k] PROVE j = k
  <2>1. ASSUME NEW m \in 1 .. Len(r)
        PROVE  \/ m = c + 1 /\ At(r, m) = n
               \/ \E z \in 1 .. Len(q) : /\ At(r, m) = At(q, z) /\ At(q, z) # n
                                         /\ ((z <= c /\ m = z) \/ (z > c /\ m = z + 1))
    <3>1. CASE m <= c
      <4>1. m \in 1 .. Len(q) /\ m \in 0 .. Len(q) + 1 /\ m \in 0 .. Len(q) + 2
        BY <1>1, <3>1
      <4>2. At(r, m) = At(q, m) /\ At(q, m) # n
        BY <1>3, <1>5, <3>1, <4>1
      <4> QED BY <3>1, <4>1, <4>2, Zenon
    <3>2. CASE m = c + 1
      BY <1>1, <1>5, <1>7, <3>2
    <3>3. CASE m > c + 1
      <4>1. m - 1 \in 1 .. Len(q) /\ m - 1 \in 0 .. Len(q) + 1 /\ m \in 0 .. Len(q) + 2
            /\ ~(m <= c) /\ m # c + 1 /\ m - 1 > c /\ m = (m - 1) + 1
        BY <1>1, <3>3
      <4>2. At(r, m) = At(q, m - 1) /\ At(q, m - 1) # n
        BY <1>3, <1>5, <4>1
      <4> QED BY <4>1, <4>2
    <3> QED BY <1>1, <3>1, <3>2, <3>3
  <2>2. At(r, j) = At(r, k)
    BY <1>7, <1>8
  <2>3. CASE At(r, j) = n
    BY <2>1, <2>2, <2>3
  <2>4. CASE At(r, j) # n
    <3>1. PICK z \in 1 .. Len(q) : At(r, j) = At(q, z) /\ ((z <= c /\ j = z) \/ (z > c /\ j = z + 1))
      BY <2>1, <2>4
    <3>2. PICK w \in 1 .. Len(q) : At(r, k) = At(q, w) /\ ((w <= c /\ k = w) \/ (w > c /\ k = w + 1))
      BY <2>1, <2>2, <2>4
    <3>3. z = w
      <4>1. z \in 1 .. Len(q) + 1 /\ w \in 1 .. Len(q) + 1
        BY <1>1
      <4>2. At(q, z) = At(q, w)
        BY <2>2, <3>1, <3>2
      <4> QED BY <4>1, <4>2, AtInjective
    <3> QED BY <1>1, <3>1, <3>2, <3>3
  <2> QED BY <2>3, <2>4
<1>9. ASSUME NEW m \in ListNodes, \A k \in 1 .. Len(r) : r[k] # m PROVE x[m] = poison /\ y[m] = poison
  <2>1. m # n
    <3>1. c + 1 \in 1 .. Len(r) /\ c + 1 \in 1 .. Len(q) + 1 /\ ~(c + 1 <= c)
      BY <1>1
    <3> QED BY <1>9, <3>1 DEF Inserted
  <2>2. ASSUME NEW k \in 1 .. Len(q) PROVE q[k] # m
    <3>1. CASE k <= c
      <4>1. k \in 1 .. Len(r) /\ k \in 1 .. Len(q) + 1
        BY <1>1
      <4> QED BY <1>9, <3>1, <4>1 DEF Inserted
    <3>2. CASE ~(k <= c)
      <4>1. k + 1 \in 1 .. Len(r) /\ k + 1 \in 1 .. Len(q) + 1 /\ ~(k + 1 <= c) /\ k + 1 # c + 1
            /\ (k + 1) - 1 = k
        BY <1>1, <3>2
      <4> QED BY <1>9, <4>1 DEF Inserted
    <3> QED BY <3>1, <3>2
  <2>3. nx[m] = poison /\ pv[m] = poison
    BY <2>2 DEF Ring
  <2>4. m # p /\ m # s /\ m \in L!Heads
    <3>1. m # head_ /\ m \in L!Heads
      BY ListConstants DEF L!Heads
    <3> QED BY <2>2, <3>1 DEF At
  <2> QED BY <1>4, <2>1, <2>3, <2>4
<1>10. r \in Seq(ListNodes)
  BY DEF Inserted
<1> QED BY <1>6, <1>8, <1>9, <1>10 DEF Ring, x, y

\* list_del makes a ring of a ring.
LEMMA RemoveRing ==
  ASSUME NEW nx \in Links, NEW pv \in Links, NEW q, Ring(nx, pv, q),
         NEW c \in 1 .. Len(q), NEW n, n = q[c], NEW r, Removed(q, c, r)
  PROVE  /\ nx[n] = At(q, c + 1) /\ pv[n] = At(q, c - 1)
         /\ Ring([nx EXCEPT ![pv[n]] = nx[n], ![n] = poison], [pv EXCEPT ![nx[n]] = pv[n], ![n] = poison], r)
<1> DEFINE p == At(q, c - 1)
           s == At(q, c + 1)
           x == [nx EXCEPT ![p] = s, ![n] = poison]
           y == [pv EXCEPT ![s] = p, ![n] = poison]
<1>1. /\ q \in Seq(ListNodes) /\ Len(q) \in Nat /\ c \in Nat /\ 1 <= c /\ c <= Len(q)
      /\ Len(r) = Len(q) - 1 /\ n = At(q, c)
  BY DEF Ring, Removed, At
<1>2. /\ c - 1 \in 0 .. Len(q) /\ (c - 1) + 1 = c /\ c \in 0 .. Len(q) /\ c \in 1 .. Len(q) + 1
      /\ c + 1 \in 1 .. Len(q) + 1 /\ c - 1 # c /\ c + 1 # c
  BY <1>1
<1>3. nx[n] = s /\ pv[n] = p
  BY <1>1, <1>2 DEF Ring
<1>4. p \in L!Heads /\ s \in L!Heads /\ n \in L!Heads /\ p # n /\ s # n
  <2>1. p \in L!Heads /\ s \in L!Heads /\ n \in L!Heads
    BY <1>1, <1>2, AtIn
  <2>2. p # n /\ s # n
    BY <1>1, <1>2, AtInjective
  <2> QED BY <2>1, <2>2
<1>5. /\ x[n] = poison /\ x[p] = s /\ y[n] = poison /\ y[s] = p
      /\ \A h \in L!Heads : h # n /\ h # p => x[h] = nx[h]
      /\ \A h \in L!Heads : h # n /\ h # s => y[h] = pv[h]
  <2> HIDE DEF p, s
  <2> QED BY <1>4 DEF Links
<1>6. /\ [nx EXCEPT ![pv[n]] = nx[n], ![n] = poison] = x
      /\ [pv EXCEPT ![nx[n]] = pv[n], ![n] = poison] = y
  BY <1>3
<1> HIDE DEF x, y
<1>7. \A k \in 0 .. Len(q) : At(r, k) = IF k < c THEN At(q, k) ELSE At(q, k + 1)
  BY <1>1, AtRemoved
<1>8. ASSUME NEW k \in 0 .. Len(r) PROVE x[At(r, k)] = At(r, k + 1) /\ y[At(r, k + 1)] = At(r, k)
  <2>0. k \in 0 .. Len(q) /\ k + 1 \in 0 .. Len(q)
    BY <1>1
  <2>1. CASE k < c - 1
    <3>1. /\ k < c /\ k + 1 < c /\ k + 1 \in 1 .. Len(q) + 1 /\ k # c /\ k + 1 # c
          /\ k # c - 1 /\ k + 1 # c + 1
      BY <1>1, <2>0, <2>1
    <3>2. At(r, k) = At(q, k) /\ At(r, k + 1) = At(q, k + 1)
      BY <1>7, <2>0, <3>1
    <3>3. nx[At(q, k)] = At(q, k + 1) /\ pv[At(q, k + 1)] = At(q, k)
      BY <2>0 DEF Ring
    <3>4. At(q, k) # p /\ At(q, k + 1) # s /\ At(q, k) # n /\ At(q, k + 1) # n
      BY <1>1, <1>2, <2>0, <3>1, AtInjective
    <3>5. At(q, k) \in L!Heads /\ At(q, k + 1) \in L!Heads
      BY <1>1, <2>0, AtIn
    <3> QED BY <1>5, <3>2, <3>3, <3>4, <3>5
  <2>2. CASE k = c - 1
    <3>1. k < c /\ ~(k + 1 < c) /\ (k + 1) + 1 = c + 1
      BY <1>1, <2>2
    <3>2. At(r, k) = p /\ At(r, k + 1) = s
      BY <1>7, <2>0, <2>2, <3>1
    <3> QED BY <1>5, <3>2
  <2>3. CASE k > c - 1
    <3>1. /\ ~(k < c) /\ ~(k + 1 < c) /\ k + 1 \in 0 .. Len(q) /\ (k + 1) + 1 \in 1 .. Len(q) + 1
          /\ k + 1 # c /\ (k + 1) + 1 # c /\ k + 1 # c - 1 /\ (k + 1) + 1 # c + 1
      BY <1>1, <2>3
    <3>2. At(r, k) = At(q, k + 1) /\ At(r, k + 1) = At(q, (k + 1) + 1)
      BY <1>7, <2>0, <3>1
    <3>3. nx[At(q, k + 1)] = At(q, (k + 1) + 1) /\ pv[At(q, (k + 1) + 1)] = At(q, k + 1)
      BY <3>1 DEF Ring
    <3>4. At(q, k + 1) # p /\ At(q, (k + 1) + 1) # s /\ At(q, k + 1) # n /\ At(q, (k + 1) + 1) # n
      BY <1>1, <1>2, <3>1, AtInjective
    <3>5. At(q, k + 1) \in L!Heads /\ At(q, (k + 1) + 1) \in L!Heads
      BY <1>1, <3>1, AtIn
    <3> QED BY <1>5, <3>2, <3>3, <3>4, <3>5
  <2> QED BY <1>1, <2>1, <2>2, <2>3
<1>9. \A j, k \in 1 .. Len(q) : q[j] = q[k] => j = k
  BY DEF Ring
<1>10. ASSUME NEW j \in 1 .. Len(r), NEW k \in 1 .. Len(r), r[j] = r[k] PROVE j = k
  <2>1. ASSUME NEW m \in 1 .. Len(r)
        PROVE  \E z \in 1 .. Len(q) : r[m] = q[z] /\ ((z < c /\ m = z) \/ (z > c /\ m = z - 1))
    <3>0. m \in 1 .. Len(q) - 1
      BY <1>1
    <3>1. CASE m < c
      <4>1. m \in 1 .. Len(q)
        BY <1>1, <3>0
      <4>2. r[m] = q[m]
        BY <3>0, <3>1 DEF Removed
      <4> QED BY <3>1, <4>1, <4>2, Zenon
    <3>2. CASE ~(m < c)
      <4>1. m + 1 \in 1 .. Len(q) /\ m + 1 > c /\ m = (m + 1) - 1
        BY <1>1, <3>2
      <4>2. r[m] = q[m + 1]
        BY <3>0, <3>2 DEF Removed
      <4> QED BY <4>1, <4>2, Zenon
    <3> QED BY <3>1, <3>2
  <2>2. PICK z \in 1 .. Len(q) : r[j] = q[z] /\ ((z < c /\ j = z) \/ (z > c /\ j = z - 1))
    BY <2>1
  <2>3. PICK w \in 1 .. Len(q) : r[k] = q[w] /\ ((w < c /\ k = w) \/ (w > c /\ k = w - 1))
    BY <2>1
  <2>4. z = w
    BY <1>9, <1>10, <2>2, <2>3
  <2> QED BY <1>1, <2>2, <2>3, <2>4
<1>11. ASSUME NEW m \in ListNodes, \A k \in 1 .. Len(r) : r[k] # m PROVE x[m] = poison /\ y[m] = poison
  <2>1. CASE m = n
    BY <1>5, <2>1
  <2>2. CASE m # n
    <3>1. ASSUME NEW k \in 1 .. Len(q) PROVE q[k] # m
      <4>1. CASE k < c
        <5>1. k \in 1 .. Len(r) /\ k \in 1 .. Len(q) - 1
          BY <1>1, <4>1
        <5> QED BY <1>11, <4>1, <5>1 DEF Removed
      <4>2. CASE k = c
        BY <2>2, <4>2
      <4>3. CASE k > c
        <5>1. k - 1 \in 1 .. Len(r) /\ k - 1 \in 1 .. Len(q) - 1 /\ ~(k - 1 < c) /\ (k - 1) + 1 = k
          BY <1>1, <4>3
        <5> QED BY <1>11, <5>1 DEF Removed
      <4> QED BY <1>1, <4>1, <4>2, <4>3
    <3>2. nx[m] = poison /\ pv[m] = poison
      BY <3>1 DEF Ring
    <3>3. m # p /\ m # s /\ m \in L!Heads
      <4>1. m # head_ /\ m \in L!Heads
        BY ListConstants DEF L!Heads
      <4> QED BY <3>1, <4>1 DEF At
    <3> QED BY <1>5, <2>2, <3>2, <3>3
  <2> QED BY <2>1, <2>2
<1>12. r \in Seq(ListNodes)
  BY DEF Removed
<1>13. Ring(x, y, r)
  BY <1>8, <1>10, <1>11, <1>12 DEF Ring
<1> QED BY <1>3, <1>6, <1>13

\* Where an Iterator on node stands in a ring of q: of the nodes that have
\* stayed, those up to it were visited once and those behind it not yet; at the
\* head, which is the end, all were.
Iterates(q, node, st, vs, uc) ==
  /\ \A n \in st : \E k \in 1 .. Len(q) : q[k] = n
  /\ (uc \/ node = none) => st = {}
  /\ ~uc => node \in {none, head_} \/ \E k \in 1 .. Len(q) : q[k] = node
  /\ \A k \in 1 .. Len(q) :
       q[k] \in st => vs[q[k]] = IF \E j \in 1 .. k - 1 : q[j] = node THEN 0 ELSE 1

\* The inductive invariant.
ListIInv ==
  L!TypeOK /\ \E q : Ring(next, prev, q) /\ Iterates(q, node_, stayed, visits, undercut)

\* A node on no list can be added without an effect on the iteration.
LEMMA InsertIterates ==
  ASSUME NEW q \in Seq(ListNodes), NEW node, NEW st, NEW vs, NEW uc,
         Iterates(q, node, st, vs, uc), NEW n \in ListNodes, \A k \in 1 .. Len(q) : q[k] # n,
         NEW c \in 0 .. Len(q), NEW r, Inserted(q, c, n, r)
  PROVE  Iterates(r, node, st, vs, uc)
<1>1. Len(q) \in Nat /\ Len(r) = Len(q) + 1 /\ c \in Nat /\ c <= Len(q)
  BY DEF Inserted
<1>2. ASSUME NEW k \in 1 .. Len(q)
      PROVE  \E m \in 1 .. Len(r) : r[m] = q[k] /\ m = IF k <= c THEN k ELSE k + 1
  <2>1. CASE k <= c
    <3>1. k \in 1 .. Len(r) /\ k \in 1 .. Len(q) + 1
      BY <1>1
    <3> QED BY <2>1, <3>1 DEF Inserted
  <2>2. CASE ~(k <= c)
    <3>1. k + 1 \in 1 .. Len(r) /\ k + 1 \in 1 .. Len(q) + 1 /\ ~(k + 1 <= c) /\ k + 1 # c + 1
          /\ (k + 1) - 1 = k
      BY <1>1, <2>2
    <3> QED BY <2>2, <3>1 DEF Inserted
  <2> QED BY <2>1, <2>2
<1>3. ASSUME NEW m \in 1 .. Len(r)
      PROVE  \/ m = c + 1 /\ r[m] = n
             \/ \E k \in 1 .. Len(q) : r[m] = q[k] /\ m = IF k <= c THEN k ELSE k + 1
  <2>0. m \in 1 .. Len(q) + 1
    BY <1>1
  <2>1. CASE m <= c
    <3>1. m \in 1 .. Len(q)
      BY <1>1, <2>1
    <3> QED BY <2>0, <2>1, <3>1 DEF Inserted
  <2>2. CASE m = c + 1
    <3>1. ~(m <= c)
      BY <1>1, <2>2
    <3> QED BY <2>0, <2>2, <3>1 DEF Inserted
  <2>3. CASE ~(m <= c) /\ m # c + 1
    <3>1. m - 1 \in 1 .. Len(q) /\ ~(m - 1 <= c) /\ (m - 1) + 1 = m
      BY <1>1, <2>3
    <3>2. r[m] = q[m - 1]
      BY <2>0, <2>3 DEF Inserted
    <3> QED BY <3>1, <3>2
  <2> QED BY <2>1, <2>2, <2>3
<1>4. n \notin st
  BY DEF Iterates
<1>5. \A x \in st : \E k \in 1 .. Len(r) : r[k] = x
  <2> TAKE x \in st
  <2>1. PICK k \in 1 .. Len(q) : q[k] = x
    BY DEF Iterates
  <2> QED BY <1>2, <2>1
<1>6. ~uc => node \in {none, head_} \/ \E k \in 1 .. Len(r) : r[k] = node
  <2>1. SUFFICES ASSUME ~uc, node \notin {none, head_} PROVE \E k \in 1 .. Len(r) : r[k] = node
    BY Zenon
  <2>2. PICK k \in 1 .. Len(q) : q[k] = node
    BY <2>1, Zenon DEF Iterates
  <2> QED BY <1>2, <2>2
<1>7. ASSUME NEW m \in 1 .. Len(r), r[m] \in st
      PROVE  vs[r[m]] = IF \E j \in 1 .. m - 1 : r[j] = node THEN 0 ELSE 1
  <2>1. PICK k \in 1 .. Len(q) : r[m] = q[k] /\ m = IF k <= c THEN k ELSE k + 1
    BY <1>3, <1>4, <1>7
  <2>2. ~uc /\ node \in {head_} \union {q[z] : z \in 1 .. Len(q)}
    <3>1. st # {}
      BY <1>7
    <3>2. ~uc /\ node # none
      BY <3>1, Zenon DEF Iterates
    <3>3. node \in {none, head_} \/ \E z \in 1 .. Len(q) : q[z] = node
      BY <3>2, Zenon DEF Iterates
    <3> QED BY <3>2, <3>3
  <2>3. node # n
    BY <2>2, ListConstants
  <2>4. (\E j \in 1 .. k - 1 : q[j] = node) <=> (\E j \in 1 .. m - 1 : r[j] = node)
    <3>1. ASSUME NEW j \in 1 .. k - 1, q[j] = node PROVE \E y \in 1 .. m - 1 : r[y] = node
      <4>1. j \in 1 .. Len(q)
        BY <1>1
      <4>2. PICK y \in 1 .. Len(r) : r[y] = q[j] /\ y = IF j <= c THEN j ELSE j + 1
        BY <1>2, <4>1
      <4>3. y \in 1 .. m - 1
        BY <1>1, <2>1, <4>2
      <4> QED BY <3>1, <4>2, <4>3
    <3>2. ASSUME NEW j \in 1 .. m - 1, r[j] = node PROVE \E y \in 1 .. k - 1 : q[y] = node
      <4>1. j \in 1 .. Len(r)
        BY <1>1
      <4>2. PICK y \in 1 .. Len(q) : r[j] = q[y] /\ j = IF y <= c THEN y ELSE y + 1
        BY <1>3, <2>3, <3>2, <4>1
      <4>3. y \in 1 .. k - 1
        BY <1>1, <2>1, <4>2
      <4> QED BY <3>2, <4>2, <4>3
    <3> QED BY <3>1, <3>2
  <2>5. vs[q[k]] = IF \E j \in 1 .. k - 1 : q[j] = node THEN 0 ELSE 1
    BY <1>7, <2>1 DEF Iterates
  <2> QED BY <2>1, <2>4, <2>5
<1>8. (uc \/ node = none) => st = {}
  BY Zenon DEF Iterates
<1> QED BY <1>5, <1>6, <1>7, <1>8, Zenon DEF Iterates

\* A node that the Iterator does not stand on can be deleted, and is then none
\* of those that stayed.
LEMMA RemoveIterates ==
  ASSUME NEW q \in Seq(ListNodes), \A j, k \in 1 .. Len(q) : q[j] = q[k] => j = k,
         NEW node, NEW st, NEW vs, Iterates(q, node, st, vs, FALSE),
         NEW c \in 1 .. Len(q), NEW n, n = q[c], n # node, NEW r, Removed(q, c, r),
         NEW ws, \A x \in st \ {n} : ws[x] = vs[x]
  PROVE  Iterates(r, node, st \ {n}, ws, FALSE)
<1>1. Len(q) \in Nat /\ Len(r) = Len(q) - 1 /\ c \in Nat /\ c <= Len(q) /\ 1 <= c
  BY DEF Removed
<1>2. ASSUME NEW k \in 1 .. Len(q), k # c
      PROVE  \E m \in 1 .. Len(r) : r[m] = q[k] /\ m = IF k < c THEN k ELSE k - 1
  <2>1. CASE k < c
    <3>1. k \in 1 .. Len(r) /\ k \in 1 .. Len(q) - 1
      BY <1>1, <2>1
    <3> QED BY <2>1, <3>1 DEF Removed
  <2>2. CASE ~(k < c)
    <3>1. k - 1 \in 1 .. Len(r) /\ k - 1 \in 1 .. Len(q) - 1 /\ ~(k - 1 < c) /\ (k - 1) + 1 = k
      BY <1>1, <1>2, <2>2
    <3> QED BY <2>2, <3>1 DEF Removed
  <2> QED BY <2>1, <2>2
<1>3. ASSUME NEW m \in 1 .. Len(r)
      PROVE  \E k \in 1 .. Len(q) : k # c /\ r[m] = q[k] /\ m = IF k < c THEN k ELSE k - 1
  <2>0. m \in 1 .. Len(q) - 1
    BY <1>1
  <2>1. CASE m < c
    <3>1. m \in 1 .. Len(q) /\ m # c
      BY <1>1, <2>1
    <3> QED BY <2>0, <2>1, <3>1 DEF Removed
  <2>2. CASE ~(m < c)
    <3>1. m + 1 \in 1 .. Len(q) /\ m + 1 # c /\ ~(m + 1 < c) /\ (m + 1) - 1 = m
      BY <1>1, <2>2
    <3>2. r[m] = q[m + 1]
      BY <2>0, <2>2 DEF Removed
    <3> QED BY <3>1, <3>2
  <2> QED BY <2>1, <2>2
<1>4. \A x \in st \ {n} : \E k \in 1 .. Len(r) : r[k] = x
  <2> TAKE x \in st \ {n}
  <2>1. PICK k \in 1 .. Len(q) : q[k] = x
    BY DEF Iterates
  <2> QED BY <1>2, <2>1
<1>5. node \in {none, head_} \/ \E k \in 1 .. Len(r) : r[k] = node
  <2>1. SUFFICES ASSUME node \notin {none, head_} PROVE \E k \in 1 .. Len(r) : r[k] = node
    BY Zenon
  <2>2. PICK k \in 1 .. Len(q) : q[k] = node
    BY <2>1, Zenon DEF Iterates
  <2> QED BY <1>2, <2>2
<1>6. ASSUME NEW m \in 1 .. Len(r), r[m] \in st \ {n}
      PROVE  ws[r[m]] = IF \E j \in 1 .. m - 1 : r[j] = node THEN 0 ELSE 1
  <2>1. PICK k \in 1 .. Len(q) : k # c /\ r[m] = q[k] /\ m = IF k < c THEN k ELSE k - 1
    BY <1>3
  <2>2. (\E j \in 1 .. k - 1 : q[j] = node) <=> (\E j \in 1 .. m - 1 : r[j] = node)
    <3>1. ASSUME NEW j \in 1 .. k - 1, q[j] = node PROVE \E y \in 1 .. m - 1 : r[y] = node
      <4>1. j \in 1 .. Len(q) /\ j # c
        BY <1>1, <3>1
      <4>2. PICK y \in 1 .. Len(r) : r[y] = q[j] /\ y = IF j < c THEN j ELSE j - 1
        BY <1>2, <4>1
      <4>3. y \in 1 .. m - 1
        BY <1>1, <2>1, <4>1, <4>2
      <4> QED BY <3>1, <4>2, <4>3
    <3>2. ASSUME NEW j \in 1 .. m - 1, r[j] = node PROVE \E y \in 1 .. k - 1 : q[y] = node
      <4>1. j \in 1 .. Len(r)
        BY <1>1
      <4>2. PICK y \in 1 .. Len(q) : y # c /\ r[j] = q[y] /\ j = IF y < c THEN y ELSE y - 1
        BY <1>3, <4>1
      <4>3. y \in 1 .. k - 1
        BY <1>1, <2>1, <4>2
      <4> QED BY <3>2, <4>2, <4>3
    <3> QED BY <3>1, <3>2
  <2>3. vs[q[k]] = IF \E j \in 1 .. k - 1 : q[j] = node THEN 0 ELSE 1
    BY <1>6, <2>1 DEF Iterates
  <2> QED BY <1>6, <2>1, <2>2, <2>3
<1>7. node = none => st \ {n} = {}
  BY Zenon DEF Iterates
<1> QED BY <1>4, <1>5, <1>6, <1>7, Zenon DEF Iterates

\* Before the constructor has run no node is on the list.
LEMMA ListInit == L!Init => ListIInv /\ L!Sequence!Init
<1> SUFFICES ASSUME L!Init PROVE ListIInv /\ L!Sequence!Init
  OBVIOUS
<1>1. L!TypeOK
  BY DEF L!Init, L!TypeOK, L!Heads
<1>2. Ring(next, prev, <<>>)
  <2>1. Len(<<>>) = 0 /\ <<>> \in Seq(ListNodes) /\ \A k : k \notin 1 .. 0
    OBVIOUS
  <2>2. \A k : At(<<>>, k) = head_
    BY <2>1 DEF At
  <2>3. next[head_] = head_ /\ prev[head_] = head_
    BY DEF L!Init, L!Heads
  <2>4. \A n \in ListNodes : next[n] = poison /\ prev[n] = poison
    BY ListConstants DEF L!Init, L!Heads
  <2> QED BY <2>1, <2>2, <2>3, <2>4 DEF Ring
<1>3. Iterates(<<>>, node_, stayed, visits, undercut)
  BY DEF L!Init, Iterates
<1>4. L!Items = <<>>
  BY <1>2, RingItems
<1> QED BY <1>1, <1>2, <1>3, <1>4 DEF ListIInv, L!Sequence!Init

\* What both insertions do, given where the new node comes to stand.
LEMMA ListInsert ==
  ASSUME L!TypeOK, NEW q, Ring(next, prev, q), Iterates(q, node_, stayed, visits, undercut),
         NEW n \in ListNodes, ~L!OnList(n), NEW c \in 0 .. Len(q), NEW r, Inserted(q, c, n, r),
         L!InsertBetween(n, At(q, c), At(q, c + 1)), UNCHANGED <<node_, visits, stayed, undercut>>
  PROVE  /\ ListIInv' /\ L!Items = q /\ L!Items' = r
         /\ n \notin {q[k] : k \in 1 .. Len(q)}
<1>1. q \in Seq(ListNodes) /\ Len(q) \in Nat /\ next \in Links /\ prev \in Links /\ next[n] = poison
  BY DEF Ring, L!TypeOK, Links, L!OnList
<1>2. At(q, c) \in L!Heads /\ At(q, c + 1) \in L!Heads /\ n \in L!Heads
  BY <1>1, AtIn DEF L!Heads
<1>3. Ring(next', prev', r)
  BY <1>1, InsertRing DEF L!InsertBetween
<1>4. \A k \in 1 .. Len(q) : q[k] # n
  BY RingNodes
<1>5. Iterates(r, node_, stayed, visits, undercut)
  BY <1>1, <1>4, InsertIterates
<1>6. next' \in Links /\ prev' \in Links
  BY <1>1, <1>2 DEF L!InsertBetween, Links
<1>7. L!TypeOK'
  <2>1. undercut' = undercut
    OBVIOUS
  <2> QED BY <1>6, <2>1 DEF L!TypeOK, Links
<1>8. Iterates(r, node_', stayed', visits', undercut')
  <2>1. node_' = node_ /\ stayed' = stayed /\ visits' = visits /\ undercut' = undercut
    OBVIOUS
  <2> QED BY <1>5, <2>1, Zenon
<1>9. L!Items = q /\ L!Items' = r
  BY <1>3, RingItems, RingItemsNext
<1> QED BY <1>3, <1>4, <1>7, <1>8, <1>9 DEF ListIInv

\* add puts the node in front.
LEMMA ListAdd ==
  ASSUME ListIInv, NEW n \in ListNodes, L!add(n)
  PROVE  ListIInv' /\ L!Sequence!add(n)
<1>1. PICK q : Ring(next, prev, q) /\ Iterates(q, node_, stayed, visits, undercut)
  BY DEF ListIInv
<1> DEFINE r == <<n>> \o q
<1>2. q \in Seq(ListNodes) /\ Len(q) \in Nat /\ DOMAIN q = 1 .. Len(q)
  BY <1>1 DEF Ring
<1>3. Inserted(q, 0, n, r)
  <2>1. <<n>> \in Seq(ListNodes) /\ Len(<<n>>) = 1 /\ <<n>>[1] = n
    OBVIOUS
  <2>2. /\ r \in Seq(ListNodes) /\ Len(r) = 1 + Len(q)
        /\ \A k \in 1 .. 1 + Len(q) : r[k] = IF k <= 1 THEN <<n>>[k] ELSE q[k - 1]
    BY <1>2, <2>1, ConcatProperties
  <2> HIDE DEF r
  <2> QED BY <1>2, <2>1, <2>2 DEF Inserted
<1>4. At(q, 0) = head_ /\ next[head_] = At(q, 0 + 1)
  <2>1. At(q, 0) = head_ /\ 0 \in 0 .. Len(q)
    BY <1>2 DEF At
  <2>2. next[At(q, 0)] = At(q, 0 + 1)
    BY <1>1, <2>1 DEF Ring
  <2> QED BY <2>1, <2>2
<1>5. L!InsertBetween(n, At(q, 0), At(q, 0 + 1)) /\ UNCHANGED <<node_, visits, stayed, undercut>>
      /\ ~L!OnList(n) /\ L!TypeOK
  BY <1>4 DEF L!add, ListIInv
<1> HIDE DEF r
<1>6. 0 \in 0 .. Len(q)
  BY <1>2
<1>7. ListIInv' /\ L!Items = q /\ L!Items' = r /\ n \notin {q[k] : k \in 1 .. Len(q)}
  BY <1>1, <1>3, <1>5, <1>6, ListInsert
<1>8. L!Sequence!add(n)
  BY <1>2, <1>7 DEF L!Sequence!add, L!Sequence!OnList, L!Sequence!ToSet, r
<1> QED BY <1>7, <1>8

\* add_tail puts the node at the end.
LEMMA ListAddTail ==
  ASSUME ListIInv, NEW n \in ListNodes, L!add_tail(n)
  PROVE  ListIInv' /\ L!Sequence!add_tail(n)
<1>1. PICK q : Ring(next, prev, q) /\ Iterates(q, node_, stayed, visits, undercut)
  BY DEF ListIInv
<1> DEFINE r == Append(q, n)
<1>2. q \in Seq(ListNodes) /\ Len(q) \in Nat /\ DOMAIN q = 1 .. Len(q)
  BY <1>1 DEF Ring
<1>3. Inserted(q, Len(q), n, r)
  <2>1. /\ r \in Seq(ListNodes) /\ Len(r) = Len(q) + 1 /\ r[Len(q) + 1] = n
        /\ \A k \in 1 .. Len(q) : r[k] = q[k]
    BY <1>2
  <2> HIDE DEF r
  <2> QED BY <1>2, <2>1 DEF Inserted
<1>4. At(q, Len(q) + 1) = head_ /\ prev[head_] = At(q, Len(q))
  BY <1>1, <1>2 DEF At, Ring
<1>5. L!InsertBetween(n, At(q, Len(q)), At(q, Len(q) + 1)) /\ UNCHANGED <<node_, visits, stayed, undercut>>
      /\ ~L!OnList(n) /\ L!TypeOK
  BY <1>4 DEF L!add_tail, ListIInv
<1> HIDE DEF r
<1>6. Len(q) \in 0 .. Len(q)
  BY <1>2
<1>7. ListIInv' /\ L!Items = q /\ L!Items' = r /\ n \notin {q[k] : k \in 1 .. Len(q)}
  BY <1>1, <1>3, <1>5, <1>6, ListInsert
<1>8. L!Sequence!add_tail(n)
  BY <1>2, <1>7 DEF L!Sequence!add_tail, L!Sequence!OnList, L!Sequence!ToSet, r
<1> QED BY <1>7, <1>8

\* The sequence without its position c.
LEMMA RemovedIs ==
  ASSUME NEW q \in Seq(ListNodes), NEW c \in 1 .. Len(q)
  PROVE  Removed(q, c, L!Sequence!RemoveAt(q, c))
<1> DEFINE a == SubSeq(q, 1, c - 1)
           b == SubSeq(q, c + 1, Len(q))
           r == a \o b
<1>1. Len(q) \in Nat /\ c \in Nat /\ c <= Len(q) /\ 1 <= c
  OBVIOUS
<1>2. a \in Seq(ListNodes) /\ Len(a) = c - 1 /\ \A k \in 1 .. c - 1 : a[k] = q[k]
  <2>1. \A k \in 1 .. c - 1 : q[k] \in ListNodes
    BY <1>1, ElementOfSeq
  <2>2. /\ a \in Seq(ListNodes) /\ Len(a) = IF 1 <= c - 1 THEN c - 1 - 1 + 1 ELSE 0
        /\ \A k \in 1 .. c - 1 - 1 + 1 : a[k] = q[1 + k - 1]
    BY <1>1, <2>1, SubSeqProperties
  <2> HIDE DEF a
  <2> QED BY <1>1, <2>2
<1>3. b \in Seq(ListNodes) /\ Len(b) = Len(q) - c /\ \A k \in 1 .. Len(q) - c : b[k] = q[c + k]
  <2>1. \A k \in c + 1 .. Len(q) : q[k] \in ListNodes
    BY <1>1, ElementOfSeq
  <2>2. /\ b \in Seq(ListNodes) /\ Len(b) = IF c + 1 <= Len(q) THEN Len(q) - (c + 1) + 1 ELSE 0
        /\ \A k \in 1 .. Len(q) - (c + 1) + 1 : b[k] = q[c + 1 + k - 1]
    BY <1>1, <2>1, SubSeqProperties
  <2> HIDE DEF b
  <2> QED BY <1>1, <2>2
<1>4. L!Sequence!RemoveAt(q, c) = r
  BY DEF L!Sequence!RemoveAt
<1> HIDE DEF a, b
<1>5. /\ r \in Seq(ListNodes) /\ Len(r) = Len(a) + Len(b)
      /\ \A k \in 1 .. Len(a) + Len(b) : r[k] = IF k <= Len(a) THEN a[k] ELSE b[k - Len(a)]
  BY <1>2, <1>3, ConcatProperties
<1> HIDE DEF r
<1>6. Len(a) + Len(b) = Len(q) - 1
  BY <1>1, <1>2, <1>3
<1>7. ASSUME NEW k \in 1 .. Len(q) - 1 PROVE r[k] = IF k < c THEN q[k] ELSE q[k + 1]
  <2>1. CASE k < c
    BY <1>1, <1>2, <1>5, <1>6, <2>1
  <2>2. CASE ~(k < c)
    <3>1. k - Len(a) \in 1 .. Len(q) - c /\ c + (k - Len(a)) = k + 1 /\ ~(k <= Len(a))
      BY <1>1, <1>2, <2>2
    <3> QED BY <1>3, <1>5, <1>6, <2>2, <3>1
  <2> QED BY <2>1, <2>2
<1> QED BY <1>4, <1>5, <1>6, <1>7 DEF Removed

\* del takes a node out, wherever it stands and wherever the Iterator does.
LEMMA ListDel ==
  ASSUME ListIInv, NEW n \in ListNodes, L!del(n)
  PROVE  ListIInv' /\ L!Sequence!del(n)
<1>1. PICK q : Ring(next, prev, q) /\ Iterates(q, node_, stayed, visits, undercut)
  BY DEF ListIInv
<1>2. /\ q \in Seq(ListNodes) /\ Len(q) \in Nat /\ DOMAIN q = 1 .. Len(q)
      /\ \A j, k \in 1 .. Len(q) : q[j] = q[k] => j = k
  BY <1>1 DEF Ring
<1>3. PICK c \in 1 .. Len(q) : q[c] = n
  <2>1. n \in {q[k] : k \in 1 .. Len(q)}
    BY <1>1, RingNodes DEF L!del
  <2> QED BY <2>1
<1> DEFINE r == L!Sequence!RemoveAt(q, c)
<1>4. Removed(q, c, r)
  BY <1>2, RemovedIs
<1> HIDE DEF r
<1>5. next \in Links /\ prev \in Links /\ L!TypeOK
  BY DEF ListIInv, L!TypeOK, Links
<1>6. /\ next[n] = At(q, c + 1) /\ prev[n] = At(q, c - 1)
      /\ Ring([next EXCEPT ![prev[n]] = next[n], ![n] = poison],
              [prev EXCEPT ![next[n]] = prev[n], ![n] = poison], r)
  BY <1>1, <1>3, <1>4, <1>5, RemoveRing
<1>7. Ring(next', prev', r)
  BY <1>6 DEF L!del
<1>8. next[n] \in L!Heads /\ prev[n] \in L!Heads /\ n \in L!Heads
  BY <1>2, <1>6, AtIn DEF L!Heads
<1>9. next' \in Links /\ prev' \in Links
  BY <1>5, <1>8 DEF L!del, Links
<1>10. /\ undercut' = (undercut \/ n = node_) /\ node_' = node_
       /\ stayed' = IF undercut' THEN {} ELSE stayed \ {n}
       /\ visits' = [m \in ListNodes |-> IF m \in stayed' THEN visits[m] ELSE 0]
  BY DEF L!del, L!Leaves
<1>11. stayed' \subseteq ListNodes /\ visits' \in [ListNodes -> Nat]
  <2>1. stayed' \subseteq stayed
    BY <1>10
  <2> QED BY <1>5, <1>10, <2>1 DEF L!TypeOK
<1>12. L!TypeOK'
  <2>1. undercut' \in BOOLEAN
    BY <1>10
  <2>2. node_' \in L!Heads \union {none, poison}
    BY <1>5, <1>10 DEF L!TypeOK
  <2> QED BY <1>9, <1>11, <2>1, <2>2, Zenon DEF L!TypeOK, Links, L!Heads
<1>13. Iterates(r, node_', stayed', visits', undercut')
  <2>1. CASE undercut'
    <3>1. stayed' = {}
      BY <1>10, <2>1
    <3> QED BY <2>1, <3>1, Zenon DEF Iterates
  <2>2. CASE ~undercut'
    <3>1. undercut = FALSE /\ n # node_
      <4>1. ~(undercut \/ n = node_)
        BY <1>10, <2>2
      <4>2. undercut \in BOOLEAN
        BY <1>5 DEF L!TypeOK
      <4> QED BY <4>1, <4>2
    <3>2. undercut' = FALSE
      <4>1. undercut' \in BOOLEAN
        BY <1>10
      <4> QED BY <2>2, <4>1
    <3>3. stayed' = stayed \ {n} /\ \A x \in stayed \ {n} : visits'[x] = visits[x]
      BY <1>5, <1>10, <2>2 DEF L!TypeOK
    <3>4. Iterates(q, node_, stayed, visits, FALSE)
      BY <1>1, <3>1
    <3>5. Iterates(r, node_, stayed \ {n}, visits', FALSE)
      BY <1>2, <1>3, <1>4, <3>1, <3>3, <3>4, RemoveIterates
    <3> QED BY <1>10, <3>2, <3>3, <3>5, Zenon
  <2> QED BY <2>1, <2>2
<1>14. L!Items = q /\ L!Items' = r
  BY <1>1, <1>7, RingItems, RingItemsNext
<1>15. L!Sequence!del(n)
  BY <1>2, <1>3, <1>14 DEF L!Sequence!del, r
<1> QED BY <1>7, <1>12, <1>13, <1>15 DEF ListIInv

\* begin stands on the first node, or on the head of an empty list.
LEMMA ListBegin ==
  ASSUME ListIInv, L!begin
  PROVE  ListIInv' /\ L!Items' = L!Items
<1>1. PICK q : Ring(next, prev, q) /\ Iterates(q, node_, stayed, visits, undercut)
  BY DEF ListIInv
<1>2. /\ q \in Seq(ListNodes) /\ Len(q) \in Nat
      /\ \A j, k \in 1 .. Len(q) : q[j] = q[k] => j = k
  BY <1>1 DEF Ring
<1>3. next' = next /\ prev' = prev /\ Ring(next', prev', q)
  BY <1>1 DEF L!begin
<1>4. next[head_] = At(q, 1) /\ At(q, 1) \in L!Heads
  <2>1. At(q, 0) = head_ /\ 0 \in 0 .. Len(q) /\ 0 + 1 = 1
    BY <1>2 DEF At
  <2>2. next[At(q, 0)] = At(q, 0 + 1)
    BY <1>1, <2>1 DEF Ring
  <2> QED BY <1>2, <2>1, <2>2, AtIn
<1>5. /\ node_' = At(q, 1) /\ stayed' = {q[k] : k \in 1 .. Len(q)} /\ undercut' = FALSE
      /\ visits' = [n \in ListNodes |-> IF n = At(q, 1) THEN 1 ELSE 0]
  BY <1>1, <1>4, RingNodes DEF L!begin
<1>6. L!TypeOK'
  <2>1. stayed' \subseteq ListNodes /\ visits' \in [ListNodes -> Nat] /\ node_' \in L!Heads
    BY <1>2, <1>4, <1>5, ElementOfSeq
  <2>2. undercut' \in BOOLEAN
    BY <1>5
  <2>3. next' \in Links /\ prev' \in Links
    BY <1>3 DEF ListIInv, L!TypeOK, Links
  <2> QED BY <2>1, <2>2, <2>3, Zenon DEF L!TypeOK, Links, L!Heads
<1>7. Iterates(q, node_', stayed', visits', undercut')
  <2>1. node_' # none /\ ~undercut'
    BY <1>4, <1>5, ListConstants DEF L!Heads
  <2>2. node_' \in {none, head_} \/ \E k \in 1 .. Len(q) : q[k] = node_'
    BY <1>5 DEF At
  <2>3. ASSUME NEW k \in 1 .. Len(q)
        PROVE  visits'[q[k]] = IF \E j \in 1 .. k - 1 : q[j] = node_' THEN 0 ELSE 1
    <3>1. q[k] \in ListNodes /\ 1 \in 1 .. Len(q) /\ At(q, 1) = q[1]
      BY <1>2, AtIn
    <3>2. visits'[q[k]] = IF k = 1 THEN 1 ELSE 0
      BY <1>2, <1>5, <3>1
    <3>3. (\E j \in 1 .. k - 1 : q[j] = node_') <=> k # 1
      <4>1. CASE k = 1
        BY <4>1
      <4>2. CASE k # 1
        <5>1. 1 \in 1 .. k - 1
          BY <1>2, <4>2
        <5> QED BY <1>5, <3>1, <4>2, <5>1
      <4> QED BY <4>1, <4>2
    <3> QED BY <3>2, <3>3
  <2>4. \A n \in stayed' : \E k \in 1 .. Len(q) : q[k] = n
    BY <1>5
  <2> QED BY <2>1, <2>2, <2>3, <2>4, Zenon DEF Iterates
<1>8. L!Items = q /\ L!Items' = q
  BY <1>1, <1>3, RingItems, RingItemsNext
<1> QED BY <1>3, <1>6, <1>7, <1>8 DEF ListIInv

\* operator++ goes on to the next position of the ring, and visits what is there.
LEMMA IncrementIterates ==
  ASSUME NEW q \in Seq(ListNodes), \A j, k \in 1 .. Len(q) : q[j] = q[k] => j = k,
         NEW st, st \subseteq ListNodes, NEW vs, vs \in [ListNodes -> Nat],
         NEW c \in 1 .. Len(q), Iterates(q, q[c], st, vs, FALSE),
         NEW m, m = At(q, c + 1),
         NEW ws, ws = IF m \in st THEN [vs EXCEPT ![m] = @ + 1] ELSE vs
  PROVE  Iterates(q, m, st, ws, FALSE)
<1>1. Len(q) \in Nat /\ c \in Nat /\ 1 <= c /\ c <= Len(q)
  OBVIOUS
<1>2. m \in L!Heads /\ m # none
  BY AtIn, ListConstants DEF L!Heads
<1>3. m \in {none, head_} \/ \E k \in 1 .. Len(q) : q[k] = m
  BY DEF At
<1>4. ASSUME NEW k \in 1 .. Len(q), q[k] \in st
      PROVE  ws[q[k]] = IF \E j \in 1 .. k - 1 : q[j] = m THEN 0 ELSE 1
  <2>1. vs[q[k]] = IF \E j \in 1 .. k - 1 : q[j] = q[c] THEN 0 ELSE 1
    BY <1>4 DEF Iterates
  <2>2. (\E j \in 1 .. k - 1 : q[j] = q[c]) <=> c < k
    <3>1. CASE c < k
      <4>1. c \in 1 .. k - 1
        BY <1>1, <3>1
      <4> QED BY <3>1, <4>1
    <3>2. CASE ~(c < k)
      <4>1. \A j \in 1 .. k - 1 : j \in 1 .. Len(q) /\ j # c
        BY <1>1, <3>2
      <4> QED BY <3>2, <4>1
    <3> QED BY <3>1, <3>2
  <2>3. (\E j \in 1 .. k - 1 : q[j] = m) <=> c + 1 < k
    <3>1. CASE c + 1 < k
      <4>1. c + 1 \in 1 .. k - 1 /\ c + 1 \in 1 .. Len(q)
        BY <1>1, <3>1
      <4> QED BY <3>1, <4>1 DEF At
    <3>2. CASE ~(c + 1 < k)
      <4>1. ASSUME NEW j \in 1 .. k - 1 PROVE q[j] # m
        <5>1. j \in 1 .. Len(q) /\ j # c + 1 /\ q[j] \in ListNodes
          BY <1>1, <3>2, ElementOfSeq
        <5> QED BY <5>1, ListConstants DEF At
      <4> QED BY <3>2, <4>1
    <3> QED BY <3>1, <3>2
  <2>4. ws[q[k]] = IF q[k] = m THEN vs[q[k]] + 1 ELSE vs[q[k]]
    <3>1. q[k] \in ListNodes
      BY ElementOfSeq
    <3> QED BY <1>4, <3>1
  <2>5. q[k] = m <=> k = c + 1
    <3>1. CASE c + 1 \in 1 .. Len(q)
      BY <3>1 DEF At
    <3>2. CASE c + 1 \notin 1 .. Len(q)
      <4>1. m = head_ /\ k # c + 1 /\ q[k] \in ListNodes
        BY <3>2, ElementOfSeq DEF At
      <4> QED BY <4>1, ListConstants
    <3> QED BY <3>1, <3>2
  <2>6. CASE k = c + 1
    BY <1>1, <2>1, <2>2, <2>3, <2>4, <2>5, <2>6
  <2>7. CASE k # c + 1
    <3>1. c < k <=> c + 1 < k
      BY <1>1, <2>7
    <3> QED BY <2>1, <2>2, <2>3, <2>4, <2>5, <2>7, <3>1
  <2> QED BY <2>6, <2>7
<1>5. \A n \in st : \E k \in 1 .. Len(q) : q[k] = n
  BY DEF Iterates
<1> QED BY <1>2, <1>3, <1>4, <1>5, Zenon DEF Iterates

\* operator++ of an Iterator on a node of the list, or on one that was deleted.
LEMMA ListIncrement ==
  ASSUME ListIInv, L!Increment
  PROVE  ListIInv' /\ L!Items' = L!Items
<1>1. PICK q : Ring(next, prev, q) /\ Iterates(q, node_, stayed, visits, undercut)
  BY DEF ListIInv
<1>2. /\ q \in Seq(ListNodes) /\ Len(q) \in Nat
      /\ \A j, k \in 1 .. Len(q) : q[j] = q[k] => j = k
  BY <1>1 DEF Ring
<1>3. next' = next /\ prev' = prev /\ stayed' = stayed /\ undercut' = undercut
  BY DEF L!Increment
<1>4. Ring(next', prev', q)
  BY <1>1, <1>3
<1>5. /\ node_ \in ListNodes /\ node_' = next[node_]
      /\ visits' = IF node_' \in stayed THEN [visits EXCEPT ![node_'] = @ + 1] ELSE visits
  BY DEF L!Increment, L!NotEnd, L!Visit
<1>6. /\ next \in Links /\ prev \in Links /\ stayed \subseteq ListNodes
      /\ visits \in [ListNodes -> Nat] /\ undercut \in BOOLEAN
  BY DEF ListIInv, L!TypeOK, Links
<1>7. L!TypeOK'
  <2>1. visits' \in [ListNodes -> Nat]
    <3>1. CASE node_' \in stayed
      BY <1>5, <1>6, <3>1
    <3>2. CASE node_' \notin stayed
      BY <1>5, <1>6, <3>2
    <3> QED BY <3>1, <3>2
  <2>2. node_' \in L!Heads \union {none, poison}
    BY <1>5, <1>6 DEF Links, L!Heads
  <2>3. undercut' \in BOOLEAN /\ stayed' \subseteq ListNodes
    BY <1>3, <1>6
  <2>4. next' \in Links /\ prev' \in Links
    BY <1>3, <1>6
  <2> QED BY <2>1, <2>2, <2>3, <2>4, Zenon DEF L!TypeOK, Links, L!Heads
<1>8. Iterates(q, node_', stayed', visits', undercut')
  <2>1. CASE undercut
    <3>1. stayed' = {}
      BY <1>1, <1>3, <2>1 DEF Iterates
    <3>2. undercut'
      BY <1>3, <2>1
    <3> QED BY <3>1, <3>2, Zenon DEF Iterates
  <2>2. CASE undercut = FALSE
    <3>1. Iterates(q, node_, stayed, visits, FALSE)
      BY <1>1, <2>2, Zenon
    <3>2. PICK z \in 1 .. Len(q) : q[z] = node_
      <4>1. node_ \notin {none, head_}
        BY <1>5, ListConstants
      <4> QED BY <3>1, <4>1, Zenon DEF Iterates
    <3>3. node_' = At(q, z + 1)
      <4>1. z \in 0 .. Len(q) /\ At(q, z) = q[z]
        BY <1>2 DEF At
      <4>2. next[At(q, z)] = At(q, z + 1)
        BY <1>1, <4>1 DEF Ring
      <4> QED BY <1>5, <3>2, <4>1, <4>2
    <3>4. Iterates(q, q[z], stayed, visits, FALSE)
      BY <3>1, <3>2, Zenon
    <3>5. Iterates(q, node_', stayed, visits', FALSE)
      BY <1>2, <1>5, <1>6, <3>3, <3>4, IncrementIterates
    <3>6. undercut' = FALSE
      BY <1>3, <2>2
    <3> QED BY <1>3, <3>5, <3>6, Zenon
  <2> QED BY <1>6, <2>1, <2>2
<1>9. L!Items = q /\ L!Items' = q
  BY <1>1, <1>4, RingItems, RingItemsNext
<1> QED BY <1>4, <1>7, <1>8, <1>9 DEF ListIInv

\* The end of the loop forgets the iteration.
LEMMA ListLoopEnds ==
  ASSUME ListIInv, L!LoopEnds
  PROVE  ListIInv' /\ L!Items' = L!Items
<1>1. PICK q : Ring(next, prev, q) /\ Iterates(q, node_, stayed, visits, undercut)
  BY DEF ListIInv
<1>2. Ring(next', prev', q)
  BY <1>1 DEF L!LoopEnds
<1>3. /\ node_' = none /\ stayed' = {} /\ undercut' = FALSE
      /\ visits' = [n \in ListNodes |-> 0] /\ next' = next /\ prev' = prev
  BY DEF L!LoopEnds
<1>4. L!TypeOK'
  <2>1. next' \in Links /\ prev' \in Links /\ visits' \in [ListNodes -> Nat]
    BY <1>3 DEF ListIInv, L!TypeOK, Links
  <2>2. undercut' \in BOOLEAN
    BY <1>3
  <2> QED BY <1>3, <2>1, <2>2 DEF L!TypeOK, Links, L!Heads
<1>5. Iterates(q, node_', stayed', visits', undercut')
  BY <1>3, Zenon DEF Iterates
<1>6. L!Items = q /\ L!Items' = q
  BY <1>1, <1>2, RingItems, RingItemsNext
<1> QED BY <1>2, <1>4, <1>5, <1>6 DEF ListIInv

\* A step of the other parts leaves the list alone.
LEMMA ListStutter ==
  ASSUME ListIInv, UNCHANGED (L!vars)
  PROVE  ListIInv' /\ L!Items' = L!Items
<1>1. PICK q : Ring(next, prev, q) /\ Iterates(q, node_, stayed, visits, undercut)
  BY DEF ListIInv
<1>2. /\ next' = next /\ prev' = prev /\ node_' = node_ /\ stayed' = stayed
      /\ undercut' = undercut /\ visits' = visits
  BY DEF L!vars
<1>3. Ring(next', prev', q) /\ Iterates(q, node_', stayed', visits', undercut')
  BY <1>1, <1>2, Zenon
<1>4. L!TypeOK'
  <2>1. L!TypeOK
    BY DEF ListIInv
  <2> QED BY <1>2, <2>1, Zenon DEF L!TypeOK, L!Heads
<1>5. L!Items = q /\ L!Items' = q
  BY <1>1, <1>3, RingItems, RingItemsNext
<1> QED BY <1>3, <1>4, <1>5 DEF ListIInv

\* Every step of the list keeps the ring and the iteration, and is a step of the
\* sequence or none.
LEMMA ListNext ==
  ListIInv /\ [L!Next]_(L!vars) => ListIInv' /\ [L!Sequence!Next]_(L!Items)
<1> SUFFICES ASSUME ListIInv, [L!Next]_(L!vars)
             PROVE  ListIInv' /\ [L!Sequence!Next]_(L!Items)
  OBVIOUS
<1>1. ASSUME NEW n \in ListNodes, L!add(n) \/ L!add_tail(n) \/ L!del(n)
      PROVE  ListIInv' /\ L!Sequence!Next
  <2>1. ListIInv' /\ (L!Sequence!add(n) \/ L!Sequence!add_tail(n) \/ L!Sequence!del(n))
    BY <1>1, ListAdd, ListAddTail, ListDel
  <2> QED BY <2>1 DEF L!Sequence!Next
<1>2. CASE L!begin \/ L!Increment \/ L!LoopEnds \/ UNCHANGED (L!vars)
  BY <1>2, ListBegin, ListIncrement, ListLoopEnds, ListStutter
<1> QED BY <1>1, <1>2 DEF L!Next

\* The list_heads that are linked are those of the ring.
LEMMA RingIsIntact ==
  ASSUME NEW q, Ring(next, prev, q)
  PROVE  L!RingIntact
<1>1. q \in Seq(ListNodes) /\ Len(q) \in Nat /\ DOMAIN q = 1 .. Len(q)
  BY DEF Ring
<1>2. L!Length = Len(q) /\ \A k \in 0 .. Len(q) + 1 : L!Steps[k] = At(q, k)
  BY RingItems
<1>3. L!Steps[L!Length + 1] = head_
  <2>1. Len(q) + 1 \in 0 .. Len(q) + 1 /\ At(q, Len(q) + 1) = head_
    BY <1>1 DEF At
  <2> QED BY <1>2, <2>1
<1>4. {L!Steps[k] : k \in 1 .. L!Length} = {n \in ListNodes : L!OnList(n)}
  <2>1. \A k \in 1 .. Len(q) : L!Steps[k] = q[k]
    BY <1>1, <1>2 DEF At
  <2>2. {L!Steps[k] : k \in 1 .. L!Length} = {q[k] : k \in 1 .. Len(q)}
    BY <1>2, <2>1
  <2> QED BY <2>2, RingNodes
<1>5. ASSUME NEW p \in L!Heads, next[p] # poison
      PROVE  prev[next[p]] = p /\ next[prev[p]] = p
  <2>1. PICK k \in 0 .. Len(q) : p = At(q, k)
    <3>1. CASE p = head_
      <4>1. 0 \in 0 .. Len(q) /\ At(q, 0) = head_
        BY <1>1 DEF At
      <4> QED BY <3>1, <4>1
    <3>2. CASE p \in ListNodes
      <4>1. PICK k \in 1 .. Len(q) : q[k] = p
        BY <1>5, <3>2 DEF Ring
      <4>2. k \in 0 .. Len(q) /\ At(q, k) = q[k]
        BY <1>1 DEF At
      <4> QED BY <4>1, <4>2
    <3> QED BY <3>1, <3>2 DEF L!Heads
  <2>2. next[p] = At(q, k + 1) /\ prev[At(q, k + 1)] = p
    BY <2>1 DEF Ring
  <2>3. PICK j \in 0 .. Len(q) : p = At(q, j + 1)
    <3>1. CASE k = 0
      <4>1. At(q, Len(q) + 1) = head_ /\ p = head_ /\ Len(q) \in 0 .. Len(q)
        BY <1>1, <2>1, <3>1 DEF At
      <4> QED BY <4>1
    <3>2. CASE k # 0
      <4>1. k - 1 \in 0 .. Len(q) /\ (k - 1) + 1 = k
        BY <1>1, <3>2
      <4> QED BY <2>1, <4>1
    <3> QED BY <3>1, <3>2
  <2>4. next[At(q, j)] = At(q, j + 1) /\ prev[At(q, j + 1)] = At(q, j)
    BY DEF Ring
  <2> QED BY <2>2, <2>3, <2>4
<1>6. ASSUME NEW n \in ListNodes, ~L!OnList(n) PROVE prev[n] = poison
  <2>1. \A k \in 1 .. Len(q) : q[k] # n
    BY <1>6, RingNodes
  <2> QED BY <2>1 DEF Ring
<1> QED BY <1>3, <1>4, <1>5, <1>6 DEF L!RingIntact

\* What the ring and the position of the Iterator in it mean.
LEMMA ListImplies == ListIInv => VisitsEachOnce
<1> SUFFICES ASSUME ListIInv PROVE VisitsEachOnce
  OBVIOUS
<1>1. PICK q : Ring(next, prev, q) /\ Iterates(q, node_, stayed, visits, undercut)
  BY DEF ListIInv
<1>2. L!TypeOK /\ L!RingIntact
  BY <1>1, RingIsIntact DEF ListIInv
<1>3. ASSUME ~undercut
      PROVE  /\ node_ # poison /\ (node_ \in ListNodes => L!OnList(node_))
             /\ \A n \in stayed : visits[n] <= 1
             /\ node_ = head_ => \A n \in stayed : visits[n] = 1
  <2>1. node_ \in {none, head_} \/ \E k \in 1 .. Len(q) : q[k] = node_
    BY <1>1, <1>3, Zenon DEF Iterates
  <2>2. \A k \in 1 .. Len(q) : q[k] \in ListNodes /\ L!OnList(q[k])
    BY <1>1, RingNodes
  <2>3. node_ # poison /\ (node_ \in ListNodes => L!OnList(node_))
    BY <2>1, <2>2, ListConstants
  <2>4. ASSUME NEW n \in stayed PROVE visits[n] <= 1 /\ (node_ = head_ => visits[n] = 1)
    <3>1. PICK k \in 1 .. Len(q) : q[k] = n
      BY <1>1 DEF Iterates
    <3>2. visits[n] = IF \E j \in 1 .. k - 1 : q[j] = node_ THEN 0 ELSE 1
      BY <1>1, <3>1 DEF Iterates
    <3>3. ASSUME node_ = head_, NEW j \in 1 .. k - 1 PROVE q[j] # node_
      <4>1. j \in 1 .. Len(q)
        BY <1>1 DEF Ring
      <4> QED BY <2>2, <3>3, <4>1, ListConstants
    <3> QED BY <3>2, <3>3
  <2> QED BY <2>3, <2>4
<1> QED BY <1>2, <1>3 DEF VisitsEachOnce, L!VisitsEachOnce

\* A step of MCNext is one of the list, or leaves it alone.
LEMMA ListStep == [MCNext]_mcVars => [L!Next]_(L!vars)
BY DEF MCNext, mcVars, Still, listVars, L!vars

\* List: whatever the body of a loop adds and deletes, for any number of nodes,
\* the pointers stay one ring through the head and the loop visits every node
\* that stays exactly once, unless it deletes the node the Iterator stands on.
THEOREM VisitsEachOnceHolds == MCSpec => []VisitsEachOnce
<1>1. MCInit => ListIInv
  BY ListInit DEF MCInit
<1>2. ListIInv /\ [MCNext]_mcVars => ListIInv'
  BY ListStep, ListNext
<1> QED BY <1>1, <1>2, ListImplies, PTL DEF MCSpec, mcVars

\* List: the pointers of list_head implement a sequence of distinct nodes that
\* grows at either end and loses any of its nodes: each call of add, add_tail
\* and del is that operation of NodeSequence, and the Iterator changes nothing.
THEOREM ImplementsSequenceHolds == MCSpec => ImplementsSequence
<1>1. MCInit => ListIInv /\ L!Sequence!Init
  BY ListInit DEF MCInit
<1>2. ListIInv /\ [MCNext]_mcVars => ListIInv' /\ [L!Sequence!Next]_(L!Items)
  BY ListStep, ListNext
<1>3. MCSpec => L!Sequence!Init /\ [][L!Sequence!Next]_(L!Items)
  BY <1>1, <1>2, PTL DEF MCSpec, mcVars
<1> QED BY <1>3 DEF ImplementsSequence, L!ImplementsSequence, L!Sequence!Spec
==============================================================================
