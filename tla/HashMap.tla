------------------------------ MODULE HashMap ------------------------------
(***************************************************************************)
(* kpp::HashMap<Key, Value, Hasher> (kpp/util/HashMap.hpp): an array of    *)
(* kpp::List buckets that insert appends to and find walks.  The map has   *)
(* no lock of its own; its users serialise the calls, so each is one step. *)
(* A bucket is the sequence of nodes that List and NodeSequence describe.  *)
(* insert does not look for the key first: a key may be in the map several *)
(* times.                                                                  *)
(***************************************************************************)
EXTENDS Naturals, FiniteSets, Sequences, SequencesExt

CONSTANTS
  Keys, Values,
  Hash,          \* Hash[k]: what the Hasher returns
  BucketCounts,  \* the sizes maps are constructed with
  Nodes,         \* heap blocks that can hold a Node
  nullptr        \* find found nothing

ConstantsAssumption ==
  /\ Hash \in [Keys -> Nat]
  /\ BucketCounts \subseteq Nat /\ IsFiniteSet(Nodes)
  /\ nullptr \notin Nodes \union Values

VARIABLES
  life,          \* "none", "failed" (no memory for the buckets), "bare" (constructed
                 \* with no bucket), "ready", "dead" or "oops"
  bucket_count_,
  buckets_,      \* the sequences of nodes
  key, value,    \* key[n] and value[n] of the Node n
  allocated,     \* the nodes that kmalloc returned and nobody freed
  inserted       \* the <<key, value>> pairs inserted so far, oldest first

vars == <<life, bucket_count_, buckets_, key, value, allocated, inserted>>

\* hasher_(key) % bucket_count_.
Bucket(k) == Hash[k] % bucket_count_

------------------------------------------------------------------------------
\* HashMap(bucket_count): the allocation of the buckets may fail, which the
\* constructor cannot report.  The block of no bucket is not null.
Construct(count) ==
  /\ life = "none"
  /\ bucket_count_' = count
  /\ \/ life' = (IF count = 0 THEN "bare" ELSE "ready")
        /\ buckets_' = [b \in 0 .. count - 1 |-> <<>>]
     \/ life' = "failed" /\ UNCHANGED buckets_
  /\ UNCHANGED <<key, value, allocated, inserted>>

insertAtHead(k, v) ==
  /\ life = "ready"
  /\ \E n \in Nodes \ allocated :
       /\ allocated' = allocated \union {n}
       /\ key' = [key EXCEPT ![n] = k] /\ value' = [value EXCEPT ![n] = v]
       /\ buckets_' = [buckets_ EXCEPT ![Bucket(k)] = <<n>> \o @]
       /\ inserted' = Append(inserted, <<k, v>>)
  /\ UNCHANGED <<life, bucket_count_>>

insertKeepsOwner(k, v) ==
  /\ life = "ready"
  /\ \E n \in Nodes \ allocated :
       /\ key' = [key EXCEPT ![n] = k] /\ value' = [value EXCEPT ![n] = v]
       /\ buckets_' = [buckets_ EXCEPT ![Bucket(k)] = Append(@, n)]
       /\ inserted' = Append(inserted, <<k, v>>)
  /\ UNCHANGED <<life, bucket_count_, allocated>>

\* insert(k, v) with memory for the node, which node_ptr.release() leaves to
\* the bucket.  Without memory, or without buckets, insert returns -ENOMEM and
\* changes nothing: a stuttering step.
insert(k, v) ==
  /\ life = "ready"
  /\ \E n \in Nodes \ allocated :
       /\ allocated' = allocated \union {n}
       /\ key' = [key EXCEPT ![n] = k] /\ value' = [value EXCEPT ![n] = v]
       /\ buckets_' = [buckets_ EXCEPT ![Bucket(k)] = Append(@, n)]
       /\ inserted' = Append(inserted, <<k, v>>)
  /\ UNCHANGED <<life, bucket_count_>>

\* insert and find in a map that was constructed with no bucket.
DivideByZero ==
  /\ life = "bare" /\ life' = "oops"
  /\ UNCHANGED <<bucket_count_, buckets_, key, value, allocated, inserted>>

\* The destructor frees the array of buckets; List has no destructor and
\* nothing frees the nodes.
Destruct ==
  /\ life \in {"ready", "bare", "failed"}
  /\ life' = "dead" /\ buckets_' = <<>>
  /\ UNCHANGED <<bucket_count_, key, value, allocated, inserted>>

------------------------------------------------------------------------------
\* find(k): the node the loop stops at, or nullptr.
findInBucket(k) ==
  LET bucket == buckets_[Bucket(k)]
      hits == {j \in DOMAIN bucket : key[bucket[j]] = k}
  IN IF hits = {} THEN nullptr ELSE bucket[CHOOSE j \in hits : \A m \in hits : j <= m]

find(k) == IF life = "ready" THEN findInBucket(k) ELSE nullptr

Init ==
  /\ life = "none" /\ bucket_count_ = 0 /\ buckets_ = <<>>
  /\ key = [n \in Nodes |-> nullptr] /\ value = [n \in Nodes |-> nullptr]
  /\ allocated = {} /\ inserted = <<>>

Next ==
  \/ \E count \in BucketCounts : Construct(count)
  \/ \E k \in Keys, v \in Values : insert(k, v)
  \/ DivideByZero
  \/ Destruct

Spec == Init /\ [][Next]_vars

------------------------------------------------------------------------------
(***************************************************************************)
(* Properties.                                                             *)
(***************************************************************************)

\* Every variable keeps its type.
TypeOK ==
  /\ life \in {"none", "failed", "bare", "ready", "dead", "oops"}
  /\ bucket_count_ \in BucketCounts \union {0}
  /\ life = "ready" => buckets_ \in [0 .. bucket_count_ - 1 -> Seq(allocated)]
  /\ key \in [Nodes -> Keys \union {nullptr}]
  /\ value \in [Nodes -> Values \union {nullptr}]
  /\ allocated \subseteq Nodes
  /\ inserted \in Seq(Keys \X Values)

\* find(k) leads to the value of the first pair with key k that was inserted,
\* and to nothing when there is none, for keys that collide in a bucket too;
\* after the buckets could not be allocated it leads to nothing.
FindsFirstInserted ==
  life \in {"ready", "failed"} =>
    \A k \in Keys :
      LET pairs == {j \in DOMAIN inserted : inserted[j][1] = k}
      IN IF pairs = {} THEN find(k) = nullptr
         ELSE /\ find(k) # nullptr
              /\ \A j \in pairs : (\A m \in pairs : j <= m) => value[find(k)] = inserted[j][2]

\* Until the map ends no node is lost or listed twice: each one that insert
\* allocated is in one place, in the bucket of its key.  After that all of them
\* are lost.
NodesInBuckets ==
  life = "ready" =>
    \A n \in allocated :
      \E j \in DOMAIN buckets_[Bucket(key[n])] :
        \A b \in 0 .. bucket_count_ - 1 : \A m \in DOMAIN buckets_[b] :
          buckets_[b][m] = n <=> b = Bucket(key[n]) /\ m = j

\* The address that find returned for a key stays the answer for that key, and
\* what it points to does not change, until the map ends: callers may keep
\* pointers to values across insertions.
PointersStayValid ==
  [][life' = "ready" =>
       \A k \in Keys : find(k) # nullptr => find(k)' = find(k) /\ value'[find(k)] = value[find(k)]]_vars
=============================================================================
