------------------------------ MODULE SkbBuffer ------------------------------
(***************************************************************************)
(* The buffer of a packet behind kpp::SKB (kpp/net/SKB.hpp): reserve,      *)
(* push, pull and trim move the two ends of the payload inside of a        *)
(* buffer.  The caller writes what push gave it; the pointers that push    *)
(* and pull return are checked against null only for pull.                 *)
(*                                                                         *)
(* External, as the code uses it: skb_reserve moves both ends and checks   *)
(* nothing, neither that the packet is empty nor that it stays in the      *)
(* buffer; skb_put through native_handle() extends the payload at its      *)
(* tail; skb_push and skb_put stop the machine when they leave the buffer  *)
(* in front and behind; skb_pull returns null for more than there is;      *)
(* skb_trim to more than there is changes nothing.  What follows a write   *)
(* behind the buffer is not modelled.                                      *)
(***************************************************************************)
EXTENDS Naturals, Sequences

CONSTANTS
  Bytes,  \* the values of a byte
  Size,   \* the size of the buffer: skb->end - skb->head
  Beyond  \* bound: how far behind the buffer reserve moves the tail

ConstantsAssumption == Size \in Nat /\ Beyond \in Nat

VARIABLES
  buffer,       \* what is written at each offset; bytes outside of the payload stay
  data, tail,   \* the ends of the payload, as offsets
  panic,        \* an operation left the buffer and the kernel noticed
  spoilt,       \* a header was written behind the buffer
  beyond,       \* history: reserve moved the tail behind the buffer
  payload       \* history: what the packet contains, by what the callers did

vars == <<buffer, data, tail, panic, spoilt, beyond, payload>>

Running == ~panic /\ ~spoilt
len == tail - data
Lengths == 0 .. Size
Written(from, bs) ==
  [k \in 0 .. Size - 1 |-> IF k >= from /\ k < from + Len(bs) THEN bs[k - from + 1] ELSE buffer[k]]

\* payload follows the packet as long as the packet is in the buffer.
Tracks(p) == payload' = IF beyond' THEN <<>> ELSE p

\* A packet that is not empty loses its first bytes, and what lies behind its
\* tail becomes part of it.
reserve(n) ==
  /\ Running /\ tail + n <= Size + Beyond
  /\ data' = data + n /\ tail' = tail + n
  /\ beyond' = (beyond \/ tail + n > Size)
  /\ Tracks([k \in 1 .. len |-> IF k + n <= len THEN payload[k + n] ELSE buffer[data + n + k - 1]])
  /\ UNCHANGED <<buffer, panic, spoilt>>

\* push, and the header bs that the caller writes there.
push(bs) ==
  /\ Running /\ panic' = (Len(bs) > data) /\ UNCHANGED <<tail, beyond>>
  /\ IF panic' THEN UNCHANGED <<buffer, data, spoilt, payload>>
     ELSE /\ data' = data - Len(bs)
          /\ buffer' = Written(data', bs)
          /\ spoilt' = (data > Size)
          /\ Tracks(bs \o payload)

put(bs) ==
  /\ Running /\ panic' = (tail + Len(bs) > Size) /\ UNCHANGED <<data, spoilt, beyond>>
  /\ IF panic' THEN UNCHANGED <<buffer, tail, payload>>
     ELSE /\ tail' = tail + Len(bs)
          /\ buffer' = Written(tail, bs)
          /\ Tracks(payload \o bs)

pullUnchecked(n) ==
  /\ Running
  /\ data' = data + n
  /\ UNCHANGED <<buffer, tail, panic, spoilt, beyond>>
  /\ Tracks(IF n <= len THEN SubSeq(payload, n + 1, Len(payload)) ELSE payload)

\* pull: the caller parsed n bytes, or was given null.
pull(n) ==
  /\ Running /\ n <= len
  /\ data' = data + n
  /\ UNCHANGED <<buffer, tail, panic, spoilt, beyond>>
  /\ Tracks(SubSeq(payload, n + 1, Len(payload)))

trim(n) ==
  /\ Running
  /\ tail' = IF len > n THEN data + n ELSE tail
  /\ UNCHANGED <<buffer, data, panic, spoilt, beyond>>
  /\ Tracks(IF Len(payload) > n THEN SubSeq(payload, 1, n) ELSE payload)

Init ==
  /\ buffer \in [0 .. Size - 1 -> Bytes]
  /\ data = 0 /\ tail = 0 /\ panic = FALSE /\ spoilt = FALSE
  /\ beyond = FALSE /\ payload = <<>>

Strings == UNION {[1 .. n -> Bytes] : n \in 1 .. 2}

Next ==
  \/ \E n \in Lengths : reserve(n) \/ pull(n) \/ trim(n)
  \/ \E bs \in Strings : push(bs) \/ put(bs)

Spec == Init /\ [][Next]_vars

------------------------------------------------------------------------------
(***************************************************************************)
(* Properties.                                                             *)
(***************************************************************************)

\* Every variable keeps its type, and the ends of the payload keep their order.
TypeOK ==
  /\ buffer \in [0 .. Size - 1 -> Bytes]
  /\ panic \in BOOLEAN /\ spoilt \in BOOLEAN /\ beyond \in BOOLEAN
  /\ data \in Nat /\ tail \in data .. Size + Beyond /\ payload \in Seq(Bytes)

\* As long as no reserve moved the tail behind the buffer, the payload is in
\* the buffer and its bytes are what the callers put there, in order, through
\* any sequence of reserve, push, pull and trim and at the limits of the
\* buffer: a header that was pushed over bytes pulled before replaces them,
\* nothing that was trimmed comes back but by a reserve, and nobody writes
\* behind the buffer.
PayloadIntact ==
  ~beyond => /\ ~spoilt /\ tail <= Size /\ len = Len(payload)
             /\ \A k \in 1 .. len : buffer[data + k - 1] = payload[k]
==============================================================================
