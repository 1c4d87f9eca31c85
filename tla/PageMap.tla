------------------------------- MODULE PageMap -------------------------------
(***************************************************************************)
(* kpp::Page and its MappedPtr (kpp/vfs/Page.hpp): threads map pages of    *)
(* high memory for the length of a scope, several at a time as for a copy. *)
(* There are few places to map pages to, and kmap sleeps until one is free,*)
(* while the thread keeps the ones that it has.  A Page that is null is    *)
(* not mapped: its users look at operator bool.                            *)
(*                                                                         *)
(* External, as the code uses it: kmap counts the mappings of a page and   *)
(* gives every one the same address; kunmap of the page that is found      *)
(* behind an address gives one back, and the last frees the place.         *)
(***************************************************************************)
EXTENDS Naturals, FiniteSets, SequencesExt

CONSTANTS
  Threads, Pages,
  Slots,    \* the addresses at which a page can be mapped (LAST_PKMAP)
  Depth,    \* bound on the MappedPtrs of a thread
  nullptr

ConstantsAssumption ==
  /\ IsFiniteSet(Threads) /\ IsFiniteSet(Slots) /\ Depth \in Nat \ {0} /\ nullptr \notin Pages
  /\ Cardinality(Slots) > Cardinality(Threads) * (Depth - 1)

VARIABLES
  addr_,    \* addr_[t]: the addresses of the MappedPtrs of t, in the order of their scopes
  meant,    \* history: meant[t], the pages they were made for
  waiting,  \* waiting[t]: the page that t sleeps for in kmap, or nullptr
  page,     \* page[s]: the page mapped at s, or nullptr
  mappings  \* mappings[s]: how often

vars == <<addr_, meant, waiting, page, mappings>>

\* map(): MappedPtr(p) calls kmap.
map(t, p) ==
  /\ waiting[t] = nullptr /\ Len(addr_[t]) < Depth
  /\ waiting' = [waiting EXCEPT ![t] = p]
  /\ UNCHANGED <<addr_, meant, page, mappings>>

\* kmap returns the place that the page has, or a free one.
kmap(t) ==
  LET p == waiting[t]
      has == {s \in Slots : page[s] = p}
  IN
  /\ p # nullptr
  /\ \E s \in (IF has = {} THEN {f \in Slots : page[f] = nullptr} ELSE has) :
       /\ page' = [page EXCEPT ![s] = p]
       /\ mappings' = [mappings EXCEPT ![s] = @ + 1]
       /\ addr_' = [addr_ EXCEPT ![t] = Append(@, s)]
       /\ meant' = [meant EXCEPT ![t] = Append(@, p)]
       /\ waiting' = [waiting EXCEPT ![t] = nullptr]

\* ~MappedPtr(): kunmap(page_from_virt(addr_)).
Unmap(t) ==
  LET s == Last(addr_[t]) IN
  /\ addr_[t] # <<>> /\ waiting[t] = nullptr
  /\ mappings' = [mappings EXCEPT ![s] = @ - 1]
  /\ page' = IF mappings[s] = 1 THEN [page EXCEPT ![s] = nullptr] ELSE page
  /\ addr_' = [addr_ EXCEPT ![t] = Front(@)] /\ meant' = [meant EXCEPT ![t] = Front(@)]
  /\ UNCHANGED waiting

Init ==
  /\ addr_ = [t \in Threads |-> <<>>] /\ meant = [t \in Threads |-> <<>>]
  /\ waiting = [t \in Threads |-> nullptr]
  /\ page = [s \in Slots |-> nullptr] /\ mappings = [s \in Slots |-> 0]

Next ==
  \/ \E t \in Threads, p \in Pages : map(t, p)
  \/ \E t \in Threads : kmap(t) \/ Unmap(t)

\* Scopes end, and who sleeps in kmap is not passed over for ever.
Fairness == \A t \in Threads : SF_vars(kmap(t)) /\ SF_vars(Unmap(t))

Spec == Init /\ [][Next]_vars /\ Fairness

------------------------------------------------------------------------------
(***************************************************************************)
(* Properties.                                                             *)
(***************************************************************************)

\* Every variable keeps its type.
TypeOK ==
  /\ addr_ \in [Threads -> Seq(Slots)] /\ meant \in [Threads -> Seq(Pages)]
  /\ waiting \in [Threads -> Pages \union {nullptr}]
  /\ page \in [Slots -> Pages \union {nullptr}] /\ mappings \in [Slots -> Nat]

\* As long as its MappedPtr lives, an address leads to the page that it was
\* made for, however often other threads map and unmap the same page; so the
\* page found behind it in the destructor is the right one to unmap.
AddressStaysMapped ==
  \A t \in Threads : \A k \in DOMAIN addr_[t] : page[addr_[t][k]] = meant[t][k]

\* Every map() returns, with as many places as this: one more than the threads
\* hold when each of them waits for its last page.
EveryMapReturns == \A t \in Threads : waiting[t] # nullptr ~> waiting[t] = nullptr
==============================================================================
