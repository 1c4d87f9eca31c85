------------------------------ MODULE Expected ------------------------------
(***************************************************************************)
(* kpp::Expected<T, E> (kpp/util/Expected.hpp): a value or an error in one *)
(* union, told apart by has_value_.  T is a move-only owner of a resource, *)
(* such as a UniquePtr; E owns nothing, as kpp::Error.  The model follows  *)
(* the lifetimes of the union's members: each placement new starts one and *)
(* each explicit destructor call ends one.                                 *)
(***************************************************************************)
CONSTANTS
  Slots,      \* storage for Expected objects
  Resources,  \* what a T may own
  nullptr,    \* a T that owns nothing: it was moved from
  unset       \* has_value_ where no Expected lives

ASSUME ConstantsAssumption == nullptr \notin Resources /\ unset \notin BOOLEAN

VARIABLES
  alive,      \* the slots in which an Expected lives
  has_value_, \* has_value_[x], or unset
  values,     \* the slots in which a T was constructed and not destroyed
  errors,     \* the slots in which an E was constructed and not destroyed
  owned,      \* owned[x]: the resource the T in x owns, or nullptr
  held        \* the resources that somebody acquired and no ~T() gave back

vars == <<alive, has_value_, values, errors, owned, held>>

\* The effect of ~Expected on x: the destructor of the member the flag names.
\* A destructor call on a member that is not alive is what MembersMatchFlag
\* rules out.
Destroyed(x) ==
  IF has_value_[x]
  THEN [values |-> values \ {x}, errors |-> errors, held |-> held \ {owned[x]}]
  ELSE [values |-> values, errors |-> errors \ {x}, held |-> held]

------------------------------------------------------------------------------
\* Expected(T&&), with a T that just acquired r.
FromValue(x, r) ==
  /\ x \notin alive /\ r \notin held
  /\ alive' = alive \union {x} /\ has_value_' = [has_value_ EXCEPT ![x] = TRUE]
  /\ values' = values \union {x} /\ owned' = [owned EXCEPT ![x] = r] /\ held' = held \union {r}
  /\ UNCHANGED errors

\* Expected(E&&) and Expected(const E&).
FromError(x) ==
  /\ x \notin alive
  /\ alive' = alive \union {x} /\ has_value_' = [has_value_ EXCEPT ![x] = FALSE]
  /\ errors' = errors \union {x}
  /\ UNCHANGED <<values, owned, held>>

Destruct(x) ==
  /\ x \in alive
  /\ alive' = alive \ {x}
  /\ values' = Destroyed(x).values /\ errors' = Destroyed(x).errors /\ held' = Destroyed(x).held
  /\ owned' = [owned EXCEPT ![x] = nullptr]
  /\ has_value_' = [has_value_ EXCEPT ![x] = unset]

MovedCopies(x, y, vs, es) ==
  /\ has_value_' = [has_value_ EXCEPT ![x] = has_value_[y]]
  /\ IF has_value_[y]
     THEN values' = vs \union {x} /\ errors' = es /\ owned' = [owned EXCEPT ![x] = owned[y]]
     ELSE values' = vs /\ errors' = es \union {x} /\ owned' = [owned EXCEPT ![x] = nullptr]

\* Expected(Expected&&) in x, after the members in vs and es are alive: the
\* member that y has is move-constructed, y keeps its flag and a moved-from
\* member.
Moved(x, y, vs, es) ==
  /\ has_value_' = [has_value_ EXCEPT ![x] = has_value_[y]]
  /\ IF has_value_[y]
     THEN values' = vs \union {x} /\ errors' = es /\ owned' = [owned EXCEPT ![x] = owned[y], ![y] = nullptr]
     ELSE values' = vs /\ errors' = es \union {x} /\ owned' = [owned EXCEPT ![x] = nullptr]

MoveConstruct(x, y) ==
  /\ x \notin alive /\ y \in alive
  /\ alive' = alive \union {x}
  /\ Moved(x, y, values, errors)
  /\ UNCHANGED held

AnyOther(x, y) == TRUE

\* The check "this != &other".
NotSelf(x, y) == x # y

\* operator=(Expected&&): ~Expected, then the move constructor in its place.
MoveAssign(x, y) ==
  /\ x \in alive /\ y \in alive /\ NotSelf(x, y)
  /\ Moved(x, y, Destroyed(x).values, Destroyed(x).errors)
  /\ held' = Destroyed(x).held
  /\ UNCHANGED alive

------------------------------------------------------------------------------
Init ==
  /\ alive = {} /\ values = {} /\ errors = {} /\ held = {}
  /\ has_value_ = [x \in Slots |-> unset]
  /\ owned = [x \in Slots |-> nullptr]

Next ==
  \/ \E x \in Slots, r \in Resources : FromValue(x, r)
  \/ \E x \in Slots : FromError(x) \/ Destruct(x)
  \/ \E x, y \in Slots : MoveConstruct(x, y) \/ MoveAssign(x, y)

Spec == Init /\ [][Next]_vars

------------------------------------------------------------------------------
(***************************************************************************)
(* Properties.                                                             *)
(***************************************************************************)

\* Every variable keeps its type.
TypeOK ==
  /\ alive \subseteq Slots /\ values \subseteq Slots /\ errors \subseteq Slots
  /\ has_value_ \in [Slots -> BOOLEAN \union {unset}]
  /\ \A x \in alive : has_value_[x] # unset
  /\ owned \in [Slots -> Resources \union {nullptr}]
  /\ held \subseteq Resources

\* The member that has_value_ names, and no other, is alive in each Expected,
\* moved-from ones included: value() and error() reach a live object after the
\* check has_value(), and every destructor runs on a member that was
\* constructed, exactly once.
MembersMatchFlag ==
  /\ values = {x \in alive : has_value_[x]}
  /\ errors = {x \in alive : ~has_value_[x]}

\* A resource that was acquired is owned by the value of exactly one Expected
\* until it is given back: moves, assignments over a value or an error and
\* self-assignment neither leak it nor give it back twice.
ResourceHasOneOwner ==
  /\ held = {r \in Resources : \E x \in values : owned[x] = r}
  /\ \A x, y \in values : x # y /\ owned[x] # nullptr => owned[x] # owned[y]
  /\ \A x \in Slots \ values : owned[x] = nullptr

\* All of this together: the lifetimes of the members and of what they own.
LifetimesInv == TypeOK /\ MembersMatchFlag /\ ResourceHasOneOwner

\* A resource is given back only when the Expected that owns it is destroyed
\* or takes over another one: moving an Expected to itself keeps its value.
GivenBackByOwner ==
  [][\A r \in held \ held' :
       \E x \in values :
         /\ owned[x] = r
         /\ \/ x \notin alive'
            \/ \E y \in alive \ {x} : has_value_'[x] = has_value_[y] /\ owned'[x] = owned[y]]_vars
=============================================================================
