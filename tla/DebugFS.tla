------------------------------- MODULE DebugFS -------------------------------
(***************************************************************************)
(* kpp::debugfs (kpp/debug/DebugFS.hpp): Dentry, a move-only owner of a    *)
(* file or directory of debugfs, and create_dir and create_file, which put *)
(* a new entry under the directory of another Dentry.  The end of a Dentry *)
(* removes all that is below it, the entries of other Dentries too: those  *)
(* keep a pointer to a dentry that is freed, and their own end is undefined*)
(* behaviour.  C++ scopes end in the order that avoids this; moves and     *)
(* assignments need not.                                                   *)
(*                                                                         *)
(* External, as the code uses it: creating an entry returns an error       *)
(* pointer, never null, when its parent is one, its name is taken or       *)
(* memory runs out; a null parent means the root of debugfs; removal       *)
(* ignores null and error pointers.                                        *)
(***************************************************************************)
EXTENDS Naturals, FiniteSets

CONSTANTS
  Handles,    \* storage for Dentry objects
  Entries,    \* dentries; each is created at most once
  root,       \* the root of debugfs
  ERR,        \* an error pointer
  nullptr, NoObject

ConstantsAssumption ==
  /\ nullptr # NoObject /\ {root, ERR} \intersect {nullptr, NoObject} = {}
  /\ {root, ERR, nullptr, NoObject} \intersect Entries = {}

VARIABLES
  dentry_,  \* dentry_[h] of the Dentry in h, or NoObject
  parent,   \* parent[e], NoObject before e is created and nullptr after it was removed
  files,    \* the entries that are files
  crashed   \* a dentry was used that was freed before

vars == <<dentry_, parent, files, crashed>>

Alive(h) == dentry_[h] # NoObject
Exists(e) == parent[e] \notin {NoObject, nullptr}

\* e is x or lies below x: x is in every set of entries that holds e and, with
\* an entry, its parent.
Below(e, x) ==
  \A A \in SUBSET Entries :
    e \in A /\ (\A y \in A : parent[y] \in Entries => parent[y] \in A) => x \in A

------------------------------------------------------------------------------
Dangling(h) == dentry_[h] \in Entries /\ ~Exists(dentry_[h])

\* Dentry(d) around what debugfs returned for a new entry in directory p.
Create(h, p, isFile) ==
  /\ ~crashed /\ ~Alive(h) /\ Alive(p)
  /\ dentry_[p] \notin files
  /\ \/ /\ dentry_[p] # ERR /\ ~Dangling(p)
        /\ \E e \in Entries :
             /\ parent[e] = NoObject
             /\ dentry_' = [dentry_ EXCEPT ![h] = e]
             /\ parent' = [parent EXCEPT ![e] = IF dentry_[p] = nullptr THEN root ELSE dentry_[p]]
             /\ files' = IF isFile THEN files \union {e} ELSE files
     \/ dentry_' = [dentry_ EXCEPT ![h] = ERR] /\ UNCHANGED <<parent, files>>
  /\ crashed' = Dangling(p)

create_dir(h, p) == Create(h, p, FALSE)
create_file(h, p) == Create(h, p, TRUE)

\* Dentry(nullptr), which callers pass as the parent of a top directory.
ConstructNull(h) ==
  /\ ~crashed /\ ~Alive(h)
  /\ dentry_' = [dentry_ EXCEPT ![h] = nullptr]
  /\ UNCHANGED <<parent, files, crashed>>

RemoveShallow(d) ==
  /\ crashed' = (d \in Entries /\ ~Exists(d))
  /\ parent' = [e \in Entries |-> IF e = d THEN nullptr ELSE parent[e]]
  /\ UNCHANGED files

RemoveSiblings(d) ==
  /\ crashed' = (d \in Entries /\ ~Exists(d))
  /\ parent' = [e \in Entries |-> IF d \in Entries /\ Exists(e) /\ (Below(e, d) \/ parent[e] = parent[d]) THEN nullptr ELSE parent[e]]
  /\ UNCHANGED files

\* debugfs_remove_recursive(d), if d is not null.
Remove(d) ==
  /\ crashed' = (d \in Entries /\ ~Exists(d))
  /\ parent' = [e \in Entries |-> IF d \in Entries /\ Exists(e) /\ Below(e, d) THEN nullptr ELSE parent[e]]
  /\ UNCHANGED files

Destruct(h) ==
  /\ ~crashed /\ Alive(h)
  /\ Remove(dentry_[h])
  /\ dentry_' = [dentry_ EXCEPT ![h] = NoObject]

MoveConstruct(h, other) ==
  /\ ~crashed /\ ~Alive(h) /\ Alive(other)
  /\ dentry_' = [dentry_ EXCEPT ![h] = dentry_[other], ![other] = nullptr]
  /\ UNCHANGED <<parent, files, crashed>>

MoveAssign(h, other) ==
  /\ ~crashed /\ Alive(h) /\ Alive(other) /\ h # other
  /\ Remove(dentry_[h])
  /\ dentry_' = [dentry_ EXCEPT ![h] = dentry_[other], ![other] = nullptr]

------------------------------------------------------------------------------
Init ==
  /\ dentry_ = [h \in Handles |-> NoObject]
  /\ parent = [e \in Entries |-> NoObject]
  /\ files = {} /\ crashed = FALSE

Next ==
  \/ \E h, p \in Handles : create_dir(h, p) \/ create_file(h, p) \/ MoveConstruct(h, p) \/ MoveAssign(h, p)
  \/ \E h \in Handles : ConstructNull(h) \/ Destruct(h)

Spec == Init /\ [][Next]_vars

------------------------------------------------------------------------------
(***************************************************************************)
(* Properties.                                                             *)
(***************************************************************************)

\* Every variable keeps its type.
TypeOK ==
  /\ dentry_ \in [Handles -> Entries \union {ERR, nullptr, NoObject}]
  /\ parent \in [Entries -> Entries \union {root, nullptr, NoObject}]
  /\ files \subseteq Entries /\ crashed \in BOOLEAN

\* Every entry of the tree lies in a directory of the tree and has exactly one
\* Dentry, which will remove it: whatever fails, moves or ends before, no entry
\* stays behind when all Dentries are gone.
TreeOwned ==
  \A e \in Entries : Exists(e) =>
    /\ parent[e] = root \/ (Exists(parent[e]) /\ parent[e] \notin files)
    /\ Cardinality({h \in Handles : dentry_[h] = e}) = 1

\* A Dentry comes to point to a freed entry only in one way, when a Dentry
\* above it ends or is assigned to first; otherwise an end frees what its own
\* Dentry points to and nothing else.
OnlyParentsDangle ==
  [][\A h \in Handles :
       LET e == dentry_[h] IN
       e \in Entries /\ Exists(e) /\ dentry_'[h] = e /\ ~Exists(e)' =>
         \E p \in Handles \ {h} :
           dentry_[p] \in Entries \ {e} /\ Below(e, dentry_[p]) /\ dentry_'[p] # dentry_[p]]_vars
==============================================================================
