---------------------------- MODULE XDPAttachment ----------------------------
(***************************************************************************)
(* kpp::NetDevice (kpp/net/NetDevice.hpp), a move-only handle on a         *)
(* reference to a net_device, and kpp::XDPAttachment (kpp/net/XDP.hpp),    *)
(* which attaches an XDP program to a device and detaches it when it ends. *)
(* Each object belongs to one thread; the kernel may unregister a device   *)
(* between any two steps.  A constructor of XDPAttachment borrows the      *)
(* NetDevice it is given, so that one is neither moved nor destroyed       *)
(* before the constructor ends.                                            *)
(*                                                                         *)
(* External, as the code uses it: dev_get_by_name takes a reference on a   *)
(* registered device; bpf_set_link_xdp_fd works on registered devices      *)
(* only, may fail, and refuses to replace a program under                  *)
(* XDP_FLAGS_UPDATE_IF_NOEXIST ("noexist"); unregistering a device         *)
(* detaches its program and waits for the last reference before it frees   *)
(* the device.                                                             *)
(***************************************************************************)
EXTENDS Naturals, FiniteSets

CONSTANTS
  Handles,      \* storage for NetDevice objects
  Attachments,  \* storage for XDPAttachment objects
  Devices,      \* the net_devices
  nullptr,      \* dev_ of an empty handle
  NoObject      \* no object lives in the storage

ConstantsAssumption ==
  /\ IsFiniteSet(Handles) /\ IsFiniteSet(Attachments)
  /\ nullptr \notin Devices /\ NoObject \notin Devices \union Handles
  /\ nullptr # NoObject /\ nullptr \notin Handles

VARIABLES
  handle,    \* handle[h]: dev_ of the NetDevice in h, or NoObject
  dev_,      \* dev_[a] of the XDPAttachment in a, or NoObject
  attached,  \* the attachments whose is_attached_ is true
  borrows,   \* borrows[a]: the NetDevice whose attachment a's constructor has still to dev_get, or nullptr
  refs,      \* refs[d]: the reference count of the device
  device,    \* "registered", "leaving" (unregister waits for references) or "freed"
  installed, \* the devices with an XDP program
  forced     \* history: the devices a caller attached to with flags 0

vars == <<handle, dev_, attached, borrows, refs, device, installed, forced>>
attachmentVars == <<dev_, attached, borrows>>
kernelVars == <<refs, device, installed, forced>>

\* The flags callers pass: 0, or XDP_FLAGS_UPDATE_IF_NOEXIST.
Flags == {"none", "noexist"}

Alive(h) == handle[h] # NoObject /\ \A a \in Attachments : borrows[a] # h
Constructed(a) == dev_[a] # NoObject /\ borrows[a] = nullptr

\* dev_put when the pointer p is set.
Put(p) == [d \in Devices |-> IF d = p THEN refs[d] - 1 ELSE refs[d]]

\* The check "this != &other": an object moved to itself is left alone.
NotSelf(x, y) == x # y

------------------------------------------------------------------------------
(***************************************************************************)
(* NetDevice.                                                              *)
(***************************************************************************)

\* h = find_device(name): a null handle when there is no such device.
find_device(h) ==
  /\ handle[h] = NoObject
  /\ \/ \E d \in Devices :
          /\ device[d] = "registered"
          /\ handle' = [handle EXCEPT ![h] = d]
          /\ refs' = [refs EXCEPT ![d] = @ + 1]
     \/ handle' = [handle EXCEPT ![h] = nullptr] /\ UNCHANGED refs
  /\ UNCHANGED <<attachmentVars, device, installed, forced>>

DestructDevice(h) ==
  /\ Alive(h)
  /\ refs' = Put(handle[h])
  /\ handle' = [handle EXCEPT ![h] = NoObject]
  /\ UNCHANGED <<attachmentVars, device, installed, forced>>

MoveConstructDevice(h, o) ==
  /\ handle[h] = NoObject /\ Alive(o)
  /\ handle' = [handle EXCEPT ![h] = handle[o], ![o] = nullptr]
  /\ UNCHANGED <<attachmentVars, kernelVars>>

MoveAssignDevice(h, o) ==
  /\ Alive(h) /\ Alive(o) /\ NotSelf(h, o)
  /\ refs' = Put(handle[h])
  /\ handle' = [handle EXCEPT ![h] = handle[o], ![o] = nullptr]
  /\ UNCHANGED <<attachmentVars, device, installed, forced>>

------------------------------------------------------------------------------
(***************************************************************************)
(* XDPAttachment.                                                          *)
(***************************************************************************)

CanInstall(d, f) == device[d] = "registered" /\ (f = "noexist" => d \notin installed)

\* The constructor up to the result of bpf_set_link_xdp_fd.  The caller has
\* checked the NetDevice: the constructor dereferences a null one.  After a
\* failure the object keeps dev_ but holds no reference.
Attach(a, h, f) ==
  LET d == handle[h] IN
  /\ dev_[a] = NoObject /\ Alive(h) /\ d \in Devices
  /\ dev_' = [dev_ EXCEPT ![a] = d]
  /\ \/ /\ CanInstall(d, f)
        /\ installed' = installed \union {d}
        /\ attached' = attached \union {a}
        /\ borrows' = [borrows EXCEPT ![a] = h]
     \/ UNCHANGED <<installed, attached, borrows>>
  /\ forced' = IF f = "none" THEN forced \union {d} ELSE forced
  /\ UNCHANGED <<handle, refs, device>>

\* The constructor after a success: dev_get, and the caller has its NetDevice
\* again.
TakeReference(a) ==
  /\ borrows[a] # nullptr
  /\ refs' = [refs EXCEPT ![dev_[a]] = @ + 1]
  /\ borrows' = [borrows EXCEPT ![a] = nullptr]
  /\ UNCHANGED <<handle, dev_, attached, device, installed, forced>>

HeldUnchecked(a) == dev_[a]

\* "is_attached_ && dev_": the device to detach from, if any.
Held(a) == IF a \in attached THEN dev_[a] ELSE nullptr

\* bpf_set_link_xdp_fd(ifindex, -1, 0) and dev_put, for an attached object.
\* Detaching from a device that is leaving fails, and the result is ignored.
Detach(a) ==
  /\ installed' = installed \ {d \in Devices : d = Held(a) /\ device[d] = "registered"}
  /\ refs' = Put(Held(a))

DestructAttachment(a) ==
  /\ Constructed(a)
  /\ Detach(a)
  /\ dev_' = [dev_ EXCEPT ![a] = NoObject]
  /\ attached' = attached \ {a}
  /\ UNCHANGED <<handle, borrows, device, forced>>

\* What both moves do: a takes over dev_ and is_attached_, o is left empty.
TakeOver(a, o) ==
  /\ dev_' = [dev_ EXCEPT ![a] = dev_[o], ![o] = nullptr]
  /\ attached' = IF o \in attached THEN (attached \ {o}) \union {a} ELSE attached \ {a}

MoveConstructAttachment(a, o) ==
  /\ dev_[a] = NoObject /\ Constructed(o)
  /\ TakeOver(a, o)
  /\ UNCHANGED <<handle, borrows, kernelVars>>

MoveAssignAttachment(a, o) ==
  /\ Constructed(a) /\ Constructed(o) /\ NotSelf(a, o)
  /\ Detach(a)
  /\ TakeOver(a, o)
  /\ UNCHANGED <<handle, borrows, device, forced>>

------------------------------------------------------------------------------
(***************************************************************************)
(* The kernel.                                                             *)
(***************************************************************************)

Unregister(d) ==
  /\ device[d] = "registered"
  /\ device' = [device EXCEPT ![d] = "leaving"]
  /\ installed' = installed \ {d}
  /\ UNCHANGED <<handle, attachmentVars, refs, forced>>

FreeDevice(d) ==
  /\ device[d] = "leaving" /\ refs[d] = 0
  /\ device' = [device EXCEPT ![d] = "freed"]
  /\ UNCHANGED <<handle, attachmentVars, refs, installed, forced>>

------------------------------------------------------------------------------
Init ==
  /\ handle = [h \in Handles |-> NoObject]
  /\ dev_ = [a \in Attachments |-> NoObject]
  /\ attached = {}
  /\ borrows = [a \in Attachments |-> nullptr]
  /\ refs = [d \in Devices |-> 0]
  /\ device = [d \in Devices |-> "registered"]
  /\ installed = {}
  /\ forced = {}

Next ==
  \/ \E h \in Handles : find_device(h) \/ DestructDevice(h)
  \/ \E h, o \in Handles : MoveConstructDevice(h, o) \/ MoveAssignDevice(h, o)
  \/ \E a \in Attachments, h \in Handles, f \in Flags : Attach(a, h, f)
  \/ \E a \in Attachments : TakeReference(a) \/ DestructAttachment(a)
  \/ \E a, o \in Attachments : MoveConstructAttachment(a, o) \/ MoveAssignAttachment(a, o)
  \/ \E d \in Devices : Unregister(d) \/ FreeDevice(d)

Spec == Init /\ [][Next]_vars

------------------------------------------------------------------------------
(***************************************************************************)
(* Properties.                                                             *)
(***************************************************************************)

\* Every variable keeps its type.
TypeOK ==
  /\ handle \in [Handles -> Devices \union {nullptr, NoObject}]
  /\ dev_ \in [Attachments -> Devices \union {nullptr, NoObject}]
  /\ attached \subseteq Attachments
  /\ borrows \in [Attachments -> Handles \union {nullptr}]
  /\ refs \in [Devices -> Nat]
  /\ device \in [Devices -> {"registered", "leaving", "freed"}]
  /\ installed \subseteq Devices /\ forced \subseteq Devices

\* The holders of a reference on d.
HandlesOn(d) == {h \in Handles : handle[h] = d}
AttachmentsOn(d) == {a \in attached : dev_[a] = d /\ borrows[a] = nullptr}

\* A device has one reference for each NetDevice that points to it and one for
\* each attached XDPAttachment, through any sequence of moves, failed
\* attachments and destructors: dev_get and dev_put are balanced.
RefsBalanced ==
  \A d \in Devices : refs[d] = Cardinality(HandlesOn(d)) + Cardinality(AttachmentsOn(d))

\* A device that a NetDevice or an attached XDPAttachment points to is not
\* freed, though it may be unregistered at any moment, between the attaching
\* of the program and dev_get too: dev_->ifindex is always safe to read.
HeldDeviceStays ==
  \A d \in Devices :
    HandlesOn(d) # {} \/ (\E a \in attached : dev_[a] = d) => device[d] # "freed"

\* As long as every caller attaches with XDP_FLAGS_UPDATE_IF_NOEXIST, a
\* registered device has a program exactly while one attached XDPAttachment
\* points to it: no program outlives its attachment, and no attachment that
\* says it is attached has lost its program to the destructor of another one.
ProgramHasOneAttachment ==
  \A d \in Devices \ forced :
    device[d] = "registered" =>
      Cardinality({a \in attached : dev_[a] = d}) = IF d \in installed THEN 1 ELSE 0
==============================================================================
