----------------------------- MODULE DeviceKeys -----------------------------
(***************************************************************************)
(* The photobooths' page (features/devices): devices are created, renamed, *)
(* given a new key and revoked in dialogs, each with a mutation of its     *)
(* own.  A key is shown once, in a dialog the user must acknowledge.  A    *)
(* dialog can be left while its mutation is in flight; what the mutation   *)
(* does when it ends it does then, too.                                    *)
(***************************************************************************)
EXTENDS Naturals, FiniteSets

CONSTANTS
    MaxDevices, MaxKeys  \* bounds: devices, keys issued

ASSUME DeviceKeysAssumption == MaxDevices \in Nat \ {0} /\ MaxKeys \in Nat

VARIABLES
    keyOf,           \* the server's key of a device, or 0 before it is created
    revokedAt,       \* the devices that were revoked
    issued,          \* keys issued
    listed,          \* the devices of the list, with whether each is revoked
    createOpen,      \* the dialog of a new device
    creating,        \* creations in flight: of its form, or of one that was left
    target,          \* the device each other dialog is open for, or 0
    call,            \* the mutation of each of them in flight
    keyResult        \* the key that is shown, and whose

deviceVars == <<keyOf, revokedAt, issued, listed, createOpen, creating, target, call, keyResult>>

Devices == 1..MaxDevices
Dialogs == {"rename", "rotate", "revoke"}
NoKey   == [device |-> 0, key |-> 0, action |-> "none"]
Idle    == [device |-> 0, ends |-> "none", key |-> 0]

DeviceInit ==
    /\ keyOf = [d \in Devices |-> IF d = 1 THEN 1 ELSE 0] /\ revokedAt = {} /\ issued = 1
    /\ listed = [known |-> {1}, revoked |-> {}]
    /\ createOpen = FALSE /\ creating = {}
    /\ target = [k \in Dialogs |-> 0] /\ call = [k \in Dialogs |-> Idle]
    /\ keyResult = NoKey

\* Dialogs are modal: nothing is opened behind one.
Modal == createOpen \/ keyResult # NoKey \/ \E k \in Dialogs : target[k] # 0

-----------------------------------------------------------------------------
(* The dialogs                                                             *)

DevicesPanel ==
    /\ ~Modal /\ createOpen' = TRUE
    /\ UNCHANGED <<keyOf, revokedAt, issued, listed, creating, target, call, keyResult>>

\* A device's menu, where it is not listed as revoked.
DeviceActions ==
    /\ ~Modal
    /\ \E k \in Dialogs, d \in listed.known \ listed.revoked : target' = [target EXCEPT ![k] = d]
    /\ UNCHANGED <<keyOf, revokedAt, issued, listed, createOpen, creating, call, keyResult>>

\* Cancel or Escape; the form is made anew, its call goes on.
CloseForm ==
    /\ createOpen /\ createOpen' = FALSE
    /\ creating' = {[c EXCEPT !.form = FALSE] : c \in creating}
    /\ UNCHANGED <<keyOf, revokedAt, issued, listed, target, call, keyResult>>

\* Escape, and Cancel where it is not disabled.
CloseDialog(k) ==
    /\ target[k] # 0 /\ target' = [target EXCEPT ![k] = 0]
    /\ UNCHANGED <<keyOf, revokedAt, issued, listed, createOpen, creating, call, keyResult>>

\* isPending: the call of the dialog's mutation, whichever device it is for.
notPending(k) == call[k] = Idle

Confirm(k) ==
    /\ target[k] # 0 /\ notPending(k)
    /\ call' = [call EXCEPT ![k] = [Idle EXCEPT !.device = target[k]]]
    /\ UNCHANGED <<keyOf, revokedAt, issued, listed, createOpen, creating, target, keyResult>>

\* The form: one creation at a time, as far as it knows.
onSubmitDevice ==
    /\ createOpen /\ \A c \in creating : ~c.form
    /\ Cardinality(creating) < MaxDevices - 1
    /\ \E n \in Devices : (\A c \in creating : c.n # n)
         /\ creating' = creating \cup {[n |-> n, form |-> TRUE, device |-> 0, key |-> 0]}
    /\ UNCHANGED <<keyOf, revokedAt, issued, listed, createOpen, target, call, keyResult>>

-----------------------------------------------------------------------------
(* The server                                                              *)

NewKey == issued < MaxKeys /\ issued' = issued + 1

CreateDevice(c) ==
    /\ c \in creating /\ c.device = 0
    /\ NewKey
    /\ \E d \in Devices : /\ keyOf[d] = 0 /\ (\A e \in Devices : e < d => keyOf[e] # 0)
                          /\ keyOf' = [keyOf EXCEPT ![d] = issued']
                          /\ creating' = (creating \ {c}) \cup {[c EXCEPT !.device = d, !.key = issued']}
    /\ UNCHANGED <<revokedAt, listed, createOpen, target, call, keyResult>>

\* A revoked device keeps its row, and gets no new key.
ServeDevice(k) ==
    /\ call[k] # Idle /\ call[k].ends = "none"
    /\ LET d == call[k].device
       IN  \/ /\ k = "rotate" /\ d \notin revokedAt
              /\ NewKey /\ keyOf' = [keyOf EXCEPT ![d] = issued']
              /\ call' = [call EXCEPT ![k] = [@ EXCEPT !.ends = "ok", !.key = issued']]
              /\ UNCHANGED revokedAt
           \/ /\ k = "revoke" /\ revokedAt' = revokedAt \cup {d}
              /\ call' = [call EXCEPT ![k].ends = IF d \in revokedAt THEN "404" ELSE "ok"]
              /\ UNCHANGED <<keyOf, issued>>
           \/ /\ (k = "rename" \/ (k = "rotate" /\ d \in revokedAt))
              /\ call' = [call EXCEPT ![k].ends = IF k = "rename" THEN "ok" ELSE "409"]
              /\ UNCHANGED <<keyOf, revokedAt, issued>>
    /\ UNCHANGED <<listed, createOpen, creating, target, keyResult>>

-----------------------------------------------------------------------------
(* The answers                                                             *)

\* Instead of a key that is shown, if one is.
Show(d, key, action) == keyResult' = [device |-> d, key |-> key, action |-> action]

\* onClose and onCreated, of whatever form is open; a failure is the form's.
Created(c) ==
    /\ c \in creating /\ creating' = creating \ {c}
    /\ \/ c.device # 0 /\ createOpen' = FALSE /\ Show(c.device, c.key, "created")
       \/ UNCHANGED <<createOpen, keyResult>>
    /\ UNCHANGED <<keyOf, revokedAt, issued, listed, target, call>>

\* Mutant: a rotation forgets onClose.
staysOpen(k) == IF k = "rotate" THEN target ELSE [target EXCEPT ![k] = 0]

\* The dialog's onClose, whatever device it is open for by then.
closed(k) == [target EXCEPT ![k] = 0]

\* onClose, and onRotated.
Confirmed(k) ==
    /\ call[k] # Idle /\ call' = [call EXCEPT ![k] = Idle]
    /\ \/ /\ call[k].ends = "ok" /\ target' = closed(k)
          /\ IF k = "rotate" THEN Show(call[k].device, call[k].key, "rotated") ELSE UNCHANGED keyResult
       \/ call[k].ends \notin {"none", "ok"} /\ UNCHANGED <<target, keyResult>>
       \/ UNCHANGED <<target, keyResult>>
    /\ UNCHANGED <<keyOf, revokedAt, issued, listed, createOpen, creating>>

\* I've saved it.
close ==
    /\ keyResult # NoKey
    /\ keyResult' = NoKey
    /\ UNCHANGED <<keyOf, revokedAt, issued, listed, createOpen, creating, target, call>>

\* The list is asked for and answered.
useDevices ==
    /\ listed' = [known |-> {d \in Devices : keyOf[d] # 0}, revoked |-> revokedAt]
    /\ UNCHANGED <<keyOf, revokedAt, issued, createOpen, creating, target, call, keyResult>>

-----------------------------------------------------------------------------
DeviceNext ==
    \/ DevicesPanel \/ DeviceActions \/ CloseForm \/ onSubmitDevice \/ close \/ useDevices
    \/ \E k \in Dialogs : CloseDialog(k) \/ Confirm(k) \/ ServeDevice(k) \/ Confirmed(k)
    \/ \E c \in creating : CreateDevice(c) \/ Created(c)

DeviceSpec == DeviceInit /\ [][DeviceNext]_deviceVars
=============================================================================
