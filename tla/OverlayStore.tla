----------------------------- MODULE OverlayStore -----------------------------
(***************************************************************************)
(* What the runtime overlay promises about its settings, without files,    *)
(* backups, locks or a rename: versions of the settings that are only ever *)
(* added to, and the overlay, the one the program works from.  A save      *)
(* adds, in one step, the overlay with what it was asked to change, or an  *)
(* earlier version as it was.  Somebody else may add versions too; the     *)
(* program gets to them by reading the newest and, later, installing what  *)
(* it has read.  A crash loses no version.  RuntimeConfig implements it.   *)
(*                                                                         *)
(* The token list is not one of the settings here: a deletion shortens it  *)
(* in place, before its save.                                              *)
(***************************************************************************)
EXTENDS Integers, Sequences

CONSTANTS
  Keys,       \* settings a request may change
  Values,     \* values it may give them
  First,      \* the version before there is any
  Others      \* versions somebody else may add

VARIABLES
  versions,   \* all versions, the oldest first
  overlay,    \* the one the program works from
  pending,    \* what the save in progress is to do; at most one
  seen        \* the version that was read and not yet installed; at most one

storeVars == <<versions, overlay, pending, seen>>

Newest == versions[Len(versions)]

StoreInit == versions = <<First>> /\ overlay = First /\ pending = {} /\ seen = {}

Operations == Keys \cup {"create", "delete", "restore"}

\* One save at a time.
Begin(op) ==
  /\ pending = {}
  /\ pending' = {op}
  /\ UNCHANGED <<versions, overlay, seen>>

\* The overlay afterwards: a key has its new value and the others have their old
\* one; tokens were created or deleted, and all keys have their old value; or all
\* of it is an earlier version.
Changed(op) ==
  \/ op \in Keys /\ \E v \in Values : overlay' = [overlay EXCEPT ![op] = v]
  \/ op \in {"create", "delete"} /\ overlay' = overlay
  \/ op = "restore" /\ \E i \in 2..Len(versions) : overlay' = versions[i]

Commit(op) ==
  /\ op \in pending
  /\ Changed(op)
  /\ versions' = Append(versions, overlay')
  /\ pending' = {}
  /\ UNCHANGED seen

Fail(op) ==
  /\ op \in pending
  /\ pending' = {}
  /\ UNCHANGED <<versions, overlay, seen>>

\* Somebody else adds a version; the program still works from its own.
Add(version) ==
  /\ versions' = Append(versions, version)
  /\ UNCHANGED <<overlay, pending, seen>>

Look ==
  /\ seen' = {Newest}
  /\ UNCHANGED <<versions, overlay, pending>>

\* Not in the middle of a save; the version may no longer be the newest.
Install ==
  /\ pending = {}
  /\ overlay' \in seen
  /\ seen' = {}
  /\ UNCHANGED <<versions, pending>>

\* A restart works from the newest version.
Restart ==
  /\ overlay' = Newest
  /\ pending' = {} /\ seen' = {}
  /\ UNCHANGED versions

StoreNext ==
  \/ \E op \in Operations : Begin(op) \/ Commit(op) \/ Fail(op)
  \/ \E version \in Others : Add(version)
  \/ Look \/ Install \/ Restart

StoreSpec == StoreInit /\ [][StoreNext]_storeVars

===============================================================================
