---------------------------- MODULE VersionedStore ----------------------------
(***************************************************************************)
(* What the sync server promises about the stored blobs, whoever pushes    *)
(* and in whatever order: a stored item is only ever replaced by one with  *)
(* a strictly higher version, or removed.  Equal versions never replace    *)
(* each other, so within one lifetime of a row a version names one         *)
(* content.                                                                *)
(***************************************************************************)
EXTENDS Integers

CONSTANTS Item, NoRow
VARIABLE blobs

Init == blobs = [i \in Item |-> NoRow]

Raised(i) ==
  /\ blobs'[i] # NoRow
  /\ blobs[i] = NoRow \/ blobs[i].version < blobs'[i].version

Raise == \A i \in Item : blobs'[i] = blobs[i] \/ Raised(i)

Remove == \A i \in Item : blobs'[i] \in {blobs[i], NoRow}

Next == Raise \/ Remove

Spec == Init /\ [][Next]_blobs
=============================================================================
