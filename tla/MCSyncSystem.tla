---------------------------- MODULE MCSyncSystem ----------------------------
(***************************************************************************)
(* Instances of SyncSystem for TLC.                                        *)
(***************************************************************************)
EXTENDS SyncSystem, Functions, TLC

MCContent == [edit : 1..MaxEdits, wraps : 0..MaxWraps]

\* A user without notes.
NewUser == {[i \in Item |-> NoRow]}

\* The user has notes with different versions, made on another device.
Numbered == {f \in [Item -> 1..Cardinality(Item)] : IsInjective(f)}
Joining ==
  {[i \in Item |-> [version |-> f[i], content |-> [edit |-> 1, wraps |-> 0]]] : f \in Numbered}
NewOrJoining == NewUser \union Joining

\* The runs of a device are only compared for equality.
RunSymmetry == Permutations(Run)
=============================================================================
