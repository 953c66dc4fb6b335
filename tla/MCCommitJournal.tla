-------------------------- MODULE MCCommitJournal --------------------------
(* The instance of CommitJournal that TLC checks.  Plan 1 moves path 2 to path 1
   (a creation and a deletion), plan 2 writes other bytes over path 2. *)
EXTENDS CommitJournal, TLC

OverlapWriteSet == (1 :> {1, 2} @@ 2 :> {2})
OverlapTarget == (1 :> (1 :> "old" @@ 2 :> Missing)) @@ (2 :> (1 :> Missing @@ 2 :> "made"))
MoveTree == (1 :> Missing @@ 2 :> "old")
=============================================================================
