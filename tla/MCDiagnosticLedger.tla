------------------------- MODULE MCDiagnosticLedger -------------------------
(* Instances of DiagnosticLedger for TLC. *)
EXTENDS DiagnosticLedger

(* What the push stream finds differs between versions that follow each other; the
   pull stream finds anything in the versions before the last, and nothing there. *)
MCAnalyses ==
  {t \in [1..MaxVersions -> [Streams -> SUBSET Findings]] :
     /\ \A v \in 2..MaxVersions : t[v]["push"] # t[v - 1]["push"]
     /\ t[MaxVersions]["pull"] = {}}

Symmetric == Permutations(Calls) \cup Permutations(Clients)
=============================================================================
