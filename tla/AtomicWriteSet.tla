--------------------------- MODULE AtomicWriteSet ---------------------------
(***************************************************************************)
(* What the commit journal promises of a set of write sets: each one is    *)
(* clean, with none of its writes made; open, with some of them; or        *)
(* committed, with all of them.  It never moves between clean and          *)
(* committed without passing through a state that says it is open, and a   *)
(* committed one is only ever forgotten.                                   *)
(***************************************************************************)
CONSTANTS
  Txns,       \* the write sets
  Writes,     \* Writes[j]: the paths of write set j
  Redoable    \* those a new attempt may supersede once the tree is back

VARIABLES status, effect
vars == <<status, effect>>

Init == /\ status = [j \in Txns |-> "clean"]
        /\ effect = [j \in Txns |-> {}]

Move(j, from, to) == /\ status[j] = from
                     /\ status' = [status EXCEPT ![j] = to]

Begin(j)  == Move(j, "clean", "open") /\ UNCHANGED effect
Apply(j)  == /\ status[j] = "open"
             /\ \E p \in Writes[j] : effect' = [effect EXCEPT ![j] = @ \cup {p}]
             /\ UNCHANGED status
Revert(j) == /\ status[j] = "open"
             /\ \E p \in Writes[j] : effect' = [effect EXCEPT ![j] = @ \ {p}]
             /\ UNCHANGED status
Commit(j) == Move(j, "open", "committed") /\ effect[j] = Writes[j] /\ UNCHANGED effect
Abort(j)  == Move(j, "open", "clean") /\ effect[j] = {} /\ UNCHANGED effect
Supersede(j) == /\ j \in Redoable
                /\ Move(j, "open", "clean")
                /\ effect' = [effect EXCEPT ![j] = {}]

(* Retention drops the record of any number of committed write sets. *)
Forget == \E gone \in SUBSET {j \in Txns : status[j] = "committed"} :
  /\ status' = [j \in Txns |-> IF j \in gone THEN "clean" ELSE status[j]]
  /\ effect' = [j \in Txns |-> IF j \in gone THEN {} ELSE effect[j]]

Next == \/ \E j \in Txns : \/ Begin(j) \/ Apply(j) \/ Revert(j)
                           \/ Commit(j) \/ Abort(j) \/ Supersede(j)
        \/ Forget

Spec == Init /\ [][Next]_vars
=============================================================================
