-------------------------- MODULE SnapshotRegister --------------------------
(***************************************************************************)
(* What the snapshot promises to whoever reads it: a register with one     *)
(* part per kind of configuration.  A commit changes the truth of one      *)
(* part; a refresh copies the truth of one part, and of that part only,    *)
(* into what is served.  Nothing else is ever served.                      *)
(***************************************************************************)
CONSTANTS
  Parts,
  Value(_)    \* Value(p): what part p may hold

VARIABLES truth, serving

vars == <<truth, serving>>

IsRegister(f) == /\ DOMAIN f = Parts
                 /\ \A p \in Parts : f[p] \in Value(p)

Init == IsRegister(truth) /\ serving = truth

Commit(p) ==
  /\ IsRegister(truth')
  /\ \A q \in Parts \ {p} : truth'[q] = truth[q]
  /\ UNCHANGED serving

Refresh(p) ==
  /\ serving' = [serving EXCEPT ![p] = truth[p]]
  /\ UNCHANGED truth

(* A restart reads everything again.                                       *)
Boot == serving' = truth /\ UNCHANGED truth

Next == (\E p \in Parts : Commit(p) \/ Refresh(p)) \/ Boot

Spec == Init /\ [][Next]_vars
=============================================================================
