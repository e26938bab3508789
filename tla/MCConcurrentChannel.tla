-------------------------- MODULE MCConcurrentChannel --------------------------
(***************************************************************************)
(* Small instances of ConcurrentChannel for TLC.                           *)
(***************************************************************************)
EXTENDS ConcurrentChannel, TLC

CONSTANTS t1, t2, f1, f2, f3, e1, e2, e3

\* The second thread and its fibre are in another process.
TwoProcesses == [x \in Thread \cup Fibre |-> IF x \in {t2, f3} THEN 2 ELSE 1]

\* An endpoint for each fibre, one for two fibres, one for all, or one for two
\* fibres of which the first may give copies to a third.
Programs == {f1 :> e1 @@ f2 :> e2 @@ f3 :> e3,
             f1 :> e1 @@ f2 :> e2 @@ f3 :> e1,
             [f \in Fibre |-> e1],
             f1 :> e1 @@ f2 :> None @@ f3 :> e1}
=============================================================================
