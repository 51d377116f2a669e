---------------------------- MODULE MCReceiveTask ----------------------------
(* A small instance of ReceiveTask for TLC: one client whose peer does       *)
(* everything, or two that keep sending.                                     *)
EXTENDS ReceiveTask, TLC

CONSTANTS f1, f2

MCFds == {f1, f2}
MCMixes == {(f1 :> "rich") @@ (f2 :> "absent"), (f1 :> "simple") @@ (f2 :> "simple")}
=============================================================================
