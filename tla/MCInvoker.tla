----------------------------- MODULE MCInvoker -----------------------------
(* Invoker on small instances; names and threads are alike.                *)
EXTENDS InvokerService, TLC

Symmetry == Permutations(Names) \cup Permutations(Invokers)
=============================================================================
