-------------------------- MODULE MCStoreLifecycle --------------------------
EXTENDS StoreLifecycle, TLC

CONSTANTS m1, m2, m3

(* Two models of one width, and a wide one. *)
MCWidth == m1 :> 1 @@ m2 :> 1 @@ m3 :> 2

=============================================================================
