----------------------------- MODULE MCHandoff -----------------------------
(* Small instances of Handoff for TLC. *)
EXTENDS Handoff, TLC

CONSTANTS alice, bob, carol, home, cafe

(* alice is alone at her address, bob and carol share one. *)
Homes == (alice :> home) @@ (bob :> cafe) @@ (carol :> cafe)
Characters == (alice :> "tutored") @@ (bob :> "new") @@ (carol :> "none")
=============================================================================
