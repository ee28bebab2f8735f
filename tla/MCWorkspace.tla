------------------------------ MODULE MCWorkspace ------------------------------
(***************************************************************************)
(* Workspace for TLC: two tenants with one owner each, who may do all that *)
(* any role may, and a legacy file.                                        *)
(***************************************************************************)
EXTENDS Workspace, TLC

CONSTANTS A, B, alice, bob

MCTenantOf == alice :> A @@ bob :> B
MCRoleOf == alice :> "owner" @@ bob :> "owner"

\* The tenants with their users are interchangeable.
Swap == A :> B @@ B :> A @@ alice :> bob @@ bob :> alice

Symmetry ==
  Permutations(Files \ LegacyFiles) \cup Permutations(Reports)
    \cup Permutations(Requests) \cup Permutations(Jobs) \cup {Swap}

===============================================================================
