--------------------------- MODULE MCTenantSessions ---------------------------
(***************************************************************************)
(* Two organisations; the owner of the first is a manager of the second.    *)
(* That of the second has been deactivated, and is a member by an older     *)
(* token only; the third user has no account.                               *)
(***************************************************************************)
EXTENDS TenantSessions, TLC

CONSTANTS u1, u2, u3, o1, o2, o3

MCFoundsOf == u1 :> o1 @@ u2 :> o2 @@ u3 :> o3

MCMembers ==
  <<Membership(u1, o1, "owner", "active"),
    Membership(u2, o2, "owner", "active"),
    Membership(u1, o2, "procurement_manager", "active")>>

RequestSymmetry == Permutations(Requests) \cup Permutations(Connections)

=============================================================================
