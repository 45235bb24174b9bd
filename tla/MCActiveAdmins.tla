--------------------------- MODULE MCActiveAdmins ----------------------------
(* The administrators' cap on small instances.                              *)
EXTENDS ActiveAdmins, TLC

Update(role, is_active) ==
    [role |-> role, is_active |-> is_active, kind |-> "update"]
InviteAdmin == [role |-> "admin", is_active |-> "yes", kind |-> "invite"]

Demotions == {Update("contributor", "keep"), InviteAdmin}
RoleChanges == Demotions \cup {Update("admin", "keep")}
\* The role, the activity, or both.
AllChanges ==
    RoleChanges \cup {Update("keep", "yes"), Update("keep", "no"),
                      Update("admin", "yes"), Update("contributor", "no")}

\* A promotion, a reactivation and the admin console's deactivation: enough for a
\* request that counts nobody, with fewer states than all changes have.
MixedChanges ==
    {InviteAdmin, Update("admin", "keep"), Update("admin", "yes"), Update("keep", "no")}

Interchangeable == Permutations(Requests)
=============================================================================
