-------------------------- MODULE MCWorkspacePages --------------------------
(* A small instance of WorkspacePages for TLC. *)
EXTENDS WorkspacePages

CONSTANTS w1, w2, a1, a2

MCWorkspaces == {w1, w2}
MCAccounts == {a1, a2}
\* The owner of one workspace on the largest plan, the editor of another.
MCRoleIn == [w \in MCWorkspaces |-> IF w = w1 THEN "owner" ELSE "editor"]
MCFeaturesOf == [w \in MCWorkspaces |-> IF w = w1 THEN Features ELSE {"campaigns"}]
\* The two accounts share a workspace, or one of them has none yet.
MCFirstLists == {[a \in MCAccounts |-> IF a = a1 THEN <<w2, w1>> ELSE <<w2>>],
                 [a \in MCAccounts |-> IF a = a1 THEN <<w1>> ELSE << >>]}
\* One page of each kind; the others differ from one of these in nothing that a
\* state tells apart.
MCPages == {"overview", "qrCodes", "campaigns", "team", "webhooks", "auditLog", "create",
            "integrations", "settings", "branding", "edit", "history"}
=============================================================================
