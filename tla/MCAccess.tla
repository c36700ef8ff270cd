------------------------------- MODULE MCAccess -------------------------------
(***************************************************************************)
(* Small instances of Access.                                              *)
(***************************************************************************)
EXTENDS Access

CONSTANTS root, ada, super, staff, c1, c2

MCPrivs == {PrivilegesGrant, RolesManage}
MCNames == {SystemRoleSuperAdmin, "staff"}

\* Every administrative request; direct grants go to one of the users.
AskAll == {o \in Requests : o.op # "me" /\ (o.op \in {"grantPriv", "revokePriv"} => o.user = ada)}
\* Direct grants of privileges:grant come and go while ada makes requests of their own;
\* root's, once made, stays, so that ada's is not the last.
AskDirect == {o \in Requests : (o.actor = ada /\ o.op = "me")
                 \/ (o.op \in {"grantPriv", "revokePriv"} /\ o.priv = PrivilegesGrant
                      /\ (o.user = ada \/ (o.op = "grantPriv" /\ o.actor = root)))}

MCLoads == {[asked |-> AskAll, callers |-> {c1}, restarts |-> TRUE, maxTime |-> 0],
            [asked |-> AskDirect, callers |-> {c1, c2}, restarts |-> FALSE, maxTime |-> 2]}
=============================================================================
