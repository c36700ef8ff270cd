---------------------------- MODULE MCAmiePersons ----------------------------
(***************************************************************************)
(* Two people AMIE has registered twice and a third who registers with the *)
(* address of one of them: requests that race each other, and the packets  *)
(* that merge, modify and describe them while somebody logs in.            *)
(***************************************************************************)
EXTENDS AmiePersons

CONSTANTS
    ann, dup, eve, annMail, dupMail, gAnn, gDup, merge, modify, remove, project, account, dn1, dn2, c1, c2

MCFirstEmail == [u \in Users |-> IF u = ann THEN annMail ELSE dupMail]

MCFirstDN == [d \in DNs |-> IF d = dn1 THEN dup ELSE ann]

\* The account packet and the modification are about the person that is merged away.
MCBody ==
    [p \in {merge, modify, remove, project, account} |->
        CASE p = merge  -> [kind |-> "merge", keep |-> gAnn, drop |-> gDup, retiring |-> dup]
          [] p = modify -> [kind |-> "replace", person |-> gDup, email |-> dupMail,
                           attributes |-> TRUE, dns |-> {dn1}]
          [] p = remove -> [kind |-> "delete", person |-> gAnn, dns |-> {dn2}]
          [] p = project -> [kind |-> "project", person |-> gAnn, dns |-> None]
          [] p = account -> [kind |-> "account", person |-> gDup, dns |-> {dn2}]]

Owners == [{gAnn, gDup} -> {ann, dup, None}]

\* Requests do not tell the global ids apart: one of two owners that differ by
\* exchanging the ids is enough.
Distinct ==
    {o \in Owners : \/ o[gAnn] = o[gDup] \/ o[gDup] = None \/ (o[gAnn] = ann /\ o[gDup] = dup)}

Packeted(ps) == [ops |-> {"link"}, packets |-> ps, callers |-> {c1}, owners |-> Owners, pi |-> dup, coPIs |-> {}]

MCLoads ==
    {[ops |-> {"create", "link", "update", "identity", "merge", "status", "delete", "identities"},
      packets |-> {}, callers |-> {c1, c2}, owners |-> Distinct, pi |-> dup, coPIs |-> {ann}],
     Packeted({merge, modify, account}), Packeted({merge, remove, project}), Packeted({account, modify})}
=============================================================================
