----------------------------- MODULE AmieHandlers -----------------------------
(***************************************************************************)
(* The AMIE handlers that create things (AmieProvisioning) and those that  *)
(* take them out of service and back (AmieStatus) in one specification.    *)
(* The two write tables of their own here, so a behaviour delivers packets *)
(* of one family and the other family stays idle.                          *)
(***************************************************************************)
EXTENDS AmieProvisioning

CONSTANTS StatusLoads, Allocs, Users, PI

\* Packets are numbered as they arrive; what they say of a person names a user.
ASSUME StatusAssumption ==
    /\ PI \in Users /\ "none" \notin Allocs
    /\ \A l \in StatusLoads :
          /\ DOMAIN l.body \subseteq Nat \ {0}
          /\ \A p \in DOMAIN l.body :
                /\ l.body[p].kind \in {"project_inactivate", "project_reactivate",
                                      "account_inactivate", "account_reactivate"}
                /\ l.body[p].known \in BOOLEAN
                /\ l.body[p].kind \in {"account_inactivate", "account_reactivate"} => l.body[p].person \in Users

VARIABLES tour, project, alloc, member, recorded, event, tries, audit, handling, pc, allocsLeft, inside, usersLeft,
          log, touched, failures

S == INSTANCE AmieStatus WITH Loads <- StatusLoads, load <- tour, diffs <- recorded, attempts <- tries,
                              cur <- handling, at <- inside

statusVars == <<tour, project, alloc, member, recorded, event, tries, audit, handling, pc, allocsLeft, inside, usersLeft,
                log, touched, failures>>

HandlersInit == Init /\ S!Init /\ (Packets = {} <=> S!Packets # {})

CreatingHandlers == Packets # {} /\ Next /\ UNCHANGED statusVars
StatusHandlers == Packets = {} /\ S!Next /\ UNCHANGED vars

HandlersNext == CreatingHandlers \/ StatusHandlers

HandlersSpec == HandlersInit /\ [][HandlersNext]_<<vars, statusVars>>

-----------------------------------------------------------------------------
(* Properties. *)

\* A status packet is only answered and committed once everything it asks for is in place, however many
\* attempts failed half way, as long as nobody joins over HTTP meanwhile; and every membership that any
\* of its attempts has written has an audit row.
CommitFindsApplied == S!CommitFindsApplied

=============================================================================
