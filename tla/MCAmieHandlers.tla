---------------------------- MODULE MCAmieHandlers ----------------------------
(***************************************************************************)
(* Small instances of AmieHandlers: one grant that is created and then     *)
(* supplemented, an account on it, and an account on an unknown project;   *)
(* a project of two allocations taken out of service and back.             *)
(***************************************************************************)
EXTENDS AmieHandlers, TLC

CONSTANTS create, supplement, account, stray, ann, bob, annMail, bobMail,
          grant1, grant2

Packet(kind, person, g, su, asked) ==
    [kind |-> kind, person |-> person, grant |-> g, su |-> su, role |-> asked]

\* The supplement names another PI than the creation does.
TwoPIs == (create :> Packet("project", ann, grant1, 2, "PI"))
       @@ (supplement :> Packet("project", bob, grant1, 1, "PI"))
       @@ (account :> Packet("account", bob, grant1, 0, "CO_PI"))

\* Both name the same PI; the accounts are another person's.
OnePIOnly == (create :> Packet("project", ann, grant1, 2, "PI"))
       @@ (supplement :> Packet("project", ann, grant1, 1, "PI"))
OnePIBody == OnePIOnly @@ (account :> Packet("account", bob, grant1, 0, "MEMBER"))
                       @@ (stray :> Packet("account", bob, grant2, 0, "MEMBER"))

NoPackets == [body |-> <<>>, suffixes |-> 1]
MCLoads == {[body |-> TwoPIs, suffixes |-> 2], [body |-> OnePIBody, suffixes |-> 1], NoPackets}
GrantLoads == {[body |-> OnePIOnly, suffixes |-> 2]}

MCEmailOf == [g \in Persons |-> IF g = ann THEN annMail ELSE bobMail]

\* Both users ask for the same login.
SameBase == [u \in Emails |-> "jdoe"]

Pkt(kind, person, known) == [kind |-> kind, person |-> person, known |-> known]
Suspended == <<Pkt("project_inactivate", "none", TRUE), Pkt("project_reactivate", "none", TRUE),
               Pkt("account_reactivate", "u2", TRUE), Pkt("account_inactivate", "u1", TRUE)>>
Unknown == <<Pkt("project_inactivate", "none", FALSE), Pkt("project_inactivate", "none", TRUE)>>

NoTour == [body |-> <<>>, members |-> {}, joins |-> {}, failures |-> 0]
MCTours == {[body |-> Suspended, members |-> {<<"a1", "u1">>, <<"a1", "u2">>, <<"a2", "u2">>}, joins |-> {}, failures |-> 3],
            [body |-> Unknown, members |-> {<<"a1", "u1">>}, joins |-> {<<"a1", "u2">>}, failures |-> 2], NoTour}
NoTours == {NoTour}
=============================================================================
