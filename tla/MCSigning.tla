------------------------------ MODULE MCSigning ------------------------------
(***************************************************************************)
(* One client validated against the directory and one that is not, two     *)
(* users with a directory entry, and one known by e-mail only.             *)
(***************************************************************************)
EXTENDS CertificateListing, TLC

Config == [secret |-> "s", enabled |-> TRUE, maxTTL |-> 2, keyTypes |-> {"ed25519"}, denied |-> {}, sources |-> {}, source |-> "noop"]
MCClients ==
    "c1" :> [Config EXCEPT !.denied = {"pty"}] @@
    "c2" :> [Config EXCEPT !.source = "ldap", !.maxTTL = 0, !.keyTypes = {}, !.sources = {"inside"}] @@
    "c3" :> [Config EXCEPT !.enabled = FALSE]

Claims == [issuer |-> "idp", valid |-> TRUE, sub |-> "", preferred |-> "", email |-> "", username |-> ""]
MCTokens == "t1" :> [Claims EXCEPT !.sub = "s1", !.email = "ann"] @@
            "t2" :> [Claims EXCEPT !.email = "bob"] @@
            "t3" :> [Claims EXCEPT !.sub = "s1", !.email = "ann", !.issuer = "other"]
MCDirectory == "s1" :> "ann" @@ "s2" :> "bob"

Request == [op |-> "sign", client |-> "c1", secret |-> "s", principal |-> "ann", keyType |-> "ed25519", token |-> "t1", ttl |-> 1,
            exclude |-> {}, ip |-> "inside", forwarded |-> "", serial |-> 0, keyID |-> <<>>, ca |-> 0, reason |-> ""]
Variants ==
    {[Request EXCEPT !.client = c, !.principal = n, !.token = t, !.ttl = l, !.exclude = e, !.forwarded = i] :
        c \in {"c1", "c2", "c3", "c4"}, n \in {"ann", "bob", "A B"}, t \in {"t1", "t2", "t3"}, l \in {0, 2, 3},
        e \in {{}, {"user-rc"}, {"unknown"}}, i \in {"", "outside"}}
    \cup {[Request EXCEPT !.op = "revoke", !.reason = "left", !.serial = 1],
          [Request EXCEPT !.secret = "wrong"], [Request EXCEPT !.keyType = "dsa"]}

Quiet == [procs |-> Procs, asked |-> {}, maxRequests |-> 0, maxFaults |-> 0,
          issuers |-> {}, maxTime |-> 0, maxRuns |-> 0, maxChanges |-> 0, maxTrustFaults |-> 0]

Races(ops) == {[Request EXCEPT !.op = o] : o \in ops}

\* Requests that race for serial numbers and with a rotation, with and without
\* a failure; every kind of request to one handler; both parts together; the
\* caches of three issuers, of one that several requests wait for, of two over
\* a longer time, and of one with faults and changes.
MCLoads ==
    {[Quiet EXCEPT !.asked = Races({"sign", "rotate"}), !.maxRequests = 4],
     [Quiet EXCEPT !.asked = Races({"sign", "rotate", "publicKey", "jwks"}), !.maxRequests = 3, !.maxFaults = 1],
     [Quiet EXCEPT !.procs = {"p1"}, !.asked = Variants, !.maxRequests = 2],
     [Quiet EXCEPT !.asked = {[Request EXCEPT !.client = "c2"]}, !.maxRequests = 2, !.maxFaults = 1,
                   !.issuers = {"i1"}, !.maxRuns = 2, !.maxChanges = 1],
     [Quiet EXCEPT !.issuers = {"i1", "i2", "i3"}, !.maxRuns = 3],
     [Quiet EXCEPT !.issuers = {"i1"}, !.maxTime = 2, !.maxRuns = 3],
     [Quiet EXCEPT !.procs = {"p1"}, !.issuers = {"i1", "i2"}, !.maxTime = 4, !.maxRuns = 3],
     [Quiet EXCEPT !.issuers = {"i1"}, !.maxTime = 2, !.maxRuns = 2, !.maxChanges = 1, !.maxTrustFaults = 1]}
=============================================================================
