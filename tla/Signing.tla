------------------------------- MODULE Signing -------------------------------
(***************************************************************************)
(* The certificate signer as a whole.  A request to sign by a client whose *)
(* principals are looked up in the directory first goes through the caches *)
(* of SignerTrust and, when it is allowed, takes a serial number and signs *)
(* as in Signer.  What the other requests need is checked where they       *)
(* begin.                                                                  *)
(***************************************************************************)
EXTENDS Signer

CONSTANTS
    Issuers, cacheTTL, negativeTTL, httpTimeout, maxProviders

\* Lifetimes are whole seconds, and at least one issuer's keys may be cached.
ASSUME SigningAssumption ==
    /\ \A c \in DOMAIN Clients : Clients[c].maxTTL \in Nat
    /\ defaultMaxTTL \in Nat
    /\ \A l \in Loads : l.procs \subseteq Procs /\ \A r \in l.asked : r.ttl \in Int
    /\ cacheTTL \in Nat /\ negativeTTL \in Nat \ {0} /\ httpTimeout \in Nat /\ maxProviders \in Nat \ {0}

VARIABLES
    now, published, cache, flight, secret, changed, credCache, validators, conn, checks, runs, changes, trustFaults

trustVars == <<now, published, cache, flight, secret, changed, credCache, validators, conn, checks, runs, changes, trustFaults>>

\* The clients whose principals are looked up in the directory.
LDAPClients == {c \in DOMAIN Clients : Clients[c].source = "ldap"}

T == INSTANCE SignerTrust WITH Requests <- Procs, Clients <- LDAPClients, h <- checks, faults <- trustFaults

\* The token, the policy and the principal are checked before a key is read;
\* with caches that are not followed the check is the guard of Begin alone.
Handle(p, r) ==
    /\ Begin(p, r)
    /\ IF load.maxRuns > 0 /\ r.op = "sign" /\ r.client \in LDAPClients
       THEN T!At(p, "replied") /\ checks[p].answer = "allowed" /\ checks[p].client = r.client /\ T!Done(p)
       ELSE T!At(p, "idle") /\ UNCHANGED trustVars

SigningInit == Init /\ T!Init

SigningNext ==
    /\ UNCHANGED load
    /\ \/ \E p \in load.procs, r \in Asked : Handle(p, r)
       \/ (\E p \in Procs : Work(p) \/ Fail(p)) /\ UNCHANGED trustVars
       \/ (\E r \in Asked : Revoke(r)) /\ UNCHANGED trustVars
       \/ (\E p \in load.procs, i \in Issuers, c \in LDAPClients : h[p] = Idle /\ T!getJWKS(p, i, c)) /\ UNCHANGED vars
       \/ ((\E i \in Issuers : T!Flight(i)) \/ (\E p \in Procs : T!Step(p)) \/ T!Environment) /\ UNCHANGED vars

\* A fetch ends by its timeout, every call of the vault and the database
\* returns, and every goroutine runs on.
SigningSpec ==
    /\ SigningInit /\ [][SigningNext]_<<load, vars, trustVars>>
    /\ \A i \in Issuers : WF_trustVars(T!Flight(i))
    /\ \A p \in Procs : WF_trustVars(T!Step(p)) /\ WF_vars(Work(p))

-----------------------------------------------------------------------------
(* Properties *)

\* What is cached stays bounded and does not outlive its time: no more issuers
\* than there may be, no keys older than the lifetime of an entry and the time of
\* a fetch, no failure repeated past the shorter time, no check that fails for a
\* pooled connection the directory has closed (getJWKS, oidc_validator.go;
\* fetchCredentials, dispatcher.go; Validate, ldap.go).
CachesSound == T!CachesSound

\* Fetching the keys of a known issuer again pushes no other issuer's keys out
\* while they are fresh (getJWKS).
RefreshKeepsFresh == T!RefreshKeepsFresh

\* Every request is answered: the ones that wait for somebody else's fetch,
\* and the ones that lose the race for a serial number (getJWKS and
\* IncrementSerialCounter).
Answered == \A p \in Procs : (checks[p] # T!Idle \/ h[p] # Idle) ~> (checks[p] = T!Idle /\ h[p] = Idle)
=============================================================================
