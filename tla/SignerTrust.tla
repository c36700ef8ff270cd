----------------------------- MODULE SignerTrust -----------------------------
(***************************************************************************)
(* What the certificate signer remembers about those it trusts while it    *)
(* checks a request: the keys of the token's issuer, fetched by one of the *)
(* requests that need them and cached; the credentials for the directory   *)
(* of the client, cached too; and one directory connection per client.     *)
(* Key sets and credentials are numbers, a higher one replacing a lower.   *)
(***************************************************************************)
EXTENDS Integers, FiniteSets

CONSTANTS
    Requests, Issuers, Clients,
    cacheTTL, negativeTTL, httpTimeout, maxProviders

VARIABLES
    load,           \* what is asked in this behaviour
    now,
    published,      \* issuer -> its key set
    cache,          \* issuer -> keys, when the issuer gave them, when they were stored
    flight,         \* issuer -> the one fetch under way
    secret,         \* client -> the credentials in the vault, which the directory accepts
    changed,        \* client -> when they were changed
    credCache,      \* client -> credentials or error, and when they were stored
    validators,     \* client -> the credentials its validator was made with
    conn,           \* client -> "none", "up" or "stale"
    h,              \* requests
    runs, changes, faults

MaxTime == load.maxTime         \* the clock stops here
MaxRuns == load.maxRuns         \* how often requests are made
MaxChanges == load.maxChanges   \* new key sets, new credentials, dropped connections
MaxFaults == load.maxTrustFaults

vars == <<now, published, cache, flight, secret, changed, credCache, validators, conn, h, runs, changes, faults>>

NoFlight == [pc |-> "none"]
Idle == [pc |-> "idle"]
Err == -1
keysVars == <<published, cache, flight>>
credVars == <<credCache, validators, conn>>
envVars == <<now, secret, changed, runs, changes>>

Go(r, to) == h' = [h EXCEPT ![r] = to]
At(r, pc) == h[r].pc = pc
Reply(r, answer) == Go(r, [pc |-> "replied", client |-> h[r].client, began |-> h[r].began, answer |-> answer])

-----------------------------------------------------------------------------
(* The issuer's keys. *)

\* Mutant of the next one: cached keys are used however old they are.
FreshForever(issuer) == issuer \in DOMAIN cache

FreshKeys(issuer) == issuer \in DOMAIN cache /\ now - cache[issuer].at < cacheTTL

\* Cached keys are used at once.
getJWKS(r, issuer, client) ==
    /\ h[r] = Idle /\ issuer \in load.issuers /\ runs < MaxRuns /\ runs' = runs + 1
    /\ Go(r, IF FreshKeys(issuer)
             THEN [pc |-> "creds", client |-> client, began |-> now, keysAge |-> now - cache[issuer].read]
             ELSE [pc |-> "miss", issuer |-> issuer, client |-> client, began |-> now])
    /\ UNCHANGED <<now, published, cache, flight, secret, changed, changes, faults>> /\ UNCHANGED credVars

\* Otherwise the request waits for the fetch that is under way, or starts one;
\* the keys may have come since it looked.
Join(r) ==
    /\ At(r, "miss") /\ Go(r, [h[r] EXCEPT !.pc = "wait"])
    /\ flight' = [flight EXCEPT ![h[r].issuer] = IF @ = NoFlight THEN [pc |-> "lead"] ELSE @]
    /\ UNCHANGED <<published, cache, faults>> /\ UNCHANGED credVars /\ UNCHANGED envVars

\* Mutant of the next one: only one of those that wait is told.
WaitingFirst(issuer) ==
    LET all == {r \in Requests : At(r, "wait") /\ h[r].issuer = issuer} IN {CHOOSE r \in all : TRUE}

Waiting(issuer) == {r \in Requests : At(r, "wait") /\ h[r].issuer = issuer}

\* The outcome of a fetch goes to everyone who waits for it.
Deliver(issuer, outcome) ==
    /\ flight' = [flight EXCEPT ![issuer] = NoFlight]
    /\ h' = [r \in Requests |-> IF r \in Waiting(issuer) THEN outcome[r] ELSE h[r]]

WithKeys(r, read) == [pc |-> "creds", client |-> h[r].client, began |-> h[r].began, keysAge |-> now - read]
Refused(r) == [pc |-> "replied", client |-> h[r].client, began |-> h[r].began, answer |-> "invalid_token"]

\* The cache is looked at once more before the issuer is asked.
LookAgain(issuer) ==
    /\ flight[issuer].pc = "lead"
    /\ IF FreshKeys(issuer) THEN Deliver(issuer, [r \in Waiting(issuer) |-> WithKeys(r, cache[issuer].read)])
       ELSE flight' = [flight EXCEPT ![issuer] = [pc |-> "fetch", since |-> now]] /\ UNCHANGED h
    /\ UNCHANGED <<published, cache, faults>> /\ UNCHANGED credVars /\ UNCHANGED envVars

fetchJWKSFromIssuer(issuer) ==
    /\ flight[issuer].pc = "fetch"
    /\ flight' = [flight EXCEPT ![issuer] = [pc |-> "store", since |-> @.since, keys |-> published[issuer], read |-> now]]
    /\ UNCHANGED <<published, cache, h, faults>> /\ UNCHANGED credVars /\ UNCHANGED envVars

\* The issuer cannot be asked, or the request that fetches is cancelled.
FetchFails(issuer) ==
    /\ flight[issuer].pc = "fetch" /\ faults < MaxFaults /\ faults' = faults + 1
    /\ Deliver(issuer, [r \in Waiting(issuer) |-> Refused(r)])
    /\ UNCHANGED <<published, cache>> /\ UNCHANGED credVars /\ UNCHANGED envVars

Oldest == {k \in DOMAIN cache : \A j \in DOMAIN cache : cache[k].at <= cache[j].at}

\* Mutant of the next one: the newest entry is evicted.
EvictNewest ==
    IF Cardinality(DOMAIN cache) < maxProviders THEN {{}}
    ELSE {{k} : k \in {k \in DOMAIN cache : \A j \in DOMAIN cache : cache[k].at >= cache[j].at}}

\* What may be evicted: nothing while there is room, and one of the oldest
\* entries, which are in no order, when there is none.
Evict == IF Cardinality(DOMAIN cache) < maxProviders THEN {{}} ELSE {{k} : k \in Oldest}

StoreKeys(issuer) ==
    /\ flight[issuer].pc = "store"
    /\ \E gone \in Evict :
           LET kept == (DOMAIN cache \ gone) \cup {issuer}
               entry == [keys |-> flight[issuer].keys, read |-> flight[issuer].read, at |-> now]
           IN cache' = [i \in kept |-> IF i = issuer THEN entry ELSE cache[i]]
    /\ Deliver(issuer, [r \in Waiting(issuer) |-> WithKeys(r, flight[issuer].read)])
    /\ UNCHANGED <<published, faults>> /\ UNCHANGED credVars /\ UNCHANGED envVars

-----------------------------------------------------------------------------
(* The credentials for the directory, and the directory. *)

ttl(creds) == IF creds = Err THEN negativeTTL ELSE cacheTTL

\* Where credentials that were found lead.
WithCreds(r, creds, age) ==
    IF creds = Err THEN [pc |-> "replied", client |-> h[r].client, began |-> h[r].began, answer |-> "unavailable", errAge |-> age]
    ELSE [pc |-> "validator", client |-> h[r].client, began |-> h[r].began, creds |-> creds]

fetchCredentials(r) ==
    /\ At(r, "creds")
    /\ LET c == h[r].client
       IN IF c \in DOMAIN credCache /\ now - credCache[c].at < ttl(credCache[c].creds)
          THEN Go(r, WithCreds(r, credCache[c].creds, now - credCache[c].at))
          ELSE Go(r, [pc |-> "vault", client |-> c, began |-> h[r].began])
    /\ UNCHANGED keysVars /\ UNCHANGED credVars /\ UNCHANGED envVars /\ UNCHANGED faults

GetValidationCredentials(r) ==
    /\ At(r, "vault")
    /\ \/ Go(r, [pc |-> "keep", client |-> h[r].client, began |-> h[r].began, creds |-> secret[h[r].client]]) /\ UNCHANGED faults
       \/ /\ faults < MaxFaults /\ faults' = faults + 1
          /\ Go(r, [pc |-> "keep", client |-> h[r].client, began |-> h[r].began, creds |-> Err])
    /\ UNCHANGED keysVars /\ UNCHANGED credVars /\ UNCHANGED envVars

StoreCredentials(r) ==
    /\ At(r, "keep")
    /\ credCache' = [c \in DOMAIN credCache \cup {h[r].client} |->
                        IF c = h[r].client THEN [creds |-> h[r].creds, at |-> now] ELSE credCache[c]]
    /\ Go(r, WithCreds(r, h[r].creds, 0))
    /\ UNCHANGED <<validators, conn, faults>> /\ UNCHANGED keysVars /\ UNCHANGED envVars

\* The validator a client has is kept, whatever the credentials now are.
getOrCreateValidator(r) ==
    /\ At(r, "validator")
    /\ validators' = [c \in DOMAIN validators \cup {h[r].client} |->
                        IF c \in DOMAIN validators THEN validators[c] ELSE h[r].creds]
    /\ Go(r, [pc |-> "search", client |-> h[r].client, began |-> h[r].began])
    /\ UNCHANGED <<credCache, conn, faults>> /\ UNCHANGED keysVars /\ UNCHANGED envVars

\* A connection can be made with the credentials of the validator.
ensureConn(c) == validators[c] = secret[c]

\* The search succeeds, the second time on a new connection.
searchLDAP(c) == conn[c] = "up" \/ ensureConn(c)

\* The whole of it under the validator's lock.
Validate(r) ==
    /\ At(r, "search")
    /\ LET c == h[r].client
       IN /\ conn' = [conn EXCEPT ![c] = IF searchLDAP(c) THEN "up" ELSE "none"]
          /\ Reply(r, IF searchLDAP(c) THEN "allowed" ELSE "unreachable")
    /\ UNCHANGED <<credCache, validators, faults>> /\ UNCHANGED keysVars /\ UNCHANGED envVars

-----------------------------------------------------------------------------
(* Around it. *)

Done(r) ==
    /\ At(r, "replied") /\ Go(r, Idle)
    /\ UNCHANGED keysVars /\ UNCHANGED credVars /\ UNCHANGED envVars /\ UNCHANGED faults

\* A fetch is given up when its time is over, so time waits for it; what the
\* vault answers is stored at once.
Tick ==
    /\ now < MaxTime /\ now' = now + 1
    /\ \A r \in Requests : ~At(r, "keep")
    /\ \A i \in Issuers : flight[i].pc \in {"fetch", "store"} => now < flight[i].since + httpTimeout
    /\ UNCHANGED keysVars /\ UNCHANGED credVars /\ UNCHANGED <<secret, changed, h, runs, changes, faults>>

Change == changes < MaxChanges /\ changes' = changes + 1 /\ UNCHANGED <<now, runs, faults, h>>

NewKeys(i) ==
    /\ Change /\ published' = [published EXCEPT ![i] = @ + 1]
    /\ UNCHANGED <<cache, flight, secret, changed>> /\ UNCHANGED credVars

NewCredentials(c) ==
    /\ Change /\ secret' = [secret EXCEPT ![c] = @ + 1] /\ changed' = [changed EXCEPT ![c] = now]
    /\ UNCHANGED keysVars /\ UNCHANGED credVars

\* The directory closes a connection.
Drop(c) ==
    /\ Change /\ conn[c] = "up" /\ conn' = [conn EXCEPT ![c] = "stale"]
    /\ UNCHANGED <<secret, changed, credCache, validators>> /\ UNCHANGED keysVars

Init ==
    /\ now = 0 /\ published = [i \in Issuers |-> 1] /\ cache = [i \in {} |-> {}] /\ flight = [i \in Issuers |-> NoFlight]
    /\ secret = [c \in Clients |-> 1] /\ changed = [c \in Clients |-> 0]
    /\ credCache = [c \in {} |-> {}] /\ validators = [c \in {} |-> 0] /\ conn = [c \in Clients |-> "none"]
    /\ h = [r \in Requests |-> Idle] /\ runs = 0 /\ changes = 0 /\ faults = 0

Flight(i) == LookAgain(i) \/ fetchJWKSFromIssuer(i) \/ FetchFails(i) \/ StoreKeys(i)
Step(r) ==
    \/ Join(r) \/ fetchCredentials(r) \/ GetValidationCredentials(r) \/ StoreCredentials(r)
    \/ getOrCreateValidator(r) \/ Validate(r) \/ Done(r)

Environment ==
    \/ \E i \in load.issuers : NewKeys(i)
    \/ \E c \in Clients : NewCredentials(c) \/ Drop(c)
    \/ Tick

-----------------------------------------------------------------------------
(* Properties *)

\* What is cached stays bounded and does not outlive its time.  There are never the
\* keys of more issuers than there may be; a token is checked against keys that
\* its issuer published at most the lifetime of an entry and the time of a fetch
\* ago (getJWKS, oidc_validator.go); a failure to read credentials is reported for
\* the shorter time only (fetchCredentials, dispatcher.go); and, while the
\* credentials stay what they are, a pooled connection that the directory closed
\* does not make a check fail (Validate, ldap.go).
CachesSound ==
    /\ Cardinality(DOMAIN cache) <= maxProviders
    /\ \A r \in Requests :
          /\ At(r, "creds") => h[r].keysAge <= cacheTTL + httpTimeout
          /\ At(r, "replied") /\ h[r].answer = "unavailable" => h[r].errAge < negativeTTL
          /\ At(r, "replied") /\ h[r].answer = "unreachable" => secret[h[r].client] > 1

\* Fetching the keys of a known issuer again pushes no other issuer's keys out
\* while they are fresh (getJWKS).
RefreshKeepsFresh ==
    [][\A i, j \in DOMAIN cache :
          (i # j /\ i \in DOMAIN cache' /\ cache'[i] # cache[i] /\ FreshKeys(j)) => j \in DOMAIN cache']_<<cache>>

=============================================================================
