-------------------------------- MODULE Signer --------------------------------
(***************************************************************************)
(* The SSH certificate signer.  Every client has a certificate authority   *)
(* in the vault: a current key, a next key and metadata with the counter   *)
(* of serial numbers.  The vault takes one read or one write at a time;    *)
(* only the counter is written with a check of its version.  What is       *)
(* issued and revoked is logged in the database, where a serial number may *)
(* occur once over all clients.                                            *)
(* Keys are numbers, handed out as they are generated; 0 is no key.        *)
(***************************************************************************)
EXTENDS Integers, Sequences, FiniteSets, Functions

CONSTANTS
    Clients,        \* client id -> its row of client_ssh_configs
    Tokens,         \* access token -> claims: issuer, valid, sub, preferred, email, username
    AllowedIssuers, \* empty allows every issuer
    Directory,      \* subject -> POSIX user name in LDAP
    Principals,     \* names of the form a principal has
    defaultMaxTTL, defaultAllowedTypes, fallbackSource,
    Procs,          \* handlers that may run at the same time
    Loads           \* what may be asked of an instance, and how often

VARIABLES
    load,           \* what is asked in this behaviour
    vault,          \* client -> current, next, meta: counter and version
    keys,           \* keys generated so far
    h,              \* the handlers
    issued,         \* certificate_issuance_logs, in order
    revocations,    \* revocation_events, in order
    certs,          \* certificates handed out, in order
    advertised,     \* keys that were the next key of a client
    requests, faults

Asked == load.asked
MaxRequests == load.maxRequests
MaxFaults == load.maxFaults

vars == <<vault, keys, h, issued, revocations, certs, advertised, requests, faults>>

NoMeta == [counter |-> 0, version |-> 0]
Idle == [pc |-> "idle"]

-----------------------------------------------------------------------------
(* Who asks. *)

GetClientConfig(c) == IF c \in DOMAIN Clients THEN {Clients[c]} ELSE {}
Authenticate(r) == \E cfg \in GetClientConfig(r.client) : r.secret = cfg.secret /\ cfg.enabled
ClientAuthMiddleware(r) == Authenticate(r)
ClientRoutes == {"sign", "revoke", "jwks", "publicKey", "rotate"}

\* The address a proxy names goes before the one of the connection.
extractSourceIP(r) == IF r.forwarded # "" THEN r.forwarded ELSE r.ip

\* The first claim that is present names the principal.
extractPrincipal(claims) ==
    LET names == SelectSeq(<<claims.sub, claims.preferred, claims.email, claims.username>>, LAMBDA n : n # "")
    IN IF names = <<>> THEN "" ELSE Head(names)

ValidateAccessToken(token) ==
    IF token \notin DOMAIN Tokens THEN FALSE
    ELSE LET claims == Tokens[token]
         IN /\ claims.issuer # "" /\ (AllowedIssuers # {} => claims.issuer \in AllowedIssuers)
            /\ claims.valid /\ extractPrincipal(claims) # ""
BearerAuthMiddleware(token) == ValidateAccessToken(token)

-----------------------------------------------------------------------------
(* What may be signed. *)

StandardExtensions == {"pty", "port-forwarding", "user-rc", "agent-forwarding", "X11-forwarding"}
validExtensions == StandardExtensions \cup {"no-touch-required"}
ValidateExtensionList(names) == names \subseteq validExtensions

\* Mutant of the next one: what the client is denied is granted.
ResolveExcluded(denied, excluded) == StandardExtensions \ excluded

ResolveExtensions(denied, excluded) == StandardExtensions \ (denied \cup excluded)

maxTTL(cfg) == IF cfg.maxTTL = 0 THEN defaultMaxTTL ELSE cfg.maxTTL
allowedTypes(cfg) == IF cfg.keyTypes = {} THEN defaultAllowedTypes ELSE cfg.keyTypes

Enforce(r, cfg) ==
    /\ r.ttl > 0 /\ r.ttl <= maxTTL(cfg)
    /\ r.keyType \in allowedTypes(cfg)
    /\ cfg.sources # {} => extractSourceIP(r) \in cfg.sources

\* The directory entry of the subject has to carry the name that is asked for.
LDAPValidate(principal, subject) == subject \in DOMAIN Directory /\ Directory[subject] = principal

ValidateForClient(cfg, principal, subject) ==
    LET source == IF cfg.source = "" THEN fallbackSource ELSE cfg.source
    IN source \in {"noop", ""} \/ (source = "ldap" /\ LDAPValidate(principal, subject))

SignChecks(r) ==
    LET cfg == Clients[r.client]
    IN /\ r.principal \in Principals /\ r.keyType # ""
       /\ ValidateAccessToken(r.token)
       /\ Enforce(r, cfg)
       /\ ValidateExtensionList(cfg.denied \cup r.exclude)
       /\ ValidateForClient(cfg, r.principal, Tokens[r.token].sub)

\* The key id names the second of the signature, which is not enough to tell
\* two certificates apart.
SignCertificate(r, key, serial) ==
    [client |-> r.client, serial |-> serial, ca |-> key, keyID |-> <<r.principal, r.client>>, principal |-> r.principal,
     email |-> Tokens[r.token].email, subject |-> Tokens[r.token].sub, ttl |-> r.ttl,
     extensions |-> ResolveExtensions(Clients[r.client].denied, r.exclude)]

-----------------------------------------------------------------------------
(* Handlers: a step is one call of the vault or of the database. *)

Go(p, to) == h' = [h EXCEPT ![p] = to]
To(p, pc) == Go(p, [h[p] EXCEPT !.pc = pc])
Reply(p) == Go(p, Idle)
At(p, pc) == h[p] # Idle /\ h[p].pc = pc
KeepVault == UNCHANGED <<vault, keys, advertised>>
KeepLogs == UNCHANGED <<issued, revocations, certs, requests, faults>>

Vault(p) == vault[h[p].r.client]
WriteVault(p, slot, value) == vault' = [vault EXCEPT ![h[p].r.client][slot] = value]

readCAKey(p, slot) == Vault(p)[slot]
writeCAKey(p, slot, key) ==
    /\ WriteVault(p, slot, key)
    /\ advertised' = IF slot = "next" THEN advertised \cup {key} ELSE advertised
readMetadataWithVersion(p) == Vault(p).meta
writeMetadata(p, counter) ==
    /\ WriteVault(p, "meta", [counter |-> counter, version |-> Vault(p).meta.version + 1])
    /\ UNCHANGED <<keys, advertised>>
initMetadata(p) == writeMetadata(p, 0)

generateEd25519CAKey == keys' = keys + 1

\* Rotations are asked for by an operator, one at a time.
Rotations == {p \in Procs : h[p] # Idle /\ h[p].r.op = "rotate"}

\* A request that passes its checks; a refused one changes nothing.
Begin(p, r) ==
    /\ h[p] = Idle /\ requests < MaxRequests /\ requests' = requests + 1
    /\ ClientAuthMiddleware(r)
    /\ r.op = "sign" => SignChecks(r)
    /\ r.op = "rotate" => Rotations = {}
    /\ r.op \in ClientRoutes \ {"revoke"}
    /\ Go(p, [pc |-> IF r.op = "rotate" THEN "read next" ELSE "key", r |-> r, key |-> 0, serial |-> 0,
              seen |-> NoMeta, again |-> FALSE])
    /\ KeepVault /\ UNCHANGED <<issued, revocations, certs, faults>>

-----------------------------------------------------------------------------
(* The current key, created when there is none, without a check of its     *)
(* version.                                                                *)

CAPublicKey(p) == Reply(p)

GotKey(p, key) ==
    CASE h[p].r.op = "sign" -> Go(p, [h[p] EXCEPT !.key = key, !.pc = "serial"])
      [] h[p].r.op = "jwks" -> To(p, "jwks")
      [] OTHER              -> CAPublicKey(p)

GetCurrentCAKey(p) ==
    /\ At(p, "key")
    /\ IF readCAKey(p, "current") # 0 THEN GotKey(p, readCAKey(p, "current")) ELSE To(p, "create key")
    /\ KeepVault /\ KeepLogs

CreateCurrent(p) ==
    /\ At(p, "create key")
    /\ generateEd25519CAKey /\ writeCAKey(p, "current", keys + 1)
    /\ Go(p, [h[p] EXCEPT !.key = keys + 1, !.pc = "create meta"])
    /\ KeepLogs

CreateMetadata(p) ==
    At(p, "create meta") /\ initMetadata(p) /\ GotKey(p, h[p].key) /\ KeepLogs

\* The next key and the metadata are read for the answer.
JWKS(p) == At(p, "jwks") /\ Reply(p) /\ KeepVault /\ KeepLogs

-----------------------------------------------------------------------------
(* Signing. *)

GotSerial(p, serial) == Go(p, [h[p] EXCEPT !.serial = serial, !.pc = "log"])

ReadSerial(p) ==
    /\ At(p, "serial")
    /\ LET meta == readMetadataWithVersion(p)
       IN IF meta = NoMeta THEN To(p, "init serial") ELSE Go(p, [h[p] EXCEPT !.seen = meta, !.pc = "cas"])
    /\ KeepVault /\ KeepLogs

\* Without metadata the first serial number is 1, and the counter still 0.
InitSerial(p) == At(p, "init serial") /\ initMetadata(p) /\ GotSerial(p, 1) /\ KeepLogs

writeMetadataCAS(p) ==
    /\ At(p, "cas")
    /\ IF readMetadataWithVersion(p).version = h[p].seen.version
       THEN writeMetadata(p, h[p].seen.counter + 1) /\ GotSerial(p, h[p].seen.counter + 1)
       ELSE Reply(p) /\ KeepVault
    /\ KeepLogs

\* Mutant of the next one: the log takes a serial number twice.
NeverDuplicate(serial) == FALSE

isDuplicateKeyError(serial) == \E i \in DOMAIN issued : issued[i].serial = serial

InsertIssuanceLog(cert) == issued' = Append(issued, cert)
LogIssuance(cert) == InsertIssuanceLog(cert)

SignResponse(p) == SignCertificate(h[p].r, h[p].key, h[p].serial)

\* A serial number that is used already is replaced once by another one.
Record(p) ==
    /\ At(p, "log")
    /\ IF isDuplicateKeyError(h[p].serial)
       THEN /\ IF h[p].again THEN Reply(p) ELSE Go(p, [h[p] EXCEPT !.again = TRUE, !.pc = "serial"])
            /\ UNCHANGED <<issued, certs>>
       ELSE /\ LogIssuance(SignCertificate(h[p].r, h[p].key, h[p].serial))
            /\ certs' = Append(certs, SignResponse(p))
            /\ Reply(p)
    /\ KeepVault /\ UNCHANGED <<revocations, requests, faults>>

Sign(p) == ReadSerial(p) \/ InitSerial(p) \/ writeMetadataCAS(p) \/ Record(p)

-----------------------------------------------------------------------------
(* Rotation: five calls, and the metadata are written without a check. *)

ReadNext(p) ==
    /\ At(p, "read next") /\ Go(p, [h[p] EXCEPT !.key = readCAKey(p, "next"), !.pc = "write current"])
    /\ KeepVault /\ KeepLogs

\* Mutant of the next one: the new current key is always a fresh one.
PromoteFresh(p) ==
    /\ At(p, "write current") /\ To(p, "write next") /\ KeepLogs
    /\ generateEd25519CAKey /\ writeCAKey(p, "current", keys + 1)

PromoteNext(p) ==
    /\ At(p, "write current") /\ To(p, "write next") /\ KeepLogs
    /\ IF h[p].key # 0 THEN writeCAKey(p, "current", h[p].key) /\ UNCHANGED keys
       ELSE generateEd25519CAKey /\ writeCAKey(p, "current", keys + 1)

WriteNext(p) ==
    /\ At(p, "write next") /\ To(p, "read meta") /\ KeepLogs
    /\ generateEd25519CAKey /\ writeCAKey(p, "next", keys + 1)

ReadMetadata(p) ==
    /\ At(p, "read meta") /\ Go(p, [h[p] EXCEPT !.seen = readMetadataWithVersion(p), !.pc = "write meta"])
    /\ KeepVault /\ KeepLogs

WriteRotation(p) == At(p, "write meta") /\ writeMetadata(p, h[p].seen.counter) /\ To(p, "rotated") /\ KeepLogs

\* The keys are read once more for the answer.
RotatedKeys(p) == At(p, "rotated") /\ Reply(p) /\ KeepVault /\ KeepLogs

RotateCA(p) ==
    ReadNext(p) \/ PromoteNext(p) \/ WriteNext(p) \/ ReadMetadata(p) \/ WriteRotation(p) \/ RotatedKeys(p)

-----------------------------------------------------------------------------
(* Revocation. *)

InsertRevocationEvent(r) ==
    revocations' = Append(revocations, [serial |-> r.serial, keyID |-> r.keyID, ca |-> r.ca, at |-> Len(issued)])
LogRevocation(r) == InsertRevocationEvent(r)

\* The event names a serial number, a key id or a key of the authority.
Revoke(r) ==
    /\ r.op = "revoke" /\ requests < MaxRequests /\ requests' = requests + 1
    /\ ClientAuthMiddleware(r) /\ r.reason # "" /\ (r.serial # 0 \/ r.keyID # <<>> \/ r.ca # 0)
    /\ LogRevocation(r)
    /\ KeepVault /\ UNCHANGED <<h, issued, certs, faults>>

-----------------------------------------------------------------------------

\* A call fails and the handler answers with an error, or the process dies.
Fail(p) ==
    /\ h[p] # Idle /\ faults < MaxFaults /\ faults' = faults + 1
    /\ Reply(p) /\ KeepVault /\ UNCHANGED <<issued, revocations, certs, requests>>

Init ==
    /\ load \in Loads
    /\ vault = [c \in DOMAIN Clients |-> [current |-> 0, next |-> 0, meta |-> NoMeta]]
    /\ keys = 0 /\ advertised = {} /\ h = [p \in Procs |-> Idle]
    /\ issued = <<>> /\ revocations = <<>> /\ certs = <<>> /\ requests = 0 /\ faults = 0

\* A step of a request that was let in.
Work(p) == GetCurrentCAKey(p) \/ CreateCurrent(p) \/ CreateMetadata(p) \/ JWKS(p) \/ Sign(p) \/ RotateCA(p)

-----------------------------------------------------------------------------
(* Properties *)

\* Every certificate handed out is in the log under a serial number that no
\* other one has, although the counter may go back and a serial number may have
\* to be replaced after the certificate was signed (Handle, sign.go).
SerialsUnique ==
    \A i \in DOMAIN certs :
        /\ certs[i] \in Range(issued)
        /\ \A j \in DOMAIN certs : certs[i].serial = certs[j].serial => i = j

\* A key becomes current after it was announced as the next one, unless no
\* key was announced yet or a request still creates the client's first key
\* (RotateCA, vault/client.go).
PromotesAnnounced ==
    [][\A c \in DOMAIN Clients :
          (/\ vault'[c].current # vault[c].current /\ vault[c].next # 0
           /\ \A p \in Procs : ~At(p, "create key")) => vault'[c].current \in advertised]_vars

\* A certificate carries no more than the client's row and the user's
\* directory entry allow (Enforce, ResolveExtensions and ValidateForClient).
CertWithinPolicy ==
    \A i \in DOMAIN certs :
        LET cfg == Clients[certs[i].client]
        IN /\ cfg.enabled
           /\ certs[i].ttl \in 1..(IF cfg.maxTTL = 0 THEN defaultMaxTTL ELSE cfg.maxTTL)
           /\ certs[i].extensions \cap cfg.denied = {}
           /\ cfg.source = "ldap" => certs[i].subject \in DOMAIN Directory /\ certs[i].principal = Directory[certs[i].subject]
===============================================================================
