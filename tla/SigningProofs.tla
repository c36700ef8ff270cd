---------------------------- MODULE SigningProofs ----------------------------
(***************************************************************************)
(* Proofs about Signing, for every set of clients, tokens and issuers, any *)
(* lifetimes, any number of handlers and requests, and any faults: what is *)
(* signed, under which serial number, and with which key of the authority  *)
(* (GInv); and what the signer remembers while it checks a request, the    *)
(* keys of issuers, credentials and directory connections (TInv).          *)
(***************************************************************************)
EXTENDS Signing, TLAPS

SignSteps == {"serial", "init serial", "cas", "log"}
KeySteps == {"key", "create key", "create meta", "jwks"}
RotateSteps == {"read next", "write current", "write next", "read meta", "write meta", "rotated"}

Meta == [counter : Nat, version : Nat]
Busy == [pc : SignSteps \cup KeySteps \cup RotateSteps, r : Asked, key : Nat, serial : Nat, seen : Meta, again : BOOLEAN]
Certificates ==
    [client : DOMAIN Clients, serial : Nat, ca : Nat, keyID : Principals \X DOMAIN Clients, principal : Principals,
     email : {Tokens[t].email : t \in DOMAIN Tokens}, subject : {Tokens[t].sub : t \in DOMAIN Tokens}, ttl : Nat,
     extensions : SUBSET StandardExtensions]

GType ==
    /\ load \in Loads
    /\ vault \in [DOMAIN Clients -> [current : Nat, next : Nat, meta : Meta]]
    /\ keys \in Nat
    /\ h \in [Procs -> {Idle} \cup Busy]
    /\ issued \in Seq(Certificates)

\* A handler passed its checks, and only the one that signs takes a serial number.
Allowed(b) ==
    /\ b.r.client \in DOMAIN Clients /\ Clients[b.r.client].enabled
    /\ b.r.op = "sign" => SignChecks(b.r)
    /\ b.pc \in SignSteps => b.r.op = "sign"
    /\ b.pc \in RotateSteps <=> b.r.op = "rotate"
Passed == \A p \in Procs : h[p] # Idle => Allowed(h[p])

\* What the client's row and the directory allow.
Within(cert) ==
    LET cfg == Clients[cert.client]
    IN /\ cfg.enabled
       /\ cert.ttl \in 1..(IF cfg.maxTTL = 0 THEN defaultMaxTTL ELSE cfg.maxTTL)
       /\ cert.extensions \cap cfg.denied = {}
       /\ cfg.source = "ldap" => cert.subject \in DOMAIN Directory /\ cert.principal = Directory[cert.subject]

\* A certificate is handed out when it is logged, and the log has a serial number once.
Logged ==
    /\ certs = issued
    /\ \A i, j \in DOMAIN issued : issued[i].serial = issued[j].serial => i = j
    /\ \A i \in DOMAIN issued : Within(issued[i])

\* There is one rotation, so the next key it has read is still the client's next key.
Rotating ==
    /\ \A p, q \in Procs : h[p] # Idle /\ h[q] # Idle /\ h[p].r.op = "rotate" /\ h[q].r.op = "rotate" => p = q
    /\ \A c \in DOMAIN Clients : vault[c].next # 0 => vault[c].next \in advertised
    /\ \A p \in Procs : At(p, "write current") => h[p].key = vault[h[p].r.client].next

GInv == GType /\ Passed /\ Logged /\ Rotating

-----------------------------------------------------------------------------
(* Signing and the keys of the authorities. *)

\* No authority, no handler and no certificate at the start.
LEMMA InitGInv == SigningInit => GInv
<1> SUFFICES ASSUME SigningInit PROVE GInv
  OBVIOUS
<1> USE DEF SigningInit, Init
<1>1. GType
  BY DEF GType, Meta, NoMeta
<1>2. Passed /\ Logged /\ Rotating
  BY DEF Passed, Logged, Rotating, At
<1> QED
  BY <1>1, <1>2, Zenon DEF GInv

\* What the checks of a request to sign establish about its certificate.
LEMMA SignedWithin ==
    ASSUME load \in Loads, NEW r \in Asked, r.client \in DOMAIN Clients, Clients[r.client].enabled, SignChecks(r),
           NEW key \in Nat, NEW serial \in Nat
    PROVE  /\ SignCertificate(r, key, serial) \in Certificates
           /\ SignCertificate(r, key, serial).serial = serial
           /\ Within(SignCertificate(r, key, serial))
<1> DEFINE cfg == Clients[r.client]
<1>1. r.ttl \in Int /\ cfg.maxTTL \in Nat /\ defaultMaxTTL \in Nat
  BY SigningAssumption, Zenon DEF Asked
<1>2. r.ttl \in 1 .. maxTTL(cfg) /\ r.ttl \in Nat
  <2>1. r.ttl > 0 /\ r.ttl <= maxTTL(cfg)
    BY Zenon DEF SignChecks, Enforce
  <2>2. maxTTL(cfg) \in Nat
    BY <1>1, Zenon DEF maxTTL
  <2> QED
    BY <1>1, <2>1, <2>2
<1>3. r.principal \in Principals /\ r.token \in DOMAIN Tokens
  BY Zenon DEF SignChecks, ValidateAccessToken
<1>4. cfg.source = "ldap" => Tokens[r.token].sub \in DOMAIN Directory /\ Directory[Tokens[r.token].sub] = r.principal
  BY Zenon DEF SignChecks, ValidateForClient, LDAPValidate
<1>5. ResolveExtensions(cfg.denied, r.exclude) \subseteq StandardExtensions
  BY Zenon DEF ResolveExtensions
<1>6. ResolveExtensions(cfg.denied, r.exclude) \cap cfg.denied = {}
  BY Zenon DEF ResolveExtensions
<1> QED
  BY <1>2, <1>3, <1>4, <1>5, <1>6, Zenon DEF SignCertificate, Certificates, Within, maxTTL

\* The updates of a handler's record keep its type.
LEMMA BusyUpdates ==
    ASSUME NEW b \in Busy, NEW pc \in SignSteps \cup KeySteps \cup RotateSteps, NEW n \in Nat, NEW m \in Meta
    PROVE  /\ [b EXCEPT !.pc = pc] \in Busy
           /\ [b EXCEPT !.key = n, !.pc = pc] \in Busy
           /\ [b EXCEPT !.serial = n, !.pc = pc] \in Busy
           /\ [b EXCEPT !.seen = m, !.pc = pc] \in Busy
           /\ [b EXCEPT !.again = TRUE, !.pc = pc] \in Busy
  BY Zenon DEF Busy

\* Every call leaves the vault, the handlers and the log well formed.
LEMMA NextGType == GInv /\ SigningNext => GType'
<1> SUFFICES ASSUME GInv, SigningNext PROVE GType'
  OBVIOUS
<1>1. GType /\ Passed /\ load' = load /\ Asked' = Asked /\ Busy' = Busy
  BY Zenon DEF GInv, SigningNext, Asked, Busy
<1> USE <1>1 DEF GType, KeepVault, KeepLogs, Go, To, Reply
<1>2. CASE UNCHANGED vars
  BY <1>2, Zenon DEF vars
<1>3. ASSUME NEW p \in Procs, NEW r \in Asked, Begin(p, r) PROVE GType'
  <2>1. [pc |-> IF r.op = "rotate" THEN "read next" ELSE "key", r |-> r, key |-> 0, serial |-> 0,
         seen |-> NoMeta, again |-> FALSE] \in Busy
    BY Zenon DEF Busy, NoMeta, Meta, KeySteps, RotateSteps
  <2> QED
    BY <1>3, <2>1, Zenon DEF Begin
<1>4. ASSUME NEW p \in Procs, h[p] # Idle
      PROVE  /\ h[p] \in Busy /\ h[p].r \in Asked /\ h[p].r.client \in DOMAIN Clients
             /\ Vault(p) \in [current : Nat, next : Nat, meta : Meta]
             /\ h[p].key \in Nat /\ h[p].serial \in Nat /\ h[p].seen \in Meta
  BY <1>4, Zenon DEF Passed, Allowed, Busy, Vault
<1>5. ASSUME NEW p \in Procs, NEW to \in {Idle} \cup Busy, Go(p, to) PROVE h' \in [Procs -> {Idle} \cup Busy]
  BY <1>5, Zenon
<1>6. ASSUME NEW p \in Procs, h[p] # Idle, NEW k \in Nat, WriteVault(p, "current", k) \/ WriteVault(p, "next", k)
      PROVE  vault' \in [DOMAIN Clients -> [current : Nat, next : Nat, meta : Meta]]
  <2>1. h[p].r.client \in DOMAIN Clients
    BY <1>4, <1>6, Zenon
  <2>2. CASE WriteVault(p, "current", k)
    BY <2>1, <2>2, Zenon DEF WriteVault
  <2>3. CASE WriteVault(p, "next", k)
    BY <2>1, <2>3, Zenon DEF WriteVault
  <2> QED
    BY <1>6, <2>2, <2>3, Zenon
<1>7. ASSUME NEW p \in Procs, h[p] # Idle, NEW n \in Nat, writeMetadata(p, n)
      PROVE  vault' \in [DOMAIN Clients -> [current : Nat, next : Nat, meta : Meta]] /\ keys' = keys
  <2>1. [counter |-> n, version |-> Vault(p).meta.version + 1] \in Meta
    BY <1>4, <1>7 DEF Meta
  <2> QED
    BY <1>4, <1>7, <2>1, Zenon DEF writeMetadata, WriteVault
<1>8. keys + 1 \in Nat
  OBVIOUS
<1>9. ASSUME NEW p \in Procs, h[p] # Idle, NEW k \in Nat, GotKey(p, k) PROVE h' \in [Procs -> {Idle} \cup Busy]
  BY <1>4, <1>5, <1>9, BusyUpdates, Zenon DEF GotKey, CAPublicKey, SignSteps, KeySteps
<1> HIDE DEF Go
<1>10. ASSUME NEW p \in Procs, GetCurrentCAKey(p) PROVE GType'
  <2>1. h[p] # Idle /\ readCAKey(p, "current") \in Nat
    BY <1>4, <1>10, Zenon DEF GetCurrentCAKey, At, readCAKey
  <2>2. h' \in [Procs -> {Idle} \cup Busy]
    BY <1>4, <1>5, <1>9, <1>10, <2>1, BusyUpdates, Zenon DEF GetCurrentCAKey, KeySteps
  <2> QED
    BY <1>10, <2>2, Zenon DEF GetCurrentCAKey
<1>11. ASSUME NEW p \in Procs, CreateCurrent(p) PROVE GType'
  <2>1. h[p] # Idle
    BY <1>11, Zenon DEF CreateCurrent, At
  <2>2. h' \in [Procs -> {Idle} \cup Busy]
    BY <1>4, <1>5, <1>8, <1>11, <2>1, BusyUpdates, Zenon DEF CreateCurrent, KeySteps
  <2>3. vault' \in [DOMAIN Clients -> [current : Nat, next : Nat, meta : Meta]]
    BY <1>6, <1>8, <1>11, <2>1, Zenon DEF CreateCurrent, writeCAKey
  <2> QED
    BY <1>8, <1>11, <2>2, <2>3, Zenon DEF CreateCurrent, generateEd25519CAKey
<1>12. ASSUME NEW p \in Procs, CreateMetadata(p) PROVE GType'
  <2>1. h[p] # Idle
    BY <1>12, Zenon DEF CreateMetadata, At
  <2> QED
    BY <1>4, <1>7, <1>9, <1>12, <2>1, Zenon DEF CreateMetadata, initMetadata
<1>13. ASSUME NEW p \in Procs, JWKS(p) \/ RotatedKeys(p) \/ Fail(p) PROVE GType'
  BY <1>5, <1>13, Zenon DEF JWKS, RotatedKeys, Fail
<1>14. ASSUME NEW p \in Procs, ReadSerial(p) PROVE GType'
  <2>1. h[p] # Idle
    BY <1>14, Zenon DEF ReadSerial, At
  <2>2. h' \in [Procs -> {Idle} \cup Busy]
    BY <1>4, <1>5, <1>14, <2>1, BusyUpdates, Zenon DEF ReadSerial, readMetadataWithVersion, SignSteps
  <2> QED
    BY <1>14, <2>2, Zenon DEF ReadSerial
<1>15. ASSUME NEW p \in Procs, InitSerial(p) PROVE GType'
  <2>1. h[p] # Idle /\ 1 \in Nat
    BY <1>15, Zenon DEF InitSerial, At
  <2>2. h' \in [Procs -> {Idle} \cup Busy]
    BY <1>4, <1>5, <1>15, <2>1, BusyUpdates, Zenon DEF InitSerial, GotSerial, SignSteps
  <2> QED
    BY <1>7, <1>15, <2>1, <2>2, Zenon DEF InitSerial, initMetadata
<1>16. ASSUME NEW p \in Procs, writeMetadataCAS(p) PROVE GType'
  <2>1. h[p] # Idle /\ h[p].seen.counter + 1 \in Nat
    <3>1. h[p] # Idle /\ h[p].seen \in Meta
      BY <1>4, <1>16, Zenon DEF writeMetadataCAS, At
    <3> QED
      BY <3>1 DEF Meta
  <2>2. h' \in [Procs -> {Idle} \cup Busy]
    BY <1>4, <1>5, <1>16, <2>1, BusyUpdates, Zenon DEF writeMetadataCAS, GotSerial, SignSteps
  <2> QED
    BY <1>7, <1>16, <2>1, <2>2, Zenon DEF writeMetadataCAS
<1>17. ASSUME NEW p \in Procs, Record(p) PROVE GType'
  <2>1. SignCertificate(h[p].r, h[p].key, h[p].serial) \in Certificates
    BY <1>4, <1>17, SignedWithin, Zenon DEF Record, At, Passed, Allowed, SignSteps
  <2>2. h' \in [Procs -> {Idle} \cup Busy]
    BY <1>4, <1>5, <1>17, BusyUpdates, Zenon DEF Record, At, SignSteps
  <2>3. issued' = issued \/ issued' = Append(issued, SignCertificate(h[p].r, h[p].key, h[p].serial))
    BY <1>17, Zenon DEF Record, LogIssuance, InsertIssuanceLog
  <2>4. issued' \in Seq(Certificates)
    <3>1. Append(issued, SignCertificate(h[p].r, h[p].key, h[p].serial)) \in Seq(Certificates)
      BY <2>1
    <3> QED
      BY <2>3, <3>1, Zenon
  <2> QED
    BY <1>17, <2>2, <2>4, Zenon DEF Record
<1>18. ASSUME NEW p \in Procs, ReadNext(p) \/ ReadMetadata(p) PROVE GType'
  <2>1. h[p] # Idle
    BY <1>18, Zenon DEF ReadNext, ReadMetadata, At
  <2>2. h' \in [Procs -> {Idle} \cup Busy]
    BY <1>4, <1>5, <1>18, <2>1, BusyUpdates, Zenon DEF ReadNext, ReadMetadata, readCAKey, readMetadataWithVersion, RotateSteps
  <2> QED
    BY <1>18, <2>2, Zenon DEF ReadNext, ReadMetadata
<1>19. ASSUME NEW p \in Procs, PromoteNext(p) \/ WriteNext(p) PROVE GType'
  <2>1. h[p] # Idle
    BY <1>19, Zenon DEF PromoteNext, WriteNext, At
  <2>2. vault' \in [DOMAIN Clients -> [current : Nat, next : Nat, meta : Meta]] /\ keys' \in Nat
    BY <1>4, <1>6, <1>8, <1>19, <2>1, Zenon DEF PromoteNext, WriteNext, writeCAKey, generateEd25519CAKey
  <2>3. h' \in [Procs -> {Idle} \cup Busy]
    BY <1>4, <1>5, <1>19, <2>1, BusyUpdates, Zenon DEF PromoteNext, WriteNext, RotateSteps
  <2> QED
    BY <1>19, <2>2, <2>3, Zenon DEF PromoteNext, WriteNext
<1>20. ASSUME NEW p \in Procs, WriteRotation(p) PROVE GType'
  <2>1. h[p] # Idle /\ h[p].seen.counter \in Nat
    BY <1>4, <1>20, Zenon DEF WriteRotation, At, Meta
  <2>2. h' \in [Procs -> {Idle} \cup Busy]
    BY <1>4, <1>5, <1>20, <2>1, BusyUpdates, Zenon DEF WriteRotation, RotateSteps
  <2> QED
    BY <1>7, <1>20, <2>1, <2>2, Zenon DEF WriteRotation
<1>21. ASSUME NEW r \in Asked, Revoke(r) PROVE GType'
  BY <1>21, Zenon DEF Revoke
<1> QED
  BY <1>2, <1>3, <1>10, <1>11, <1>12, <1>13, <1>14, <1>15, <1>16, <1>17, <1>18, <1>19, <1>20, <1>21, SigningAssumption, ZenonT(30)
     DEF SigningNext, Handle, Work, Sign, RotateCA

\* A handler goes on with the request it was let in with, and through its own
\* steps; the next key that a rotation promotes is the one it has just read.
Moved(p, to) ==
    /\ h[p] # Idle /\ Go(p, to)
    /\ to # Idle =>
          /\ to.r = h[p].r
          /\ to.pc \in SignSteps => h[p].r.op = "sign"
          /\ to.pc \in RotateSteps <=> h[p].r.op = "rotate"
          /\ to.pc = "write current" => to.key = Vault(p).next

\* A step within one of the three parts of a handler.
LEMMA MoveOn ==
    ASSUME NEW p, NEW to, h[p] # Idle, Allowed(h[p]), Go(p, to), to.r = h[p].r,
           \/ h[p].pc \in KeySteps /\ to.pc \in KeySteps
           \/ h[p].pc \in SignSteps /\ to.pc \in SignSteps
           \/ h[p].pc \in RotateSteps /\ to.pc \in RotateSteps \ {"write current"}
    PROVE  Moved(p, to)
  BY Zenon DEF Moved, Allowed, KeySteps, SignSteps, RotateSteps

\* A key leads a request to sign to the serial number, and the others to their answer.
LEMMA KeyMoves ==
    ASSUME NEW p, NEW k, h[p] # Idle, h[p] \in Busy, Allowed(h[p]), h[p].pc \in KeySteps, GotKey(p, k)
    PROVE  \E to : Moved(p, to)
<1>1. CASE h[p].r.op = "sign"
  <2> DEFINE to == [h[p] EXCEPT !.key = k, !.pc = "serial"]
  <2>1. to.r = h[p].r /\ to.pc = "serial"
    BY Zenon DEF Busy
  <2>2. Go(p, to)
    BY <1>1, Zenon DEF GotKey
  <2> HIDE DEF to
  <2>3. Moved(p, to)
    BY <1>1, <2>1, <2>2, Zenon DEF Moved, SignSteps, RotateSteps
  <2> QED
    BY <2>3, Zenon
<1>2. CASE h[p].r.op = "jwks"
  <2> DEFINE to == [h[p] EXCEPT !.pc = "jwks"]
  <2>1. to.r = h[p].r /\ to.pc = "jwks"
    BY Zenon DEF Busy
  <2>2. Go(p, to)
    BY <1>2, Zenon DEF GotKey, To
  <2> HIDE DEF to
  <2>3. Moved(p, to)
    BY <2>1, <2>2, MoveOn, Zenon DEF KeySteps
  <2> QED
    BY <2>3, Zenon
<1>3. CASE h[p].r.op \notin {"sign", "jwks"}
  BY <1>3, Zenon DEF GotKey, CAPublicKey, Reply, Moved
<1> QED
  BY <1>1, <1>2, <1>3, Zenon

LEMMA WorkMoves ==
    ASSUME GType, Passed, NEW p \in Procs, Work(p) \/ Fail(p)
    PROVE  \E to : Moved(p, to)
<1>1. h[p] # Idle
  BY Zenon DEF Work, Fail, GetCurrentCAKey, CreateCurrent, CreateMetadata, JWKS, Sign, ReadSerial, InitSerial, writeMetadataCAS,
     Record, RotateCA, ReadNext, PromoteNext, WriteNext, ReadMetadata, WriteRotation, RotatedKeys, At
<1>2. h[p] \in Busy /\ Allowed(h[p])
  BY <1>1, Zenon DEF GType, Passed
<1>3. ASSUME Reply(p) PROVE \E to : Moved(p, to)
  BY <1>1, <1>3, Zenon DEF Reply, Moved
<1>4. CASE GetCurrentCAKey(p)
  <2>1. h[p].pc = "key"
    BY <1>4, Zenon DEF GetCurrentCAKey, At
  <2>2. CASE readCAKey(p, "current") # 0
    BY <1>1, <1>2, <1>4, <2>1, <2>2, KeyMoves, Zenon DEF GetCurrentCAKey, KeySteps
  <2>3. CASE readCAKey(p, "current") = 0
    <3> DEFINE to == [h[p] EXCEPT !.pc = "create key"]
    <3>1. to.r = h[p].r /\ to.pc = "create key"
      BY <1>2, Zenon DEF Busy
    <3>2. Go(p, to)
      BY <1>4, <2>3, Zenon DEF GetCurrentCAKey, To
    <3> HIDE DEF to
    <3>3. Moved(p, to)
      BY <1>1, <1>2, <2>1, <3>1, <3>2, MoveOn, Zenon DEF KeySteps
    <3> QED
      BY <3>3, Zenon
  <2> QED
    BY <2>2, <2>3, Zenon
<1>5. CASE CreateCurrent(p)
  <2> DEFINE to == [h[p] EXCEPT !.key = keys + 1, !.pc = "create meta"]
  <2>1. to.r = h[p].r /\ to.pc = "create meta"
    BY <1>2, Zenon DEF Busy
  <2>2. Go(p, to) /\ h[p].pc = "create key"
    BY <1>5, Zenon DEF CreateCurrent, At
  <2> HIDE DEF to
  <2>3. Moved(p, to)
    BY <1>1, <1>2, <2>1, <2>2, MoveOn, Zenon DEF KeySteps
  <2> QED
    BY <2>3, Zenon
<1>6. CASE CreateMetadata(p)
  BY <1>1, <1>2, <1>6, KeyMoves, Zenon DEF CreateMetadata, At, KeySteps
<1>7. CASE JWKS(p) \/ RotatedKeys(p) \/ Fail(p)
  BY <1>3, <1>7, Zenon DEF JWKS, RotatedKeys, Fail
<1>8. CASE ReadSerial(p)
  <2> DEFINE meta == readMetadataWithVersion(p)
             to == IF meta = NoMeta THEN [h[p] EXCEPT !.pc = "init serial"] ELSE [h[p] EXCEPT !.seen = meta, !.pc = "cas"]
  <2>1. to.r = h[p].r /\ to.pc \in {"init serial", "cas"}
    BY <1>2, Zenon DEF Busy
  <2>2. Go(p, to) /\ h[p].pc = "serial"
    BY <1>8, Zenon DEF ReadSerial, At, To
  <2> HIDE DEF to
  <2>3. Moved(p, to)
    BY <1>1, <1>2, <2>1, <2>2, MoveOn, Zenon DEF SignSteps
  <2> QED
    BY <2>3, Zenon
<1>9. CASE InitSerial(p)
  <2> DEFINE to == [h[p] EXCEPT !.serial = 1, !.pc = "log"]
  <2>1. to.r = h[p].r /\ to.pc = "log"
    BY <1>2, Zenon DEF Busy
  <2>2. Go(p, to) /\ h[p].pc = "init serial"
    BY <1>9, Zenon DEF InitSerial, At, GotSerial
  <2> HIDE DEF to
  <2>3. Moved(p, to)
    BY <1>1, <1>2, <2>1, <2>2, MoveOn, Zenon DEF SignSteps
  <2> QED
    BY <2>3, Zenon
<1>10. CASE writeMetadataCAS(p)
  <2> DEFINE to == [h[p] EXCEPT !.serial = h[p].seen.counter + 1, !.pc = "log"]
  <2>1. to.r = h[p].r /\ to.pc = "log"
    BY <1>2, Zenon DEF Busy
  <2>2. (Go(p, to) \/ Reply(p)) /\ h[p].pc = "cas"
    BY <1>10, Zenon DEF writeMetadataCAS, At, GotSerial
  <2> HIDE DEF to
  <2>3. Go(p, to) => Moved(p, to)
    BY <1>1, <1>2, <2>1, <2>2, MoveOn, Zenon DEF SignSteps
  <2> QED
    BY <1>3, <2>2, <2>3, Zenon
<1>11. CASE Record(p)
  <2> DEFINE to == [h[p] EXCEPT !.again = TRUE, !.pc = "serial"]
  <2>1. to.r = h[p].r /\ to.pc = "serial"
    BY <1>2, Zenon DEF Busy
  <2>2. (Go(p, to) \/ Reply(p)) /\ h[p].pc = "log"
    BY <1>11, Zenon DEF Record, At
  <2> HIDE DEF to
  <2>3. Go(p, to) => Moved(p, to)
    BY <1>1, <1>2, <2>1, <2>2, MoveOn, Zenon DEF SignSteps
  <2> QED
    BY <1>3, <2>2, <2>3, Zenon
<1>12. CASE ReadNext(p)
  <2> DEFINE to == [h[p] EXCEPT !.key = Vault(p).next, !.pc = "write current"]
  <2>1. to.r = h[p].r /\ to.pc = "write current" /\ to.key = Vault(p).next
    BY <1>2, Zenon DEF Busy
  <2>2. Go(p, to) /\ h[p].pc = "read next"
    BY <1>12, Zenon DEF ReadNext, At, readCAKey
  <2> HIDE DEF to
  <2>3. Moved(p, to)
    BY <1>1, <1>2, <2>1, <2>2, Zenon DEF Moved, Allowed, SignSteps, RotateSteps
  <2> QED
    BY <2>3, Zenon
<1>13. CASE PromoteNext(p)
  <2> DEFINE to == [h[p] EXCEPT !.pc = "write next"]
  <2>1. to.r = h[p].r /\ to.pc = "write next"
    BY <1>2, Zenon DEF Busy
  <2>2. Go(p, to) /\ h[p].pc = "write current"
    BY <1>13, Zenon DEF PromoteNext, At, To
  <2> HIDE DEF to
  <2>3. Moved(p, to)
    BY <1>1, <1>2, <2>1, <2>2, MoveOn, Zenon DEF RotateSteps
  <2> QED
    BY <2>3, Zenon
<1>14. CASE WriteNext(p)
  <2> DEFINE to == [h[p] EXCEPT !.pc = "read meta"]
  <2>1. to.r = h[p].r /\ to.pc = "read meta"
    BY <1>2, Zenon DEF Busy
  <2>2. Go(p, to) /\ h[p].pc = "write next"
    BY <1>14, Zenon DEF WriteNext, At, To
  <2> HIDE DEF to
  <2>3. Moved(p, to)
    BY <1>1, <1>2, <2>1, <2>2, MoveOn, Zenon DEF RotateSteps
  <2> QED
    BY <2>3, Zenon
<1>15. CASE ReadMetadata(p)
  <2> DEFINE to == [h[p] EXCEPT !.seen = readMetadataWithVersion(p), !.pc = "write meta"]
  <2>1. to.r = h[p].r /\ to.pc = "write meta"
    BY <1>2, Zenon DEF Busy
  <2>2. Go(p, to) /\ h[p].pc = "read meta"
    BY <1>15, Zenon DEF ReadMetadata, At
  <2> HIDE DEF to
  <2>3. Moved(p, to)
    BY <1>1, <1>2, <2>1, <2>2, MoveOn, Zenon DEF RotateSteps
  <2> QED
    BY <2>3, Zenon
<1>16. CASE WriteRotation(p)
  <2> DEFINE to == [h[p] EXCEPT !.pc = "rotated"]
  <2>1. to.r = h[p].r /\ to.pc = "rotated"
    BY <1>2, Zenon DEF Busy
  <2>2. Go(p, to) /\ h[p].pc = "write meta"
    BY <1>16, Zenon DEF WriteRotation, At, To
  <2> HIDE DEF to
  <2>3. Moved(p, to)
    BY <1>1, <1>2, <2>1, <2>2, MoveOn, Zenon DEF RotateSteps
  <2> QED
    BY <2>3, Zenon
<1> QED
  BY <1>4, <1>5, <1>6, <1>7, <1>8, <1>9, <1>10, <1>11, <1>12, <1>13, <1>14, <1>15, <1>16, Zenon DEF Work, Sign, RotateCA

\* The handlers at work have been let in.
LEMMA NextPassed == GInv /\ SigningNext => Passed'
<1> SUFFICES ASSUME GInv, SigningNext PROVE Passed'
  OBVIOUS
<1>1. GType /\ Passed
  BY Zenon DEF GInv
<1>2. CASE UNCHANGED h
  BY <1>1, <1>2, Zenon DEF Passed
<1>3. ASSUME NEW p \in Procs, NEW to, Go(p, to), to # Idle => Allowed(to) PROVE Passed'
  BY <1>1, <1>3, Zenon DEF GType, Passed, Go
<1>4. ASSUME NEW p \in Procs, NEW r \in Asked, Begin(p, r) PROVE Passed'
  <2>1. r.client \in DOMAIN Clients /\ Clients[r.client].enabled
    BY <1>4, Zenon DEF Begin, ClientAuthMiddleware, Authenticate, GetClientConfig
  <2> QED
    BY <1>3, <1>4, <2>1, Zenon DEF Begin, Allowed, SignSteps, RotateSteps
<1>5. ASSUME NEW p \in Procs, Work(p) \/ Fail(p) PROVE Passed'
  <2>1. PICK to : Moved(p, to)
    BY <1>1, <1>5, WorkMoves, Zenon
  <2>2. Allowed(h[p])
    BY <1>1, <2>1, Zenon DEF Passed, Moved
  <2>3. Go(p, to)
    BY <2>1, Zenon DEF Moved
  <2>4. to # Idle => Allowed(to)
    BY <2>1, <2>2, Zenon DEF Moved, Allowed
  <2> QED
    BY <1>3, <2>3, <2>4, Zenon
<1> QED
  BY <1>1, <1>2, <1>4, <1>5, SigningAssumption, Zenon DEF SigningNext, Handle, Revoke, vars, GType

\* The log takes a serial number once, and what it takes is what is handed out.
LEMMA NextLogged == GInv /\ SigningNext => Logged'
<1> SUFFICES ASSUME GInv, SigningNext PROVE Logged'
  OBVIOUS
<1>1. GType /\ Passed /\ Logged
  BY Zenon DEF GInv
<1>2. CASE UNCHANGED <<issued, certs>>
  BY <1>1, <1>2, Zenon DEF Logged
<1>3. ASSUME NEW p \in Procs, Record(p) PROVE Logged'
  <2> DEFINE cert == SignCertificate(h[p].r, h[p].key, h[p].serial)
  <2>1. CASE isDuplicateKeyError(h[p].serial)
    BY <1>2, <1>3, <2>1, Zenon DEF Record
  <2>2. CASE ~isDuplicateKeyError(h[p].serial)
    <3>1. cert.serial = h[p].serial /\ Within(cert)
      <4>1. h[p] \in Busy /\ Allowed(h[p]) /\ h[p].pc = "log"
        BY <1>1, <1>3, Zenon DEF GType, Passed, Record, At
      <4>2. h[p].r \in Asked /\ h[p].key \in Nat /\ h[p].serial \in Nat
        BY <4>1, Zenon DEF Busy
      <4>3. h[p].r.client \in DOMAIN Clients /\ Clients[h[p].r.client].enabled /\ SignChecks(h[p].r)
        BY <4>1, Zenon DEF Allowed, SignSteps
      <4> QED
        BY <1>1, <4>2, <4>3, SignedWithin, Zenon DEF GType
    <3>2. issued' = Append(issued, cert) /\ certs' = Append(certs, cert)
      BY <1>3, <2>2, Zenon DEF Record, LogIssuance, InsertIssuanceLog, SignResponse
    <3> HIDE DEF cert
    <3>3. /\ DOMAIN issued = 1 .. Len(issued) /\ DOMAIN issued' = 1 .. Len(issued) + 1 /\ Len(issued) \in Nat
          /\ issued'[Len(issued) + 1] = cert /\ \A i \in DOMAIN issued : issued'[i] = issued[i]
      BY <1>1, <3>2 DEF GType
    <3>4. \A i \in DOMAIN issued : issued[i].serial # cert.serial
      BY <2>2, <3>1, Zenon DEF isDuplicateKeyError
    <3>5. \A i \in DOMAIN issued' : i \in DOMAIN issued \/ i = Len(issued) + 1
      BY <3>3
    <3> QED
      <4>1. certs' = issued'
        BY <1>1, <3>2, Zenon DEF Logged
      <4>2. \A i \in DOMAIN issued' : Within(issued'[i])
        BY <1>1, <3>1, <3>3, <3>5, Zenon DEF Logged
      <4>3. ASSUME NEW i \in DOMAIN issued', NEW j \in DOMAIN issued', issued'[i].serial = issued'[j].serial
            PROVE  i = j
        <5>1. CASE i \in DOMAIN issued /\ j \in DOMAIN issued
          BY <1>1, <3>3, <4>3, <5>1, Zenon DEF Logged
        <5>2. CASE i = Len(issued) + 1 \/ j = Len(issued) + 1
          BY <3>3, <3>4, <3>5, <4>3, <5>2, ZenonT(30)
        <5> QED
          BY <3>5, <5>1, <5>2, Zenon
      <4> QED
        BY <4>1, <4>2, <4>3, Zenon DEF Logged
  <2> QED
    BY <2>1, <2>2, Zenon
<1> QED
  BY <1>1, <1>2, <1>3, SigningAssumption, ZenonT(30) DEF SigningNext, Handle, Begin, Fail, Revoke, Work, GetCurrentCAKey, CreateCurrent, CreateMetadata,
     JWKS, Sign, ReadSerial, InitSerial, writeMetadataCAS, RotateCA, ReadNext, PromoteNext, WriteNext, ReadMetadata,
     WriteRotation, RotatedKeys, KeepLogs, vars

\* Only a rotation writes a next key, which it announces; the current key is
\* written by a rotation and by a request that finds none.
LEMMA VaultMoves ==
    ASSUME GType, Passed, NEW p \in Procs, Work(p) \/ Fail(p), NEW c \in DOMAIN Clients
    PROVE  /\ advertised \subseteq advertised'
           /\ vault'[c].next # vault[c].next => WriteNext(p) /\ vault'[c].next \in advertised'
           /\ vault'[c].current # vault[c].current => CreateCurrent(p) \/ (PromoteNext(p) /\ c = h[p].r.client)
<1>1. ASSUME h[p] # Idle PROVE h[p].r.client \in DOMAIN Clients
  BY <1>1, Zenon DEF Passed, Allowed
<1>2. vault \in [DOMAIN Clients -> [current : Nat, next : Nat, meta : Meta]]
  BY Zenon DEF GType
<1>3. ASSUME KeepVault PROVE UNCHANGED <<vault, advertised>>
  BY <1>3, Zenon DEF KeepVault
<1>4. ASSUME NEW n, h[p] # Idle, writeMetadata(p, n)
      PROVE  advertised' = advertised /\ vault'[c].next = vault[c].next /\ vault'[c].current = vault[c].current
  BY <1>1, <1>2, <1>4, Zenon DEF writeMetadata, WriteVault
<1>5. ASSUME NEW k, h[p] # Idle, writeCAKey(p, "current", k)
      PROVE  /\ advertised' = advertised /\ vault'[c].next = vault[c].next
             /\ vault'[c].current # vault[c].current => c = h[p].r.client
  BY <1>1, <1>2, <1>5, Zenon DEF writeCAKey, WriteVault
<1>6. CASE GetCurrentCAKey(p) \/ JWKS(p) \/ ReadSerial(p) \/ Record(p) \/ ReadNext(p) \/ ReadMetadata(p) \/ RotatedKeys(p) \/ Fail(p)
  BY <1>3, <1>6, Zenon DEF GetCurrentCAKey, JWKS, ReadSerial, Record, ReadNext, ReadMetadata, RotatedKeys, Fail
<1>7. CASE CreateMetadata(p) \/ InitSerial(p) \/ WriteRotation(p)
  BY <1>4, <1>7, Zenon DEF CreateMetadata, InitSerial, WriteRotation, initMetadata, At
<1>8. CASE writeMetadataCAS(p)
  BY <1>3, <1>4, <1>8, Zenon DEF writeMetadataCAS, At
<1>9. CASE CreateCurrent(p)
  BY <1>5, <1>9, Zenon DEF CreateCurrent, At
<1>10. CASE PromoteNext(p)
  BY <1>5, <1>10, Zenon DEF PromoteNext, At
<1>11. CASE WriteNext(p)
  <2>1. h[p] # Idle /\ writeCAKey(p, "next", keys + 1)
    BY <1>11, Zenon DEF WriteNext, At
  <2>2. /\ advertised' = advertised \cup {keys + 1} /\ vault'[c].current = vault[c].current
        /\ vault'[c].next # vault[c].next => vault'[c].next = keys + 1
    BY <1>1, <1>2, <2>1, Zenon DEF writeCAKey, WriteVault
  <2> QED
    BY <1>11, <2>2, Zenon
<1> QED
  BY <1>6, <1>7, <1>8, <1>9, <1>10, <1>11, ZenonT(30) DEF Work, Sign, RotateCA

\* A second rotation is not let in, and the one under way does not lose the
\* next key that it has read.
LEMMA NextRotating == GInv /\ SigningNext => Rotating'
<1> SUFFICES ASSUME GInv, SigningNext PROVE Rotating'
  OBVIOUS
<1>1. GType /\ Passed /\ Rotating
  BY Zenon DEF GInv
<1>2. CASE UNCHANGED <<vault, advertised, h>>
  BY <1>1, <1>2, Zenon DEF Rotating, At
<1>3. ASSUME NEW p \in Procs, NEW r \in Asked, Begin(p, r) PROVE Rotating'
  <2> DEFINE to == [pc |-> IF r.op = "rotate" THEN "read next" ELSE "key", r |-> r, key |-> 0, serial |-> 0,
                    seen |-> NoMeta, again |-> FALSE]
  <2>1. h' = [h EXCEPT ![p] = to] /\ UNCHANGED <<vault, advertised>> /\ (r.op = "rotate" => Rotations = {})
    BY <1>3, Zenon DEF Begin, Go, KeepVault
  <2>2. to.r = r /\ to.pc # "write current"
    OBVIOUS
  <2> HIDE DEF to
  <2>3. h'[p] = to /\ \A q \in Procs \ {p} : h'[q] = h[q]
    BY <1>1, <2>1, ZenonT(30) DEF GType
  <2>4. ASSUME NEW q \in Procs, NEW o \in Procs, h'[q] # Idle, h'[o] # Idle, h'[q].r.op = "rotate", h'[o].r.op = "rotate"
        PROVE  q = o
    BY <1>1, <2>1, <2>2, <2>3, <2>4, ZenonT(30) DEF Rotating, Rotations
  <2>5. ASSUME NEW q \in Procs, h'[q] # Idle, h'[q].pc = "write current" PROVE h'[q].key = vault'[h'[q].r.client].next
    BY <1>1, <2>1, <2>2, <2>3, <2>5, ZenonT(30) DEF Rotating, At
  <2> QED
    BY <1>1, <2>1, <2>4, <2>5, ZenonT(30) DEF Rotating, At
<1>4. ASSUME NEW p \in Procs, Work(p) \/ Fail(p) PROVE Rotating'
  <2>1. PICK to : Moved(p, to)
    BY <1>1, <1>4, WorkMoves, Zenon
  <2>2. h'[p] = to /\ \A q \in Procs \ {p} : h'[q] = h[q]
    BY <1>1, <2>1, Zenon DEF GType, Moved, Go
  <2>3. ASSUME NEW c \in DOMAIN Clients
        PROVE  /\ advertised \subseteq advertised'
               /\ vault'[c].next # vault[c].next => WriteNext(p) /\ vault'[c].next \in advertised'
    BY <1>1, <1>4, VaultMoves, Zenon
  <2>4. ASSUME NEW q \in Procs, NEW o \in Procs, h'[q] # Idle, h'[o] # Idle, h'[q].r.op = "rotate", h'[o].r.op = "rotate"
        PROVE  q = o
    <3>1. ASSUME NEW x \in Procs, h'[x] # Idle PROVE h[x] # Idle /\ h'[x].r = h[x].r
      BY <2>1, <2>2, <3>1, Zenon DEF Moved
    <3> QED
      BY <1>1, <2>4, <3>1, ZenonT(30) DEF Rotating
  <2>5. ASSUME NEW q \in Procs, h'[q] # Idle, h'[q].pc = "write current" PROVE h'[q].key = vault'[h'[q].r.client].next
    <3>1. h[q] # Idle /\ h'[q].r = h[q].r /\ h[q].r.op = "rotate" /\ h[q].r.client \in DOMAIN Clients
      BY <1>1, <2>1, <2>2, <2>5, Zenon DEF Moved, Passed, Allowed, RotateSteps
    <3>2. h'[q].key = vault[h[q].r.client].next
      BY <1>1, <2>1, <2>2, <2>5, Zenon DEF Moved, Rotating, At, Vault
    <3>3. ~WriteNext(p)
      <4> SUFFICES ASSUME WriteNext(p) PROVE FALSE
        OBVIOUS
      <4>1. h[p] # Idle /\ h[p].pc = "write next" /\ h'[p].pc = "read meta"
        BY <1>1, <2>1, Zenon DEF WriteNext, At, To, Go, GType, Moved, Busy
      <4>2. h[p].r.op = "rotate"
        BY <1>1, <4>1, Zenon DEF Passed, Allowed, RotateSteps
      <4>3. p = q
        BY <1>1, <3>1, <4>1, <4>2, Zenon DEF Rotating
      <4> QED
        BY <2>5, <4>1, <4>3, Zenon
    <3> QED
      BY <2>3, <3>1, <3>2, <3>3, Zenon
  <2>6. ASSUME NEW c \in DOMAIN Clients, vault'[c].next # 0 PROVE vault'[c].next \in advertised'
    BY <1>1, <2>3, <2>6, Zenon DEF Rotating
  <2> QED
    BY <2>4, <2>5, <2>6, Zenon DEF Rotating, At
<1> QED
  BY <1>1, <1>2, <1>3, <1>4, SigningAssumption, Zenon DEF SigningNext, Handle, Revoke, KeepVault, vars, GType

\* The invariant, of every step and of every stuttering step.
LEMMA GInvInductive == SigningSpec => []GInv
<1>1. ASSUME GInv, [SigningNext]_<<load, vars, trustVars>> PROVE GInv'
  <2>1. CASE SigningNext
    BY <1>1, <2>1, NextGType, NextPassed, NextLogged, NextRotating, Zenon DEF GInv
  <2>2. CASE UNCHANGED <<load, vars, trustVars>>
    <3>1. UNCHANGED <<load, vault, keys, h, issued, certs, advertised>>
      BY <2>2, Zenon DEF vars
    <3>2. GType'
      BY <1>1, <3>1, Zenon DEF GInv, GType, Busy, Asked
    <3>3. Passed' /\ Logged' /\ Rotating'
      BY <1>1, <3>1, Zenon DEF GInv, Passed, Logged, Rotating, At
    <3> QED
      BY <3>2, <3>3, Zenon DEF GInv
  <2> QED
    BY <1>1, <2>1, <2>2, Zenon
<1> QED
  BY <1>1, InitGInv, PTL DEF SigningSpec

\* Every certificate that is handed out is in the log under a serial number of
\* its own, for any number of handlers that race for the counter, whatever fails
\* and although a rotation writes the counter back (Handle, sign.go).
THEOREM SerialNumbersAreUnique == SigningSpec => []SerialsUnique
<1>1. GInv => SerialsUnique
  BY Zenon DEF GInv, GType, Logged, SerialsUnique, Range
<1> QED
  BY <1>1, GInvInductive, PTL

\* Every certificate keeps within the client's row and the directory entry of
\* its subject (Enforce, ResolveExtensions and ValidateForClient).
THEOREM CertificatesKeepPolicy == SigningSpec => []CertWithinPolicy
<1>1. GInv => CertWithinPolicy
  BY Zenon DEF GInv, Logged, Within, CertWithinPolicy
<1> QED
  BY <1>1, GInvInductive, PTL

\* A rotation makes the announced key the current one (RotateCA, vault/client.go).
THEOREM RotationsPromoteAnnounced == SigningSpec => PromotesAnnounced
<1>1. ASSUME GInv, [SigningNext]_<<load, vars, trustVars>>
      PROVE  [\A c \in DOMAIN Clients :
                 (/\ vault'[c].current # vault[c].current /\ vault[c].next # 0
                  /\ \A p \in Procs : ~At(p, "create key")) => vault'[c].current \in advertised]_vars
  <2> SUFFICES ASSUME SigningNext, NEW c \in DOMAIN Clients, vault'[c].current # vault[c].current, vault[c].next # 0,
                      \A p \in Procs : ~At(p, "create key")
               PROVE  vault'[c].current \in advertised
    BY <1>1, Zenon DEF vars
  <2>1. GType /\ Passed /\ Rotating
    BY <1>1, Zenon DEF GInv
  <2>2. vault' # vault
    OBVIOUS
  <2>3. PICK p \in Procs : Work(p) \/ Fail(p)
    BY <2>2, Zenon DEF SigningNext, Handle, Begin, Revoke, KeepVault, vars
  <2>4. PromoteNext(p) /\ c = h[p].r.client
    BY <2>1, <2>3, VaultMoves, Zenon DEF CreateCurrent
  <2>5. h[p].key = vault[c].next /\ vault[c].next \in advertised
    BY <2>1, <2>4, Zenon DEF PromoteNext, Rotating, At
  <2>6. vault'[c].current = h[p].key
    BY <2>1, <2>4, <2>5, Zenon DEF PromoteNext, writeCAKey, WriteVault, GType
  <2> QED
    BY <2>5, <2>6, Zenon
<1> QED
  BY <1>1, GInvInductive, PTL DEF SigningSpec, PromotesAnnounced

-----------------------------------------------------------------------------
\* The keys in the cache are no older than a fetch takes when they are stored.
CacheOK ==
    /\ DOMAIN cache \subseteq Issuers /\ IsFiniteSet(DOMAIN cache) /\ Cardinality(DOMAIN cache) <= maxProviders
    /\ \A i \in DOMAIN cache : /\ cache[i].read \in Nat /\ cache[i].at \in Nat
                               /\ cache[i].at <= now /\ cache[i].at <= cache[i].read + httpTimeout

Flights ==
    [pc : {"none", "lead"}] \cup [pc : {"fetch"}, since : Nat]
        \cup [pc : {"store"}, since : Nat, keys : Nat, read : Nat]

\* At time n a fetch f for issuer i is no older than its timeout, and began when
\* the keys in c were too old.
Running(f, i, c, n) ==
    /\ f.pc \in {"fetch", "store"} =>
          /\ f.since <= n /\ n <= f.since + httpTimeout
          /\ i \in DOMAIN c => f.since - c[i].at >= cacheTTL
    /\ f.pc = "store" => f.since <= f.read /\ f.read <= n

FlightOK == flight \in [Issuers -> Flights] /\ \A i \in Issuers : Running(flight[i], i, cache, now)

\* Credentials in use are some the vault has had.
CredsOK ==
    /\ secret \in [LDAPClients -> Nat \ {0}]
    /\ DOMAIN credCache \subseteq LDAPClients /\ DOMAIN validators \subseteq LDAPClients
    /\ \A c \in DOMAIN credCache : credCache[c].at \in Nat /\ credCache[c].creds \in (1 .. secret[c]) \cup {T!Err}
    /\ \A c \in DOMAIN validators : validators[c] \in 1 .. secret[c]

TrustSteps == {"idle", "miss", "wait", "creds", "vault", "keep", "validator", "search", "replied"}

\* How far a check has come, and what it relies on, when s are the credentials in
\* the vault and v the clients with a validator.
Sound(x, s, v) ==
    /\ x.pc \in TrustSteps
    /\ x.pc # "idle" => x.client \in LDAPClients
    /\ x.pc \in {"miss", "wait"} => x \in [pc : {"miss", "wait"}, issuer : Issuers, client : LDAPClients, began : Nat]
    /\ x.pc = "creds" => x.keysAge <= cacheTTL + httpTimeout
    /\ x.pc = "keep" => x.creds \in (1 .. s[x.client]) \cup {T!Err}
    /\ x.pc = "validator" => x.creds \in 1 .. s[x.client]
    /\ x.pc = "search" => x.client \in v
    /\ x.pc = "replied" /\ x.answer = "unavailable" => x.errAge < negativeTTL
    /\ x.pc = "replied" /\ x.answer = "unreachable" => s[x.client] > 1

ChecksOK == checks = [r \in Procs |-> checks[r]] /\ \A r \in Procs : Sound(checks[r], secret, DOMAIN validators)

TInv ==
    /\ load \in Loads /\ now \in Nat /\ published \in [Issuers -> Nat]
    /\ CacheOK /\ FlightOK /\ CredsOK /\ ChecksOK

-----------------------------------------------------------------------------

\* What a step does to the caches: a request looks for keys, a fetch goes on, a
\* check goes on, or something changes around them.
TrustStep ==
    \/ \E p \in Procs, i \in Issuers, c \in LDAPClients : T!getJWKS(p, i, c)
    \/ \E i \in Issuers : T!Flight(i)
    \/ \E p \in Procs : T!Step(p)
    \/ T!Environment

LEMMA StepsOfTrust == TInv /\ SigningNext => load' = load /\ (TrustStep \/ UNCHANGED trustVars)
  BY SigningAssumption, Zenon DEF TInv, SigningNext, Handle, TrustStep, T!Step

\* Time goes on by a tick, the cache is written by the end of a fetch alone, and
\* credentials are replaced by later ones.
LEMMA TrustFrame ==
    ASSUME TInv, TrustStep
    PROVE  /\ now' = now \/ (T!Tick /\ now' = now + 1)
           /\ cache' = cache \/ \E i \in Issuers : T!StoreKeys(i) /\ now' = now
           /\ published' \in [Issuers -> Nat]
           /\ secret' = secret \/ \E c \in LDAPClients : T!NewCredentials(c)
<1>1. published \in [Issuers -> Nat]
  BY Zenon DEF TInv
<1>2. CASE \E p \in Procs, i \in Issuers, c \in LDAPClients : T!getJWKS(p, i, c)
  BY <1>1, <1>2, Zenon DEF T!getJWKS
<1>3. CASE \E i \in Issuers : T!Flight(i)
  BY <1>1, <1>3, Zenon DEF T!Flight, T!LookAgain, T!fetchJWKSFromIssuer, T!FetchFails, T!StoreKeys, T!envVars
<1>4. CASE \E p \in Procs : T!Step(p)
  <2>1. ASSUME NEW p \in Procs, T!Join(p) PROVE UNCHANGED <<now, cache, published, secret>>
    BY <2>1, Zenon DEF T!Join, T!envVars
  <2>2. ASSUME NEW p \in Procs, T!Step(p), ~T!Join(p) PROVE UNCHANGED <<T!keysVars, T!envVars>>
    BY <2>2, Zenon DEF T!Step, T!fetchCredentials, T!GetValidationCredentials, T!StoreCredentials, T!getOrCreateValidator, T!Validate, T!Done
  <2> QED
    BY <1>1, <1>4, <2>1, <2>2, Zenon DEF T!keysVars, T!envVars
<1>5. ASSUME NEW i, T!NewKeys(i) PROVE published' \in [Issuers -> Nat] /\ UNCHANGED <<now, cache, secret>>
  <2>1. published' = [published EXCEPT ![i] = @ + 1] /\ UNCHANGED <<now, cache, secret>>
    BY <1>5, Zenon DEF T!NewKeys, T!Change
  <2>2. CASE i \in Issuers
    <3>1. published[i] \in Nat
      BY <1>1, <2>2, Zenon
    <3>2. published[i] + 1 \in Nat
      BY <3>1
    <3> QED
      BY <1>1, <2>1, <3>2, Zenon
  <2>3. CASE i \notin Issuers
    BY <1>1, <2>1, <2>3, Zenon
  <2> QED
    BY <2>2, <2>3, <2>1, Zenon
<1>6. ASSUME NEW c \in LDAPClients, T!NewCredentials(c) \/ T!Drop(c) PROVE UNCHANGED <<now, cache, published>>
  BY <1>6, Zenon DEF T!NewCredentials, T!Drop, T!Change, T!keysVars
<1>7. ASSUME NEW c \in LDAPClients, T!Drop(c) PROVE UNCHANGED secret
  BY <1>7, Zenon DEF T!Drop
<1>8. ASSUME T!Tick PROVE now' = now + 1 /\ UNCHANGED <<cache, published, secret>>
  BY <1>8, Zenon DEF T!Tick, T!keysVars
<1> QED
  BY <1>1, <1>2, <1>3, <1>4, <1>5, <1>6, <1>7, <1>8, Zenon DEF TrustStep, T!Environment

\* A fetch ends in time and is begun only for keys that are too old.
LEMMA NextFlight == TInv /\ TrustStep => FlightOK'
<1> SUFFICES ASSUME TInv, TrustStep PROVE FlightOK'
  OBVIOUS
<1>1. CacheOK /\ FlightOK /\ now \in Nat /\ httpTimeout \in Nat /\ cacheTTL \in Nat /\ published \in [Issuers -> Nat]
  BY SigningAssumption, Zenon DEF TInv
<1>2. CASE UNCHANGED <<flight, cache, now>>
  BY <1>1, <1>2, Zenon DEF FlightOK
<1>3. ASSUME NEW i \in Issuers, NEW f \in Flights, flight' = [flight EXCEPT ![i] = f], Running(f, i, cache, now),
             UNCHANGED <<cache, now>>
      PROVE  FlightOK'
  BY <1>1, <1>3, Zenon DEF FlightOK
<1>4. T!NoFlight \in Flights /\ \A i, c, n : Running(T!NoFlight, i, c, n)
  BY Zenon DEF T!NoFlight, Flights, Running
<1>5. CASE T!Tick
  <2>1. now' = now + 1 /\ UNCHANGED <<cache, flight>>
    BY <1>5, Zenon DEF T!Tick, T!keysVars
  <2>2. ASSUME NEW i \in Issuers PROVE Running(flight[i], i, cache, now + 1)
    <3>1. flight[i] \in Flights /\ Running(flight[i], i, cache, now)
      BY <1>1, Zenon DEF FlightOK
    <3>2. flight[i].pc \in {"fetch", "store"} => now < flight[i].since + httpTimeout
      BY <1>5, Zenon DEF T!Tick
    <3>3. flight[i].pc \in {"fetch", "store"} => flight[i].since \in Nat
      BY <3>1, Zenon DEF Flights
    <3>4. flight[i].pc = "store" => flight[i].read \in Nat
      BY <3>1, Zenon DEF Flights
    <3> QED
      BY <1>1, <3>1, <3>2, <3>3, <3>4 DEF Running
  <2> QED
    BY <1>1, <2>1, <2>2, Zenon DEF FlightOK
<1>6. ASSUME NEW p \in Procs, T!Join(p) PROVE FlightOK'
  <2>1. checks[p].pc = "miss" /\ Sound(checks[p], secret, DOMAIN validators)
    BY <1>6, Zenon DEF T!Join, T!At, TInv, ChecksOK
  <2>2. checks[p].issuer \in Issuers
    BY <2>1, Zenon DEF Sound
  <2> DEFINE i == checks[p].issuer
             f == IF flight[i] = T!NoFlight THEN [pc |-> "lead"] ELSE flight[i]
  <2>3. flight' = [flight EXCEPT ![i] = f] /\ UNCHANGED <<cache, now>>
    BY <1>6, Zenon DEF T!Join, T!envVars
  <2>4. f \in Flights /\ Running(f, i, cache, now)
    BY <1>1, <2>2, Zenon DEF FlightOK, Flights, Running
  <2> QED
    BY <1>3, <2>2, <2>3, <2>4, Zenon
<1>7. ASSUME NEW i \in Issuers, T!LookAgain(i) PROVE FlightOK'
  <2>1. UNCHANGED <<cache, now>>
    BY <1>7, Zenon DEF T!LookAgain, T!envVars
  <2>2. CASE T!FreshKeys(i)
    BY <1>3, <1>4, <1>7, <2>1, <2>2, Zenon DEF T!LookAgain, T!Deliver
  <2>3. CASE ~T!FreshKeys(i)
    <3> DEFINE f == [pc |-> "fetch", since |-> now]
    <3>1. flight' = [flight EXCEPT ![i] = f]
      BY <1>7, <2>3, Zenon DEF T!LookAgain
    <3>2. i \in DOMAIN cache => now - cache[i].at >= cacheTTL
      <4>1. i \in DOMAIN cache => cache[i].at \in Nat /\ ~(now - cache[i].at < cacheTTL)
        BY <1>1, <2>3, Zenon DEF T!FreshKeys, CacheOK
      <4>2. now \in Nat /\ cacheTTL \in Nat
        BY <1>1, Zenon
      <4> QED
        BY <4>1, <4>2
    <3>3. now \in Nat /\ httpTimeout \in Nat
      BY <1>1, Zenon
    <3>4. now <= now /\ now <= now + httpTimeout
      BY <3>3
    <3>5. f \in Flights
      BY <3>3, Zenon DEF Flights
    <3>6. Running(f, i, cache, now)
      BY <3>2, <3>4, Zenon DEF Running
    <3> QED
      BY <1>3, <2>1, <3>1, <3>5, <3>6, Zenon
  <2> QED
    BY <2>2, <2>3, Zenon
<1>8. ASSUME NEW i \in Issuers, T!fetchJWKSFromIssuer(i) PROVE FlightOK'
  <2> DEFINE f == [pc |-> "store", since |-> flight[i].since, keys |-> published[i], read |-> now]
  <2>1. flight[i].pc = "fetch" /\ flight' = [flight EXCEPT ![i] = f] /\ UNCHANGED <<cache, now>>
    BY <1>8, Zenon DEF T!fetchJWKSFromIssuer, T!envVars
  <2>2. flight[i] \in [pc : {"fetch"}, since : Nat] /\ Running(flight[i], i, cache, now)
    BY <1>1, <2>1, Zenon DEF FlightOK, Flights
  <2>3. now \in Nat /\ now <= now
    BY <1>1
  <2>4. f \in Flights
    BY <1>1, <2>2, <2>3, Zenon DEF Flights
  <2>5. Running(f, i, cache, now)
    BY <2>1, <2>2, <2>3, Zenon DEF Running
  <2> QED
    BY <1>3, <2>1, <2>4, <2>5, Zenon
<1>9. ASSUME NEW i \in Issuers, T!FetchFails(i) PROVE FlightOK'
  BY <1>3, <1>4, <1>9, Zenon DEF T!FetchFails, T!Deliver, T!envVars
<1>10. ASSUME NEW i \in Issuers, T!StoreKeys(i) PROVE FlightOK'
  <2>1. flight' = [flight EXCEPT ![i] = T!NoFlight] /\ now' = now
    BY <1>10, Zenon DEF T!StoreKeys, T!Deliver, T!envVars
  <2>2. \A k \in DOMAIN cache' : k # i => k \in DOMAIN cache /\ cache'[k] = cache[k]
    BY <1>10, Zenon DEF T!StoreKeys
  <2>3. ASSUME NEW k \in Issuers, k # i PROVE Running(flight[k], k, cache', now)
    <3>1. Running(flight[k], k, cache, now)
      BY <1>1, Zenon DEF FlightOK
    <3> QED
      BY <2>2, <2>3, <3>1, Zenon DEF Running
  <2> QED
    BY <1>1, <1>4, <2>1, <2>3, Zenon DEF FlightOK
<1>11. ASSUME NEW p \in Procs, T!Step(p), ~T!Join(p) PROVE UNCHANGED <<flight, cache, now>>
  BY <1>11, Zenon DEF T!Step, T!fetchCredentials, T!GetValidationCredentials, T!StoreCredentials, T!getOrCreateValidator, T!Validate, T!Done,
     T!keysVars, T!envVars
<1>12. ASSUME NEW c, T!NewKeys(c) \/ T!NewCredentials(c) \/ T!Drop(c) PROVE UNCHANGED <<flight, cache, now>>
  BY <1>12, Zenon DEF T!NewKeys, T!NewCredentials, T!Drop, T!Change, T!keysVars
<1>13. ASSUME NEW p, NEW i, NEW c, T!getJWKS(p, i, c) PROVE UNCHANGED <<flight, cache, now>>
  BY <1>13, Zenon DEF T!getJWKS
<1> QED
  BY <1>2, <1>5, <1>6, <1>7, <1>8, <1>9, <1>10, <1>11, <1>12, <1>13, Zenon DEF TrustStep, T!Environment, T!Flight

\* A cache or a validator holds only credentials that the vault has had.
LEMMA NextCreds == TInv /\ TrustStep => CredsOK' /\ \A c \in LDAPClients : secret[c] <= secret'[c]
<1> SUFFICES ASSUME TInv, TrustStep PROVE CredsOK' /\ \A c \in LDAPClients : secret[c] <= secret'[c]
  OBVIOUS
<1>1. CredsOK /\ now \in Nat /\ \A r \in Procs : Sound(checks[r], secret, DOMAIN validators)
  BY Zenon DEF TInv, ChecksOK
<1>2. secret \in [LDAPClients -> Nat \ {0}]
  BY <1>1, Zenon DEF CredsOK
<1>3. CASE UNCHANGED <<secret, credCache, validators>>
  BY <1>1, <1>2, <1>3 DEF CredsOK
<1>4. ASSUME NEW c \in LDAPClients, T!NewCredentials(c) PROVE CredsOK' /\ \A d \in LDAPClients : secret[d] <= secret'[d]
  <2>1. secret' = [secret EXCEPT ![c] = @ + 1] /\ UNCHANGED <<credCache, validators>>
    BY <1>4, Zenon DEF T!NewCredentials, T!credVars
  <2>2. secret' \in [LDAPClients -> Nat \ {0}] /\ \A d \in LDAPClients : secret[d] <= secret'[d]
    BY <1>2, <2>1
  <2> QED
    BY <1>1, <1>2, <2>1, <2>2 DEF CredsOK
<1>5. ASSUME NEW r \in Procs, T!StoreCredentials(r) PROVE CredsOK' /\ UNCHANGED secret
  <2>1. checks[r].pc = "keep"
    BY <1>5, Zenon DEF T!StoreCredentials, T!At
  <2>2. checks[r].client \in LDAPClients /\ checks[r].creds \in (1 .. secret[checks[r].client]) \cup {T!Err}
    BY <1>1, <2>1, Zenon DEF Sound
  <2>3. /\ UNCHANGED <<secret, validators>>
        /\ credCache' = [c \in DOMAIN credCache \cup {checks[r].client} |->
                           IF c = checks[r].client THEN [creds |-> checks[r].creds, at |-> now] ELSE credCache[c]]
    BY <1>5, Zenon DEF T!StoreCredentials, T!envVars
  <2> QED
    BY <1>1, <2>2, <2>3, Zenon DEF CredsOK
<1>6. ASSUME NEW r \in Procs, T!getOrCreateValidator(r) PROVE CredsOK' /\ UNCHANGED secret
  <2>1. checks[r].pc = "validator"
    BY <1>6, Zenon DEF T!getOrCreateValidator, T!At
  <2>2. checks[r].client \in LDAPClients /\ checks[r].creds \in 1 .. secret[checks[r].client]
    BY <1>1, <2>1, Zenon DEF Sound
  <2>3. /\ UNCHANGED <<secret, credCache>>
        /\ validators' = [c \in DOMAIN validators \cup {checks[r].client} |->
                           IF c \in DOMAIN validators THEN validators[c] ELSE checks[r].creds]
    BY <1>6, Zenon DEF T!getOrCreateValidator, T!envVars
  <2> QED
    BY <1>1, <2>2, <2>3, Zenon DEF CredsOK
<1>7. ASSUME NEW r \in Procs, T!Join(r) \/ T!fetchCredentials(r) \/ T!GetValidationCredentials(r) \/ T!Validate(r) \/ T!Done(r)
      PROVE  UNCHANGED <<secret, credCache, validators>>
  BY <1>7, Zenon DEF T!Join, T!fetchCredentials, T!GetValidationCredentials, T!Validate, T!Done, T!credVars, T!envVars
<1>8. ASSUME NEW i \in Issuers, T!Flight(i) PROVE UNCHANGED <<secret, credCache, validators>>
  BY <1>8, Zenon DEF T!Flight, T!LookAgain, T!fetchJWKSFromIssuer, T!FetchFails, T!StoreKeys, T!credVars, T!envVars
<1>9. ASSUME NEW c, T!NewKeys(c) \/ T!Drop(c) \/ T!Tick PROVE UNCHANGED <<secret, credCache, validators>>
  BY <1>9, Zenon DEF T!NewKeys, T!Drop, T!Tick, T!credVars
<1>10. ASSUME NEW p, NEW i, NEW c, T!getJWKS(p, i, c) PROVE UNCHANGED <<secret, credCache, validators>>
  BY <1>10, Zenon DEF T!getJWKS, T!credVars
<1>11. ASSUME UNCHANGED secret PROVE \A c \in LDAPClients : secret[c] <= secret'[c]
  BY <1>2, <1>11
<1> QED
  BY <1>3, <1>4, <1>5, <1>6, <1>7, <1>8, <1>9, <1>10, <1>11, Zenon DEF TrustStep, T!Environment, T!Step

\* A check relies on nothing that a later credential or a new validator takes away.
LEMMA SoundStays ==
    ASSUME NEW s \in [LDAPClients -> Nat \ {0}], NEW t \in [LDAPClients -> Nat \ {0}], \A c \in LDAPClients : s[c] <= t[c],
           NEW v, NEW w, v \subseteq w, NEW x, Sound(x, s, v)
    PROVE  Sound(x, t, w)
<1>1. ASSUME x.pc # "idle" PROVE x.client \in LDAPClients /\ s[x.client] \in Nat /\ t[x.client] \in Nat /\ s[x.client] <= t[x.client]
  BY <1>1, Zenon DEF Sound
<1>2. x.pc = "keep" => x.creds \in (1 .. t[x.client]) \cup {T!Err}
  BY <1>1 DEF Sound
<1>3. x.pc = "validator" => x.creds \in 1 .. t[x.client]
  BY <1>1 DEF Sound
<1>4. x.pc = "replied" /\ x.answer = "unreachable" => t[x.client] > 1
  BY <1>1 DEF Sound
<1> QED
  BY <1>2, <1>3, <1>4, Zenon DEF Sound

\* What a check relies on, at the beginning of a step and after it.
LEMMA Grounds ==
    ASSUME TInv, TrustStep
    PROVE  /\ CacheOK /\ FlightOK /\ CredsOK /\ now \in Nat /\ checks = [r \in Procs |-> checks[r]]
           /\ httpTimeout \in Nat /\ cacheTTL \in Nat /\ negativeTTL \in Nat \ {0}
           /\ \A r \in Procs : Sound(checks[r], secret, DOMAIN validators)
           /\ secret \in [LDAPClients -> Nat \ {0}] /\ secret' \in [LDAPClients -> Nat \ {0}]
           /\ \A c \in LDAPClients : secret[c] <= secret'[c]
<1>1. CredsOK' /\ \A c \in LDAPClients : secret[c] <= secret'[c]
  BY NextCreds, Zenon
<1> QED
  BY <1>1, SigningAssumption, Zenon DEF TInv, ChecksOK, CredsOK

\* Checks that do not go on keep their grounds.
LEMMA ChecksStay ==
    ASSUME TInv, TrustStep, DOMAIN validators \subseteq DOMAIN validators', UNCHANGED checks
    PROVE  ChecksOK'
  BY SoundStays, Grounds, Zenon DEF ChecksOK

\* One check goes on.
LEMMA CheckGoes ==
    ASSUME TInv, TrustStep, DOMAIN validators \subseteq DOMAIN validators',
           NEW r \in Procs, NEW x, T!Go(r, x), Sound(x, secret, DOMAIN validators')
    PROVE  ChecksOK'
<1>1. checks' = [q \in Procs |-> IF q = r THEN x ELSE checks[q]]
  BY Grounds, Zenon DEF T!Go
<1>2. ASSUME NEW q \in Procs PROVE Sound(checks'[q], secret', DOMAIN validators')
  <2>1. CASE q = r
    BY <1>1, <2>1, Grounds, SoundStays, Zenon
  <2>2. CASE q # r
    BY <1>1, <2>2, Grounds, SoundStays, Zenon
  <2> QED
    BY <2>1, <2>2, Zenon
<1> QED
  BY <1>1, <1>2, Zenon DEF ChecksOK

\* Everyone who waits for a fetch goes on with its outcome.
LEMMA ChecksDelivered ==
    ASSUME TInv, TrustStep, NEW i \in Issuers, NEW out, T!Deliver(i, out), UNCHANGED validators,
           \A r \in T!Waiting(i) : Sound(out[r], secret, DOMAIN validators)
    PROVE  ChecksOK'
<1>1. checks' = [r \in Procs |-> IF r \in T!Waiting(i) THEN out[r] ELSE checks[r]]
  BY Zenon DEF T!Deliver
<1>2. ASSUME NEW q \in Procs PROVE Sound(checks'[q], secret', DOMAIN validators')
  <2>1. Sound(checks'[q], secret, DOMAIN validators)
    BY <1>1, Grounds, Zenon
  <2> QED
    BY <2>1, Grounds, SoundStays, Zenon
<1> QED
  BY <1>1, <1>2, Zenon DEF ChecksOK

\* A request that finds the keys of its issuer goes on with keys that are fresh.
LEMMA RequestChecks ==
    ASSUME TInv, TrustStep, NEW i \in Issuers, NEW r \in Procs, NEW c \in LDAPClients, T!getJWKS(r, i, c)
    PROVE  ChecksOK'
<1> DEFINE v == DOMAIN validators
<1>1. CacheOK /\ now \in Nat /\ httpTimeout \in Nat /\ cacheTTL \in Nat /\ Sound(checks[r], secret, v)
  BY Grounds, Zenon
<1>2. ASSUME T!FreshKeys(i) PROVE cache[i].read \in Nat /\ now - cache[i].read <= cacheTTL + httpTimeout
  BY <1>1, <1>2 DEF T!FreshKeys, CacheOK
<1>3. UNCHANGED validators
  BY Zenon DEF T!getJWKS, T!credVars
<1>4. CASE T!FreshKeys(i)
  <2> DEFINE x == [pc |-> "creds", client |-> c, began |-> now, keysAge |-> now - cache[i].read]
  <2>1. T!Go(r, x)
    BY <1>4, Zenon DEF T!getJWKS
  <2>2. Sound(x, secret, v)
    BY <1>2, <1>4, Zenon DEF Sound, TrustSteps
  <2> QED
    BY <1>3, <2>1, <2>2, CheckGoes, Zenon
<1>5. CASE ~T!FreshKeys(i)
  <2> DEFINE x == [pc |-> "miss", issuer |-> i, client |-> c, began |-> now]
  <2>1. T!Go(r, x)
    BY <1>5, Zenon DEF T!getJWKS
  <2>2. Sound(x, secret, v)
    BY <1>1, Zenon DEF Sound, TrustSteps
  <2> QED
    BY <1>3, <2>1, <2>2, CheckGoes, Zenon
<1> QED
  BY <1>4, <1>5, Zenon

\* One that finds none waits.
LEMMA JoinChecks == ASSUME TInv, TrustStep, NEW r \in Procs, T!Join(r) PROVE ChecksOK'
<1> DEFINE x == [checks[r] EXCEPT !.pc = "wait"]
<1>1. checks[r].pc = "miss" /\ T!Go(r, x) /\ UNCHANGED validators
  BY Zenon DEF T!Join, T!At, T!credVars
<1>2. checks[r] \in [pc : {"miss", "wait"}, issuer : Issuers, client : LDAPClients, began : Nat]
  BY <1>1, Grounds, Zenon DEF Sound
<1>3. x \in [pc : {"miss", "wait"}, issuer : Issuers, client : LDAPClients, began : Nat] /\ x.pc = "wait"
  BY <1>2, Zenon
<1> HIDE DEF x
<1>4. Sound(x, secret, DOMAIN validators)
  BY <1>3, Zenon DEF Sound, TrustSteps
<1> QED
  BY <1>1, <1>4, CheckGoes, Zenon

\* Those that wait for a fetch go on with keys that are fresh, or are refused.
LEMMA FetchChecks ==
    ASSUME TInv, TrustStep, NEW i \in Issuers, T!LookAgain(i) \/ T!FetchFails(i) \/ T!StoreKeys(i)
    PROVE  ChecksOK'
<1> DEFINE v == DOMAIN validators
<1>1. CacheOK /\ FlightOK /\ now \in Nat /\ httpTimeout \in Nat /\ cacheTTL \in Nat
  BY Grounds, Zenon
<1>2. ASSUME T!FreshKeys(i) PROVE cache[i].read \in Nat /\ now - cache[i].read <= cacheTTL + httpTimeout
  BY <1>1, <1>2 DEF T!FreshKeys, CacheOK
<1>3. ASSUME NEW r \in T!Waiting(i) PROVE r \in Procs /\ checks[r].client \in LDAPClients
  BY <1>3, Grounds, Zenon DEF T!Waiting, T!At, Sound
<1>4. CASE T!LookAgain(i)
  <2>1. UNCHANGED validators
    BY <1>4, Zenon DEF T!LookAgain, T!credVars
  <2>2. CASE T!FreshKeys(i)
    <3> DEFINE out == [r \in T!Waiting(i) |-> T!WithKeys(r, cache[i].read)]
    <3>1. T!Deliver(i, out)
      BY <1>4, <2>2, Zenon DEF T!LookAgain
    <3>2. ASSUME NEW r \in T!Waiting(i) PROVE Sound(out[r], secret, v)
      BY <1>2, <1>3, <2>2, <3>2, Zenon DEF T!WithKeys, Sound, TrustSteps
    <3> QED
      BY <2>1, <3>1, <3>2, ChecksDelivered, Zenon
  <2>3. CASE ~T!FreshKeys(i)
    BY <1>4, <2>1, <2>3, ChecksStay, Zenon DEF T!LookAgain
  <2> QED
    BY <2>2, <2>3, Zenon
<1>5. CASE T!FetchFails(i)
  <2> DEFINE out == [r \in T!Waiting(i) |-> T!Refused(r)]
  <2>1. T!Deliver(i, out) /\ UNCHANGED validators
    BY <1>5, Zenon DEF T!FetchFails, T!credVars
  <2>2. ASSUME NEW r \in T!Waiting(i) PROVE Sound(out[r], secret, v)
    BY <1>3, <2>2, Zenon DEF T!Refused, Sound, TrustSteps
  <2> QED
    BY <2>1, <2>2, ChecksDelivered, Zenon
<1>6. CASE T!StoreKeys(i)
  <2> DEFINE out == [r \in T!Waiting(i) |-> T!WithKeys(r, flight[i].read)]
  <2>1. T!Deliver(i, out) /\ UNCHANGED validators /\ flight[i].pc = "store"
    BY <1>6, Zenon DEF T!StoreKeys, T!credVars
  <2>2. flight[i].read \in Nat /\ now - flight[i].read <= cacheTTL + httpTimeout
    <3>1. flight[i] \in [pc : {"store"}, since : Nat, keys : Nat, read : Nat] /\ Running(flight[i], i, cache, now)
      BY <1>1, <2>1, Zenon DEF FlightOK, Flights
    <3> QED
      BY <1>1, <2>1, <3>1 DEF Running
  <2>3. ASSUME NEW r \in T!Waiting(i) PROVE Sound(out[r], secret, v)
    BY <1>3, <2>2, <2>3, Zenon DEF T!WithKeys, Sound, TrustSteps
  <2> QED
    BY <2>1, <2>3, ChecksDelivered, Zenon
<1> QED
  BY <1>4, <1>5, <1>6, Zenon

\* Credentials are used as long as they are cached for, and failures shorter.
LEMMA CredentialsChecks ==
    ASSUME TInv, TrustStep, NEW r \in Procs, T!fetchCredentials(r) \/ T!GetValidationCredentials(r) \/ T!StoreCredentials(r)
    PROVE  ChecksOK'
<1> DEFINE v == DOMAIN validators
<1>1. CredsOK /\ now \in Nat /\ negativeTTL \in Nat \ {0} /\ secret \in [LDAPClients -> Nat \ {0}] /\ Sound(checks[r], secret, v)
  BY Grounds, Zenon
<1>2. ASSUME NEW creds, NEW age, checks[r].client \in LDAPClients,
              creds \in (1 .. secret[checks[r].client]) \cup {T!Err}, creds = T!Err => age < negativeTTL
       PROVE  Sound(T!WithCreds(r, creds, age), secret, v)
  <2>1. CASE creds = T!Err
    BY <1>2, <2>1, Zenon DEF T!WithCreds, Sound, TrustSteps
  <2>2. CASE creds # T!Err
    BY <1>2, <2>2, Zenon DEF T!WithCreds, Sound, TrustSteps
  <2> QED
    BY <2>1, <2>2, Zenon
<1>3. CASE T!fetchCredentials(r)
  <2> DEFINE c == checks[r].client
             age == now - credCache[c].at
             held == c \in DOMAIN credCache /\ age < T!ttl(credCache[c].creds)
  <2>1. checks[r].pc = "creds" /\ UNCHANGED validators
    BY <1>3, Zenon DEF T!fetchCredentials, T!At, T!credVars
  <2>2. c \in LDAPClients
    BY <1>1, <2>1, Zenon DEF Sound
  <2>3. CASE held
    <3>1. T!Go(r, T!WithCreds(r, credCache[c].creds, age))
      BY <1>3, <2>3, Zenon DEF T!fetchCredentials
    <3>2. credCache[c].creds \in (1 .. secret[c]) \cup {T!Err}
      BY <1>1, <2>3, Zenon DEF CredsOK
    <3>3. credCache[c].creds = T!Err => age < negativeTTL
      BY <2>3, Zenon DEF T!ttl
    <3>4. Sound(T!WithCreds(r, credCache[c].creds, age), secret, v)
      BY <1>2, <2>2, <3>2, <3>3, Zenon
    <3> QED
      BY <2>1, <3>1, <3>4, CheckGoes, Zenon
  <2>4. CASE ~held
    <3> DEFINE x == [pc |-> "vault", client |-> c, began |-> checks[r].began]
    <3>1. T!Go(r, x)
      BY <1>3, <2>4, Zenon DEF T!fetchCredentials
    <3>2. Sound(x, secret, v)
      BY <2>2, Zenon DEF Sound, TrustSteps
    <3> QED
      BY <2>1, <3>1, <3>2, CheckGoes, Zenon
  <2> QED
    BY <2>3, <2>4, Zenon
<1>4. CASE T!GetValidationCredentials(r)
  <2> DEFINE x(creds) == [pc |-> "keep", client |-> checks[r].client, began |-> checks[r].began, creds |-> creds]
  <2>1. checks[r].pc = "vault" /\ UNCHANGED validators /\ (T!Go(r, x(secret[checks[r].client])) \/ T!Go(r, x(T!Err)))
    BY <1>4, Zenon DEF T!GetValidationCredentials, T!At, T!credVars
  <2>2. checks[r].client \in LDAPClients
    BY <1>1, <2>1, Zenon DEF Sound
  <2>3. Sound(x(secret[checks[r].client]), secret, v)
    <3>1. secret[checks[r].client] \in 1 .. secret[checks[r].client]
      BY <1>1, <2>2
    <3> QED
      BY <2>2, <3>1, Zenon DEF Sound, TrustSteps
  <2>4. Sound(x(T!Err), secret, v)
    BY <2>2, Zenon DEF Sound, TrustSteps
  <2> HIDE DEF x
  <2>5. CASE T!Go(r, x(secret[checks[r].client]))
    BY <2>1, <2>3, <2>5, CheckGoes, Zenon
  <2>6. CASE T!Go(r, x(T!Err))
    BY <2>1, <2>4, <2>6, CheckGoes, Zenon
  <2> QED
    BY <2>1, <2>5, <2>6, Zenon
<1>5. CASE T!StoreCredentials(r)
  <2>1. checks[r].pc = "keep" /\ UNCHANGED validators /\ T!Go(r, T!WithCreds(r, checks[r].creds, 0))
    BY <1>5, Zenon DEF T!StoreCredentials, T!At
  <2>2. checks[r].client \in LDAPClients /\ checks[r].creds \in (1 .. secret[checks[r].client]) \cup {T!Err}
    BY <1>1, <2>1, Zenon DEF Sound
  <2>3. 0 < negativeTTL
    BY <1>1
  <2>4. Sound(T!WithCreds(r, checks[r].creds, 0), secret, v)
    BY <1>2, <2>2, <2>3, Zenon
  <2> QED
    BY <2>1, <2>4, CheckGoes, Zenon
<1> QED
  BY <1>3, <1>4, <1>5, Zenon

\* A validator is there before it is used, and fails with old credentials alone.
LEMMA DirectoryChecks ==
    ASSUME TInv, TrustStep, NEW r \in Procs, T!getOrCreateValidator(r) \/ T!Validate(r) \/ T!Done(r)
    PROVE  ChecksOK'
<1> DEFINE v == DOMAIN validators
<1>1. CredsOK /\ secret \in [LDAPClients -> Nat \ {0}] /\ Sound(checks[r], secret, v)
  BY Grounds, Zenon
<1>2. CASE T!getOrCreateValidator(r)
  <2> DEFINE x == [pc |-> "search", client |-> checks[r].client, began |-> checks[r].began]
  <2>1. checks[r].pc = "validator" /\ T!Go(r, x)
    BY <1>2, Zenon DEF T!getOrCreateValidator, T!At
  <2>2. DOMAIN validators' = v \cup {checks[r].client}
    BY <1>2, Zenon DEF T!getOrCreateValidator
  <2>3. checks[r].client \in LDAPClients
    BY <1>1, <2>1, Zenon DEF Sound
  <2>4. Sound(x, secret, DOMAIN validators')
    BY <2>2, <2>3, Zenon DEF Sound, TrustSteps
  <2> QED
    BY <2>1, <2>2, <2>4, CheckGoes, Zenon
<1>3. CASE T!Validate(r)
  <2> DEFINE c == checks[r].client
             x(answer) == [pc |-> "replied", client |-> c, began |-> checks[r].began, answer |-> answer]
  <2>1. checks[r].pc = "search" /\ UNCHANGED validators /\ T!Go(r, x(IF T!searchLDAP(c) THEN "allowed" ELSE "unreachable"))
    BY <1>3, Zenon DEF T!Validate, T!At, T!Reply
  <2>2. c \in LDAPClients /\ c \in v
    BY <1>1, <2>1, Zenon DEF Sound
  <2>3. CASE T!searchLDAP(c)
    <3>1. Sound(x("allowed"), secret, v)
      BY <2>2, Zenon DEF Sound, TrustSteps
    <3> QED
      BY <2>1, <2>3, <3>1, CheckGoes, Zenon
  <2>4. CASE ~T!searchLDAP(c)
    <3>1. validators[c] # secret[c]
      BY <2>4, Zenon DEF T!searchLDAP, T!ensureConn
    <3>2. secret[c] > 1
      BY <1>1, <2>2, <3>1 DEF CredsOK
    <3>3. Sound(x("unreachable"), secret, v)
      BY <2>2, <3>2, Zenon DEF Sound, TrustSteps
    <3> QED
      BY <2>1, <2>4, <3>3, CheckGoes, Zenon
  <2> QED
    BY <2>3, <2>4, Zenon
<1>4. CASE T!Done(r)
  <2>1. T!Go(r, T!Idle) /\ UNCHANGED validators
    BY <1>4, Zenon DEF T!Done, T!credVars
  <2>2. Sound(T!Idle, secret, v)
    BY Zenon DEF Sound, TrustSteps, T!Idle
  <2> QED
    BY <2>1, <2>2, CheckGoes, Zenon
<1> QED
  BY <1>2, <1>3, <1>4, Zenon

\* Every check goes on to a state that it has the grounds for.
LEMMA NextChecks == TInv /\ TrustStep => ChecksOK'
<1> SUFFICES ASSUME TInv, TrustStep PROVE ChecksOK'
  OBVIOUS
<1>1. ASSUME NEW i, T!fetchJWKSFromIssuer(i) \/ T!NewKeys(i) \/ T!NewCredentials(i) \/ T!Drop(i) \/ T!Tick PROVE ChecksOK'
  <2>1. UNCHANGED <<checks, validators>>
    BY <1>1, Zenon DEF T!fetchJWKSFromIssuer, T!NewKeys, T!NewCredentials, T!Drop, T!Tick, T!Change, T!credVars
  <2> QED
    BY <2>1, ChecksStay, Zenon
<1> QED
  BY <1>1, RequestChecks, JoinChecks, FetchChecks, CredentialsChecks, DirectoryChecks, Zenon DEF TrustStep, T!Environment, T!Flight, T!Step

\* Keys that are fetched again are older than every fresh entry, so they are not
\* stored in the place of one.
LEMMA FreshKept ==
    ASSUME TInv, TrustStep, NEW i \in DOMAIN cache, NEW j \in DOMAIN cache,
           i # j, i \in DOMAIN cache', cache'[i] # cache[i], T!FreshKeys(j)
    PROVE  j \in DOMAIN cache'
<1>1. PICK k \in Issuers : T!StoreKeys(k)
  BY TrustFrame, Zenon
<1>2. PICK gone \in T!Evict :
         cache' = [m \in (DOMAIN cache \ gone) \cup {k} |->
                     IF m = k THEN [keys |-> flight[k].keys, read |-> flight[k].read, at |-> now] ELSE cache[m]]
  BY <1>1, Zenon DEF T!StoreKeys
<1>3. k = i
  BY <1>2, Zenon
<1>4. flight[i] \in Flights /\ Running(flight[i], i, cache, now) /\ flight[i].pc = "store"
  BY <1>1, <1>3, Zenon DEF TInv, FlightOK, T!StoreKeys
<1>5. flight[i].since \in Nat
  BY <1>4, Zenon DEF Flights
<1>6. flight[i].since <= now /\ flight[i].since - cache[i].at >= cacheTTL
  BY <1>4, Zenon DEF Running
<1>7. cache[i].at \in Nat /\ cache[j].at \in Nat /\ now \in Nat /\ cacheTTL \in Nat
  BY SigningAssumption, Zenon DEF TInv, CacheOK
<1>8. now - cache[j].at < cacheTTL
  BY Zenon DEF T!FreshKeys
<1>9. ~(cache[j].at <= cache[i].at)
  BY <1>5, <1>6, <1>7, <1>8
<1>10. j \notin T!Oldest
  BY <1>9, Zenon DEF T!Oldest
<1>11. j \notin gone
  BY <1>10, Zenon DEF T!Evict
<1> QED
  BY <1>2, <1>11, Zenon

\* No fetch and no check is under way at the start.
LEMMA InitTrust ==
    ASSUME SigningInit
    PROVE  /\ load \in Loads /\ now \in Nat /\ published \in [Issuers -> Nat]
           /\ DOMAIN cache = {} /\ FlightOK /\ CredsOK /\ ChecksOK
<1>1. load \in Loads /\ T!Init
  BY Zenon DEF SigningInit, Init
<1>2. now = 0 /\ published = [i \in Issuers |-> 1] /\ cache = [i \in {} |-> {}] /\ flight = [i \in Issuers |-> T!NoFlight]
  BY <1>1, Zenon DEF T!Init
<1>3. /\ secret = [c \in LDAPClients |-> 1] /\ credCache = [c \in {} |-> {}] /\ validators = [c \in {} |-> 0]
      /\ checks = [r \in Procs |-> T!Idle]
  BY <1>1, Zenon DEF T!Init
<1>4. FlightOK
  BY <1>2, Zenon DEF FlightOK, Flights, Running, T!NoFlight
<1>5. CredsOK
  BY <1>3 DEF CredsOK
<1>6. ChecksOK
  BY <1>3, Zenon DEF ChecksOK, Sound, TrustSteps, T!Idle
<1> QED
  BY <1>1, <1>2, <1>4, <1>5, <1>6, Zenon

-----------------------------------------------------------------------------
(* The size of the cache. *)

INSTANCE FiniteSetTheorems

\* The instance counts as this module does.
LEMMA SameCardinality == \A S : T!Cardinality(S) = Cardinality(S)
  BY Zenon DEF T!Cardinality, Cardinality

\* Storing the keys of an issuer evicts one entry where there is no room.
LEMMA StoringBounded ==
    ASSUME CacheOK, NEW i \in Issuers, NEW gone \in T!Evict
    PROVE  /\ IsFiniteSet((DOMAIN cache \ gone) \cup {i})
           /\ Cardinality((DOMAIN cache \ gone) \cup {i}) <= maxProviders
<1> DEFINE D == DOMAIN cache
           kept == D \ gone
<1>1. IsFiniteSet(D) /\ Cardinality(D) \in Nat /\ Cardinality(D) <= maxProviders /\ maxProviders \in Nat \ {0}
  BY FS_CardinalityType, SigningAssumption, Zenon DEF CacheOK
<1>2. IsFiniteSet(kept) /\ Cardinality(kept) \in Nat /\ Cardinality(kept) + 1 <= maxProviders
  <2>1. CASE Cardinality(D) < maxProviders
    <3>1. T!Evict = {{}}
      BY <2>1, SameCardinality, Zenon DEF T!Evict
    <3>2. kept = D
      BY <3>1, Zenon
    <3> QED
      BY <1>1, <2>1, <3>2
  <2>2. CASE ~(Cardinality(D) < maxProviders)
    <3>1. PICK k \in D : gone = {k}
      <4>1. T!Evict = {{k} : k \in T!Oldest}
        BY <2>2, SameCardinality, Zenon DEF T!Evict
      <4> QED
        BY <4>1, Zenon DEF T!Oldest
    <3>2. kept = D \ {k}
      BY <3>1, Zenon
    <3>3. IsFiniteSet(D \ {k}) /\ Cardinality(D \ {k}) = Cardinality(D) - 1
      BY <1>1, FS_RemoveElement, Zenon
    <3> HIDE DEF D, kept
    <3>4. Cardinality(kept) \in Nat
      BY <3>2, <3>3, FS_CardinalityType, Zenon
    <3>5. /\ Cardinality(D) \in Nat /\ maxProviders \in Nat /\ Cardinality(D) <= maxProviders
          /\ Cardinality(kept) = Cardinality(D) - 1
      BY <1>1, <3>2, <3>3, Zenon
    <3>6. Cardinality(kept) + 1 <= maxProviders
      BY <3>5
    <3> QED
      BY <3>2, <3>3, <3>4, <3>6, Zenon
  <2> QED
    BY <2>1, <2>2, Zenon
<1> HIDE DEF kept
<1>3. IsFiniteSet(kept \cup {i}) /\ Cardinality(kept \cup {i}) = IF i \in kept THEN Cardinality(kept) ELSE Cardinality(kept) + 1
  BY <1>2, FS_AddElement, Zenon
<1>4. Cardinality(kept \cup {i}) <= maxProviders
  BY <1>1, <1>2, <1>3
<1> QED
  BY <1>3, <1>4, Zenon DEF kept

\* The cache stays bounded, and no entry is older when stored than a fetch takes.
LEMMA NextCache == TInv /\ TrustStep => CacheOK'
<1> SUFFICES ASSUME TInv, TrustStep PROVE CacheOK'
  OBVIOUS
<1>1. CacheOK /\ FlightOK /\ now \in Nat /\ httpTimeout \in Nat
  BY SigningAssumption, Zenon DEF TInv
<1>2. CASE UNCHANGED cache
  <2>1. now \in Nat /\ (now' = now \/ now' = now + 1)
    BY <1>1, TrustFrame, Zenon
  <2>2. now' \in Nat /\ \A n \in Nat : n <= now => n <= now'
    BY <2>1
  <2> QED
    BY <1>1, <1>2, <2>2, Zenon DEF CacheOK
<1>3. ASSUME NEW i \in Issuers, T!StoreKeys(i), now' = now PROVE CacheOK'
  <2> DEFINE entry == [keys |-> flight[i].keys, read |-> flight[i].read, at |-> now]
  <2>1. PICK gone \in T!Evict : cache' = [k \in (DOMAIN cache \ gone) \cup {i} |-> IF k = i THEN entry ELSE cache[k]]
    BY <1>3, Zenon DEF T!StoreKeys
  <2>2. flight[i].pc = "store"
    BY <1>3, Zenon DEF T!StoreKeys
  <2>3. flight[i] \in [pc : {"store"}, since : Nat, keys : Nat, read : Nat]
    BY <1>1, <2>2, Zenon DEF FlightOK, Flights
  <2>4. entry.read \in Nat /\ entry.at = now /\ now <= entry.read + httpTimeout
    BY <1>1, <2>2, <2>3 DEF FlightOK, Running
  <2> HIDE DEF entry
  <2>5. DOMAIN cache' = (DOMAIN cache \ gone) \cup {i} /\ DOMAIN cache' \subseteq Issuers
    BY <1>1, <2>1, Zenon DEF CacheOK
  <2>6. IsFiniteSet(DOMAIN cache') /\ Cardinality(DOMAIN cache') <= maxProviders
    BY <1>1, <2>5, StoringBounded, Zenon
  <2>7. ASSUME NEW k \in DOMAIN cache'
        PROVE  /\ cache'[k].read \in Nat /\ cache'[k].at \in Nat
               /\ cache'[k].at <= now' /\ cache'[k].at <= cache'[k].read + httpTimeout
    <3>1. CASE k = i
      <4>1. cache'[k] = entry /\ now' = now
        BY <1>3, <2>1, <2>5, <3>1, Zenon
      <4>2. now \in Nat /\ now <= now
        BY <1>1
      <4> QED
        BY <2>4, <4>1, <4>2, Zenon
    <3>2. CASE k # i
      BY <1>1, <1>3, <2>1, <2>5, <3>2, Zenon DEF CacheOK
    <3> QED
      BY <3>1, <3>2, Zenon
  <2> QED
    BY <2>5, <2>6, <2>7, Zenon DEF CacheOK
<1> QED
  BY <1>2, <1>3, TrustFrame, Zenon

-----------------------------------------------------------------------------

\* Nothing is remembered at the start.
LEMMA InitTInv == SigningInit => TInv
<1> SUFFICES ASSUME SigningInit PROVE TInv
  OBVIOUS
<1>1. IsFiniteSet({}) /\ Cardinality({}) = 0
  BY FS_EmptySet, Zenon
<1>2. CacheOK
  BY <1>1, InitTrust, SigningAssumption DEF CacheOK
<1> QED
  BY <1>2, InitTrust, SigningAssumption, ZenonT(30) DEF TInv

\* The invariant, of every step and of every stuttering step.
LEMMA TInvInductive == SigningSpec => []TInv
<1>1. ASSUME TInv, [SigningNext]_<<load, vars, trustVars>> PROVE TInv'
  <2>1. load' \in Loads /\ (TrustStep \/ UNCHANGED trustVars)
    BY <1>1, StepsOfTrust, Zenon DEF TInv
  <2>2. CASE TrustStep
    <3>1. now \in Nat /\ (now' = now \/ now' = now + 1) /\ published' \in [Issuers -> Nat]
      BY <1>1, <2>2, TrustFrame, Zenon DEF TInv
    <3>2. now' \in Nat
      BY <3>1
    <3> QED
      BY <1>1, <2>1, <2>2, <3>1, <3>2, NextCache, NextFlight, NextCreds, NextChecks, ZenonT(30) DEF TInv
  <2>3. CASE UNCHANGED trustVars
    BY <1>1, <2>1, <2>3, ZenonT(30) DEF TInv, CacheOK, FlightOK, CredsOK, ChecksOK, trustVars
  <2> QED
    BY <2>1, <2>2, <2>3, Zenon
<1> QED
  BY <1>1, InitTInv, PTL DEF SigningSpec

\* The caches stay bounded and what they hold does not outlive its time, for any
\* number of issuers, clients and requests and any lifetimes (getJWKS,
\* oidc_validator.go; fetchCredentials, dispatcher.go; Validate, ldap.go).
THEOREM CachesStaySound == SigningSpec => []CachesSound
<1>1. TInv => CachesSound
  BY SameCardinality, Zenon DEF TInv, CacheOK, ChecksOK, Sound, CachesSound, T!CachesSound, T!At
<1> QED
  BY <1>1, TInvInductive, PTL

\* Fetching the keys of an issuer again never costs another issuer its fresh keys
\* (getJWKS).
THEOREM RefreshesKeepFresh == SigningSpec => RefreshKeepsFresh
<1>1. ASSUME TInv, [SigningNext]_<<load, vars, trustVars>>
      PROVE  [\A i, j \in DOMAIN cache :
                 (i # j /\ i \in DOMAIN cache' /\ cache'[i] # cache[i] /\ T!FreshKeys(j)) => j \in DOMAIN cache']_<<cache>>
  <2> SUFFICES ASSUME NEW i \in DOMAIN cache, NEW j \in DOMAIN cache, i # j, i \in DOMAIN cache', cache'[i] # cache[i], T!FreshKeys(j)
               PROVE  j \in DOMAIN cache'
    OBVIOUS
  <2>1. TrustStep
    BY <1>1, StepsOfTrust, Zenon DEF trustVars
  <2> QED
    BY <1>1, <2>1, FreshKept, Zenon
<1> QED
  BY <1>1, TInvInductive, PTL DEF SigningSpec, RefreshKeepsFresh, T!RefreshKeepsFresh
=============================================================================
