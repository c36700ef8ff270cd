-------------------------- MODULE CertificateListing --------------------------
(***************************************************************************)
(* What users see of their certificates: pages of the issuance log, each   *)
(* certificate with whether a revocation names its serial number.          *)
(***************************************************************************)
EXTENDS Signing, SequencesExt

EventsFor(cert) == {i \in DOMAIN revocations : revocations[i].serial = cert.serial}

\* A left join: a certificate without an event is one row, one with several is several.
WithStatus(cert) ==
    LET revoked == EventsFor(cert) # {}
    IN [k \in 1..(IF revoked THEN Cardinality(EventsFor(cert)) ELSE 1) |-> [cert |-> cert, revoked |-> revoked]]

\* Mutant of the next one: the certificates of everybody are listed.
IssuedToAnyone(email) == Reverse(issued)

IssuedTo(email) == Reverse(SelectSeq(issued, LAMBDA c : c.email = email))

ListCertificatesByEmail(email, limit, offset) ==
    LET rows == FlattenSeq([i \in DOMAIN IssuedTo(email) |-> WithStatus(IssuedTo(email)[i])])
        size == IF limit <= 0 THEN 20 ELSE IF limit > 100 THEN 100 ELSE limit
    IN [certificates |-> SubSeq(rows, offset + 1, IF offset + size < Len(rows) THEN offset + size ELSE Len(rows)),
        total |-> Len(IssuedTo(email))]

GetCertificateBySerial(serial) ==
    LET found == SelectSeq(issued, LAMBDA c : c.serial = serial) IN IF found = <<>> THEN {} ELSE {WithStatus(Head(found))[1]}

HandleList(token, limit, offset) ==
    IF BearerAuthMiddleware(token) THEN ListCertificatesByEmail(Tokens[token].email, limit, offset)
    ELSE [certificates |-> <<>>, total |-> 0]

HandleGet(token, serial) ==
    {s \in GetCertificateBySerial(serial) : BearerAuthMiddleware(token) /\ s.cert.email = Tokens[token].email}

-----------------------------------------------------------------------------
(* Properties *)

\* Page by page a user sees the own certificates and no others, each revoked
\* if its serial number is (HandleList and HandleGet, certificates.go).
ListingScoped ==
    \A t \in DOMAIN Tokens :
        LET all   == HandleList(t, 100, 0)
            pages == [k \in 1..Len(all.certificates) |-> HandleList(t, 1, k - 1).certificates]
            mine  == {c \in ToSet(issued) : ValidateAccessToken(t) /\ c.email = Tokens[t].email}
        IN /\ FlattenSeq(pages) = all.certificates
           /\ {s.cert : s \in ToSet(all.certificates)} = mine
           /\ \A s \in ToSet(all.certificates) : s.revoked <=> \E i \in DOMAIN revocations : revocations[i].serial = s.cert.serial
           /\ \A c \in ToSet(issued) : (HandleGet(t, c.serial) # {}) <=> c \in mine
=============================================================================
