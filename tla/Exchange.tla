------------------------------- MODULE Exchange -------------------------------
(***************************************************************************)
(* A claimer, an attester and a verifier: the claimer makes a request,     *)
(* signs it and sends it to the attester, who attests it on the chain and  *)
(* sends the attestation back; the claimer presents the credential, with   *)
(* some of its attributes, to the verifier, who verifies it, or the        *)
(* verifiable credential it is exported as. Meanwhile the claimer's DID is *)
(* migrated, its keys are replaced, it is deleted, and the attestation is  *)
(* revoked, removed or made by somebody else; messages wait, come again,   *)
(* or never; calls that await run side by side.                            *)
(*                                                                         *)
(* A call is one action up to its await and one after it. What resolves a  *)
(* key or a document asks in one moment here: see ResolveDoc. The          *)
(* chain and the mail are external. The DIDs of attester and verifier stay *)
(* as they are.                                                            *)
(***************************************************************************)
EXTENDS Messages, VerifiableCredentials

CONSTANTS
    Claimer, Attester, Verifier,
    AuthenticationKey(_), EncryptionKey(_),     \* the first keys of each
    NextAuthenticationKey, NextEncryptionKey,   \* those the claimer comes to have
    OtherAccount,     \* an attester that is none of them
    CType, Contents,  \* the CType of the claim, and what it says
    Legitimations,    \* the credentials that come with the request
    OtherRequests,    \* requests of other contents, that may be nested
    Extended,         \* a CType with more than the schema's own fields
    Delegation,       \* the delegation an attestation is made under
    Quote,            \* what the attester asks for it, with no attesterDid
    Challenge, Selection,
    MaxTx, MaxCalls   \* bounds: transactions; calls of the claimer's

VARIABLES
    did,           \* the claimer's DID on the chain, once it is a full one
    deleted,       \* it is in the blacklist of deleted DIDs
    attested,      \* the attestation on the chain
    txs,           \* bound: transactions so far
    details,       \* the claimer's DID as the claimer knows it
    keystore,      \* the claimer's keys
    request,       \* the claimer's request for attestation,
    credential,    \* and credential, that has the same claim object
    signing,       \* the calls of signWithDidKey that await the signer
    presenting,    \* the calls of createPresentation that do
    presentations, \* those that have returned
    calls,         \* bound: calls to sign, to hide and to present so far
    sent,          \* the messages sent, that can come at any time, or again
    asked,         \* what the attester got
    shown,         \* what the verifier got
    verifying,     \* the verification: what it has still to ask (todo), the answer
    seen,          \* history: what the chain held during the verification
    composed       \* a body, what compression leaves of it, and the message made of it

chain == <<did, deleted, attested, txs>>
own == <<details, keystore, request, credential, signing, presenting, presentations, calls>>
mail == <<sent, asked, shown>>
exchangeVars == <<chain, own, mail, verifying, seen, composed>>

-----------------------------------------------------------------------------
(* The parties. *)

Party == {Claimer, Attester, Verifier}
FullUri == [p \in Party |-> GetKiltDidFromIdentifier(AuthenticationKey(p), "full", Absent)]
AsKey(k) == [publicKey |-> k, type |-> KeyType(k)]
SigningKeyAlg(k) == SigningAlgorithmFor[KeyType(k)]

ChainRecord(authenticationKey, encryptionKey) ==
    [authenticationKey |-> authenticationKey, keyAgreementKeys |-> {encryptionKey},
     attestationKey |-> Absent, delegationKey |-> Absent]
FirstRecord == [p \in Party |-> ChainRecord(AuthenticationKey(p), EncryptionKey(p))]
FirstKeystore == [p \in Party |->
    GenerateKeypair(AddKeypair(EmptyKeystore, AuthenticationKey(p),
                               SigningKeyAlg(AuthenticationKey(p))),
                    EncryptionKey(p), NaclBox)]
FirstDetails == [p \in Party |-> DetailsOfRecord(FullUri[p], FirstRecord[p], <<>>)]

LightDid ==
    LightDidFromDetails(AsKey(AuthenticationKey(Claimer)), AsKey(EncryptionKey(Claimer)), <<>>)

DetailsOf(p) == IF p = Claimer THEN details ELSE FirstDetails[p]
KeystoreOf(p) == IF p = Claimer THEN keystore ELSE FirstKeystore[p]

RecordOf(uri) ==
    CASE AccountOf(uri) = AuthenticationKey(Claimer) -> did
      [] AccountOf(uri) = AuthenticationKey(Attester) -> FirstRecord[Attester]
      [] OTHER -> FirstRecord[Verifier]
IsDeleted(uri) == AccountOf(uri) = AuthenticationKey(Claimer) /\ deleted

EncryptionKeyOf(p) == FirstKey(DetailsOf(p), "keyAgreement").id
KeyUriOf(p) == AssembleKeyUri(DetailsOf(p).uri, EncryptionKeyOf(p))

-----------------------------------------------------------------------------
(* What is there at the start: a light DID, a request with a credential to *)
(* show for it, nothing signed, nothing attested.                          *)

ClaimOf(contents) == [cTypeHash |-> CType.hash, owner |-> LightDid.uri, contents |-> contents]
Offer == With(Quote, "attesterDid", FullUri[Attester])
SignedQuote ==
    FromAttesterSignedInput(
        FromQuoteDataAndIdentity(Offer, FirstDetails[Attester], FirstKeystore[Attester]))

Idle == [todo |-> {}]

-----------------------------------------------------------------------------
(* What there can be. *)

PublicKey == {AuthenticationKey(p) : p \in Party} \cup {EncryptionKey(p) : p \in Party}
                 \cup {NextAuthenticationKey, NextEncryptionKey}
KeyId == PublicKey \cup {"authentication", "encryption"}
AnyKeyType == VerificationKeyType \cup EncryptionKeyType

Uri == [type : {"full", "light"}, account : PublicKey, encoding : {Absent, "00", "01"},
        encoded : {Absent, LightDid.uri.encoded}, fragment : KeyId \cup {Absent}]
FullDid(p, authenticationKey, encryptionKey) ==
    DetailsOfRecord(FullUri[p], ChainRecord(authenticationKey, encryptionKey), <<>>)
KnownDetails == {LightDid} \cup {FullDid(p, k, e) : p \in Party, k \in PublicKey, e \in PublicKey}

\* The claim with these attributes, the nonces of it, and what it is hashed to.
Shown(attributes) == ClaimOf([a \in attributes |-> Contents[a]])
NoncesOf(attributes) == NewNonces(Shown(attributes), "salt")
Attribute == DOMAIN Contents
Root == [claimHashes |-> {SaltedHash(d, "salt") : d \in DOMAIN NoncesOf(Attribute)},
         legitimations |-> [i \in DOMAIN Legitimations |->
                               Legitimations[i].attestation.claimHash],
         delegationId |-> Delegation]

\* The request, with these attributes and these nonces and signed so, and the
\* attestation of it; all that is signed, attested and stored is of these sets.
RequestWith(attributes, held, signature) ==
    [claim |-> Shown(attributes), claimNonceMap |-> NoncesOf(held),
     claimHashes |-> Root.claimHashes, claimerSignature |-> signature, rootHash |-> Root,
     legitimations |-> Legitimations, delegationId |-> Delegation]
Attested == [claimHash |-> Root, cTypeHash |-> CType.hash, delegationId |-> Delegation,
             owner |-> FullUri[Attester], revoked |-> FALSE]

SignatureSet == [by : PublicKey, over : [rootHash : {Root}, challenge : Challenge],
                 hex : {TRUE}, keyUri : Uri, challenge : Challenge]
RequestSet == [claim : {Shown(attributes) : attributes \in SUBSET Attribute},
               claimNonceMap : {NoncesOf(attributes) : attributes \in SUBSET Attribute},
               claimHashes : {Root.claimHashes}, claimerSignature : SignatureSet \cup {Absent},
               rootHash : {Root}, legitimations : {Legitimations}, delegationId : {Delegation}]
AttesterKeys == {AuthenticationKey(Attester), OtherAccount}
StoredSet == [ctypeHash : {CType.hash}, attester : AttesterKeys,
              delegationId : {Delegation, Absent}, revoked : BOOLEAN]
AttesterDids == {GetKiltDidFromIdentifier(k, "full", Absent) : k \in AttesterKeys}
AttestationSet == [claimHash : {Root}, cTypeHash : {CType.hash}, owner : AttesterDids,
                   delegationId : {Delegation, Absent}, revoked : BOOLEAN]

\* The three are others, with keys of their own, and none is called what a light
\* DID calls its keys; the claim, its CType and the quote are whole.
ASSUME ExchangeAssumption ==
    /\ \A p, q \in Party : AuthenticationKey(p) = AuthenticationKey(q) => p = q
    /\ Claimer # Attester /\ Claimer # Verifier /\ Attester # Verifier
    /\ \A p \in Party :
          /\ AuthenticationKey(p) \in Address
          /\ KeyType(AuthenticationKey(p)) \in VerificationKeyType
          /\ KeyType(EncryptionKey(p)) = "x25519"
    /\ EncodingFor(KeyType(AuthenticationKey(Claimer))) # Absent
    /\ KeyType(NextAuthenticationKey) \in VerificationKeyType
    /\ KeyType(NextEncryptionKey) = "x25519"
    /\ PublicKey \cap {"authentication", "encryption"} = {}
    /\ OtherAccount \in Address \ {AuthenticationKey(Attester)}
    /\ Legitimations \in Seq(Legitimation)
    /\ Contents = [a \in Attribute |-> Contents[a]]
    /\ \A a \in Attribute : Contents[a] # Malformed /\ SortedInPlace[Contents[a]] = Contents[a]
    /\ \A i \in DOMAIN Legitimations :
          LeftLegitimation[Legitimations[i]] = Legitimations[i]
    /\ Malformed \notin {CType.hash, Root}
    /\ \A t \in {CType, Extended} :
          /\ t = [hash |-> t.hash, owner |-> t.owner, schema |-> t.schema]
          /\ SchemaFields \subseteq DOMAIN t.schema
          /\ \A f \in SchemaFields : t.schema[f] # Absent
    /\ \A r \in OtherRequests :
          /\ r = [claim |-> r.claim, claimNonceMap |-> r.claimNonceMap,
                  claimHashes |-> r.claimHashes, claimerSignature |-> r.claimerSignature,
                  rootHash |-> r.rootHash, legitimations |-> r.legitimations,
                  delegationId |-> r.delegationId]
          /\ r.claim = [cTypeHash |-> r.claim.cTypeHash, owner |-> r.claim.owner,
                        contents |-> r.claim.contents]
          /\ r.legitimations \in Seq(Legitimation)
          /\ ~ IsError(AttestationFromRequestAndDid(r, FullUri[Attester]))
    /\ IsQuote(Offer) /\ Offer = BasicQuote(Offer)
    /\ \A i \in DOMAIN QuoteFields : Offer[QuoteFields[i]] # Absent
    /\ Offer.cost = [gross |-> Offer.cost.gross, net |-> Offer.cost.net, tax |-> Offer.cost.tax]
    /\ {Offer.cost.gross, Offer.cost.net, Offer.cost.tax} \cap {Absent, 0} = {}

\* What is undefined is no text, and none of the objects made here.
ASSUME AbsentAssumption ==
    /\ Absent \notin {"salt"} \cup AnyKeyType \cup KeyId \cup Uri \cup KnownDetails
    /\ Absent \notin [publicKey : PublicKey, type : AnyKeyType]
    /\ Absent \notin [id : KeyId, publicKey : PublicKey, type : AnyKeyType]
    /\ Absent \notin [controller : Uri, uri : Uri, publicKey : PublicKey, type : AnyKeyType]
    /\ Absent \notin [details : KnownDetails \cup {Absent}, canonicalId : Uri \cup {Absent},
                      deactivated : BOOLEAN]
    /\ Absent \notin [authenticationKey : PublicKey, keyAgreementKeys : SUBSET PublicKey,
                      attestationKey : {Absent}, delegationKey : {Absent}]
    /\ Absent # LightDid.uri.encoded
    /\ Absent \notin {CType.hash, Root} \cup Seq(Legitimation)
    /\ Absent \notin SignatureSet \cup RequestSet \cup StoredSet \cup AttestationSet \cup AttesterDids
    /\ \A attributes \in SUBSET Attribute :
          Absent \notin {Shown(attributes), Shown(attributes).contents, NoncesOf(attributes)}

ExchangeInit ==
    /\ did = Absent /\ deleted = FALSE /\ attested = Absent /\ txs = 0
    /\ details = LightDid /\ keystore = FirstKeystore[Claimer]
    /\ request = RequestFromClaim(ClaimOf(Contents), Legitimations, Delegation, "salt")
    /\ credential = Absent
    /\ signing = {} /\ presenting = {} /\ presentations = {} /\ calls = 0
    /\ sent = {} /\ asked = Absent /\ shown = Absent
    /\ verifying = Idle /\ seen = {} /\ composed = Absent

-----------------------------------------------------------------------------
(* The chain. *)

Moment == [did |-> did, deleted |-> deleted, attested |-> attested]
Observe == seen' = IF verifying.todo # {} THEN seen \cup {Moment'} ELSE seen

Transaction ==
    /\ txs < MaxTx
    /\ txs' = txs + 1
    /\ Observe
    /\ UNCHANGED <<request, credential, signing, presenting, presentations, calls, mail,
                   verifying, composed>>

Migrate ==
    /\ did = Absent /\ ~ deleted
    /\ did' = FirstRecord[Claimer]
    /\ UNCHANGED <<deleted, attested, details, keystore>>
    /\ Transaction

\* A key is generated and takes the place of the first.
ReplaceKey ==
    /\ did # Absent
    /\ \E relationship \in {"authentication", "keyAgreement"} :
          LET key == IF relationship = "authentication" THEN NextAuthenticationKey
                     ELSE NextEncryptionKey
          IN  /\ ~ HasKeys(keystore, {key})[key]
              /\ keystore' = GenerateKeypair(keystore, key,
                    IF relationship = "authentication" THEN SigningKeyAlg(key) ELSE NaclBox)
              /\ did' = IF relationship = "authentication"
                        THEN [did EXCEPT !.authenticationKey = key]
                        ELSE [did EXCEPT !.keyAgreementKeys = {key}]
    /\ UNCHANGED <<deleted, attested, details>>
    /\ Transaction

Delete ==
    /\ did # Absent
    /\ did' = Absent /\ deleted' = TRUE
    /\ UNCHANGED <<attested, details, keystore>>
    /\ Transaction

\* The attestation is revoked, removed (or its deposit reclaimed), or another
\* attester, that got the request too, is the first.
AttestationChanges ==
    /\ attested' \in
          IF attested # Absent THEN {[attested EXCEPT !.revoked = TRUE], Absent}
          ELSE IF sent = {} THEN {}
          ELSE {[ctypeHash |-> CType.hash, attester |-> OtherAccount,
                 delegationId |-> Absent, revoked |-> FALSE]}
    /\ attested' # attested
    /\ UNCHANGED <<did, deleted, details, keystore>>
    /\ Transaction

\* The attester's transaction, that the chain takes unless there is one.
Attest ==
    /\ asked # Absent /\ attested = Absent
    /\ LET tx == StoreTx(AttestationFromRequestAndDid(asked.request, FullUri[Attester]))
       IN  attested' = [ctypeHash |-> tx.ctypeHash, attester |-> AuthenticationKey(Attester),
                        delegationId |-> tx.delegationId, revoked |-> FALSE]
    /\ UNCHANGED <<did, deleted, txs, own, mail, verifying, composed>>
    /\ Observe

-----------------------------------------------------------------------------
(* The claimer. *)

Alone == UNCHANGED <<chain, verifying, seen, composed>>
Call == calls < MaxCalls /\ calls' = calls + 1

\* FullDidDetails.fromChainInfo
Refresh ==
    /\ did # Absent
    /\ details' = DetailsOfRecord(FullUri[Claimer], did, <<>>) /\ details' # details
    /\ UNCHANGED <<keystore, request, credential, signing, presenting, presentations, calls, mail>>
    /\ Alone

\* signWithDidKey up to its await: all it signs and signs with is fixed.
SignWithDidKey(challenge) ==
    /\ Call
    /\ LET signature == SignAsDid(MakeSigningData(request, challenge), details, keystore)
       IN  /\ ~ IsError(signature)
           /\ signing' = signing \cup {[signature |-> signature, challenge |-> challenge]}
    /\ UNCHANGED <<details, keystore, request, credential, presenting, presentations, mail>>
    /\ Alone

SignatureMade(s) ==
    /\ signing' = signing \ {s}
    /\ request' = AddSignature(request, s.signature, s.challenge)
    /\ UNCHANGED <<details, keystore, credential, presenting, presentations, calls, mail>>
    /\ Alone

\* request.removeClaimProperties: the credential has the same claim.
HideProperties(properties) ==
    LET reduced == RemoveClaimProperties(request, properties)
    IN  /\ Call
        /\ properties \cap AttributesOf(request.claim) # {} /\ ~ IsError(reduced)
        /\ request' = reduced
        /\ credential' = IF credential = Absent THEN Absent
                         ELSE [credential EXCEPT !.request.claim = reduced.claim]
        /\ UNCHANGED <<details, keystore, signing, presenting, presentations, mail>>
        /\ Alone

CreatePresentation(selected, challenge) ==
    /\ Call
    /\ credential # Absent
    /\ LET copy == PresentationOf(credential, selected)
           signature == SignAsDid(MakeSigningData(copy.request, challenge), details, keystore)
       IN  /\ ~ IsError(copy) /\ ~ IsError(signature)
           /\ presenting' = presenting \cup
                 {[credential |-> copy, signature |-> signature, challenge |-> challenge,
                   selected |-> selected, of |-> credential]}
    /\ UNCHANGED <<details, keystore, request, credential, signing, presentations, mail>>
    /\ Alone

PresentationMade(p) ==
    /\ presenting' = presenting \ {p}
    /\ presentations' = presentations \cup
          {[credential |-> [p.credential EXCEPT !.request =
                               AddSignature(@, p.signature, p.challenge)],
            challenge |-> p.challenge, selected |-> p.selected, of |-> p.of]}
    /\ UNCHANGED <<details, keystore, request, credential, signing, calls, mail>>
    /\ Alone

-----------------------------------------------------------------------------
(* Messages. They are resolved, encrypted and decrypted by one await each.  *)

\* Bound: one message to each.
Send(from, to, keyUri, body) ==
    /\ \A e \in sent : e.to # to
    /\ \E encrypted \in
          {Encrypt(NewMessage(body, DetailsOf(from).uri, ParseDidUri(keyUri).did),
                   EncryptionKeyOf(from), DetailsOf(from), KeystoreOf(from),
                   ResolveKey(keyUri, RecordOf(keyUri), IsDeleted(keyUri)))} :
          /\ ~ IsError(encrypted)
          /\ sent' = sent \cup {[to |-> to, encrypted |-> encrypted]}
    /\ UNCHANGED <<own, asked, shown>>
    /\ Alone

SendRequest ==
    Send(Claimer, Attester, KeyUriOf(Attester),
         [type |-> "request-attestation",
          content |-> [requestForAttestation |-> request, quote |-> Absent]])

\* To whoever asked, encrypted for the key that was asked with.
SendAttestation ==
    /\ asked # Absent
    /\ Send(Attester, Claimer, asked.senderKeyUri,
            [type |-> "submit-attestation",
             content |-> [attestation |->
                 AttestationFromRequestAndDid(asked.request, FullUri[Attester])]])

SendPresentation ==
    \E p \in presentations :
       Send(Claimer, Verifier, KeyUriOf(Verifier),
            [type |-> "submit-credential", content |-> Array(<<p.credential>>)])

Received(e) ==
    LET uri == e.encrypted.senderKeyUri
    IN  Decrypt(e.encrypted, ResolveKey(uri, RecordOf(uri), IsDeleted(uri)),
                KeystoreOf(e.to), DetailsOf(e.to))

Receive(to, content, keyUri) ==
    /\ asked' = IF to = Attester
                THEN [request |-> content.requestForAttestation, senderKeyUri |-> keyUri]
                ELSE asked
    /\ credential' \in
          IF to # Claimer THEN {credential}
          ELSE {IF IsError(c) THEN credential ELSE c :
                   c \in {NewCredential(request, content.attestation)}}
    /\ shown' = IF to = Verifier THEN At(content, 1) ELSE shown

\* Bound: attester and verifier take the one message to them once, what comes
\* again is the same; the claimer makes the credential anew.
Deliver(e) ==
    /\ e.to = Attester => asked = Absent
    /\ e.to = Verifier => shown = Absent
    /\ \E result \in {Received(e)} :
          /\ ~ IsError(result)
          /\ Receive(e.to, result.body.content, e.encrypted.senderKeyUri)
    /\ UNCHANGED <<chain, details, keystore, request, signing, presenting, presentations, calls,
                   sent, verifying, seen, composed>>

-----------------------------------------------------------------------------
(* The verifier. Credential.verify checks the data, then resolves, then     *)
(* queries, and stops at the first that fails; the suites each ask for      *)
(* themselves, in any order.                                                *)

Verify(kind, challenge) ==
    /\ shown # Absent /\ verifying = Idle
    /\ kind = "vc" => challenge = Absent
    /\ LET refused == \/ ~ CredentialVerifyData(shown).valid
                      \/ SignatureRefused(shown.request, challenge)
       IN  verifying' = [kind |-> kind, credential |-> shown, challenge |-> challenge,
                         key |-> Absent, onChain |-> Absent, answer |-> FALSE,
                         todo |-> IF kind = "credential" /\ refused THEN {}
                                  ELSE {"key", "attestation"}]
    /\ seen' = {Moment}
    /\ UNCHANGED <<chain, own, mail, composed>>

SignerUri(v) == v.credential.request.claimerSignature.keyUri

\* The answer of the exported credential, once all its proofs are verified.
ProofsVerified(v) ==
    LET vc == FromCredential(v.credential, CType)
    IN  \A i \in DOMAIN vc.proof : SuiteVerifies(vc, vc.proof[i], v.key, v.onChain)

Answered(v) ==
    IF v.kind = "vc" /\ v.todo = {} THEN [v EXCEPT !.answer = ProofsVerified(v)] ELSE v

ResolveSigner ==
    /\ "key" \in verifying.todo
    /\ LET uri == SignerUri(verifying)
           left == [verifying EXCEPT !.todo = @ \ {"key"}]
           signed == VerifySignature(verifying.credential.request,
                                     ResolveDoc(uri, RecordOf(uri), IsDeleted(uri)))
       IN  verifying' =
              CASE verifying.kind = "vc" ->
                      Answered([left EXCEPT !.key = ResolveKey(uri, RecordOf(uri), IsDeleted(uri))])
                [] verifying.kind = "credential" /\ signed -> left
                [] OTHER -> [verifying EXCEPT !.todo = {}]
    /\ UNCHANGED <<chain, own, mail, seen, composed>>

\* Attestation.query, in checkValidity and in verifyAttestedProof
QueryAttestation ==
    /\ "attestation" \in verifying.todo
    /\ verifying.kind = "credential" => "key" \notin verifying.todo
    /\ LET onChain == DecodeAttestation(attested, verifying.credential.attestation.claimHash)
           left == [verifying EXCEPT !.todo = @ \ {"attestation"}, !.onChain = onChain]
       IN  verifying' = IF verifying.kind = "vc" THEN Answered(left)
                        ELSE [left EXCEPT !.answer =
                                 CheckValidity(verifying.credential.attestation, onChain)]
    /\ UNCHANGED <<chain, own, mail, seen, composed>>

-----------------------------------------------------------------------------
(* Bodies of every type, whole and not, to be compressed. What is composed  *)
(* depends on the request alone, so that nothing else need have happened:   *)
(* of others it is composed at the start. The own request's arrays are in   *)
(* order, and stay so; those of others need not be.                         *)

Quotes == {Absent, SignedQuote, [SignedQuote EXCEPT !.cost.tax = 0]}
Agreements(r) ==
    {Absent} \cup {CreateQuoteAgreement(q, r.rootHash, FullUri[Attester], details, keystore) :
                      q \in Quotes \ {Absent}}
CTypes == {CType, Extended, [CType EXCEPT !.owner = Absent], [CType EXCEPT !.hash = Malformed]}
Hashes(r) == {r.rootHash, Malformed}
Partial == [ClaimOf(Absent) EXCEPT !.owner = Absent]
Attestations(r) ==
    LET a == AttestationFromRequestAndDid(r, FullUri[Attester])
    IN  {a, [a EXCEPT !.owner = Absent], [a EXCEPT !.delegationId = Delegation]}
Signature == SignAsDid("delegation", details, keystore)
DelegationData ==
    {[account |-> details.uri, id |-> id, parentId |-> parent, permissions |-> p, isPCR |-> FALSE] :
        id \in {Delegation, Malformed}, parent \in {Absent, Delegation}, p \in {{}, {1}}}

BodyContents(type, r) ==
    CASE type = "request-terms" ->
            {Partial, ClaimOf(Contents), r.claim}
      [] type = "submit-terms" ->
            {[claim |-> Partial, legitimations |-> r.legitimations,
              delegationId |-> d, quote |-> q, cTypes |-> t] :
                d \in {Absent, Delegation}, q \in Quotes,
                t \in {Absent} \cup {<<c>> : c \in CTypes}}
      [] type = "reject-terms" ->
            {[claim |-> r.claim, legitimations |-> r.legitimations, delegationId |-> d] :
                d \in {Absent, Delegation, Malformed}}
      [] type = "request-attestation" ->
            {[requestForAttestation |-> s, quote |-> q] :
                s \in {r, [r EXCEPT !.delegationId = Malformed]}, q \in Agreements(r)}
      [] type = "submit-attestation" -> {[attestation |-> a] : a \in Attestations(r)}
      [] type = "reject-attestation" -> Hashes(r)
      [] type = "request-credential" ->
            {[cTypes |-> <<[cTypeHash |-> h, trustedAttesters |-> a, requiredProperties |-> Absent]>>,
              challenge |-> "challenge"] : h \in Hashes(r), a \in {Absent, <<FullUri[Attester]>>}}
      [] type = "submit-credential" -> {Array(r.legitimations)}
      [] type \in {"accept-credential", "reject-credential"} -> {Array(<<h>>) : h \in Hashes(r)}
      [] type = "request-accept-delegation" ->
            {[delegationData |-> d, signatures |-> [inviter |-> Signature], metaData |-> m] :
                d \in DelegationData, m \in {"metadata", Malformed}}
      [] type = "submit-accept-delegation" ->
            {[delegationData |-> d, signatures |->
                 [inviter |-> Signature, invitee |-> [Signature EXCEPT !.by = OtherAccount]]] :
                d \in DelegationData}
      [] type = "reject-accept-delegation" -> DelegationData
      [] type = "inform-create-delegation" -> {[delegationId |-> h, isPCR |-> TRUE] : h \in Hashes(r)}
      [] OTHER -> {Absent}

\* What is compressed is not taken for what is undefined.
QuoteSignature(over) == [by : PublicKey, over : {over}, hex : {TRUE}, keyUri : Uri]
Agreed(quote, root, signature) ==
    With(With(quote, "rootHash", root), "claimerSignature", signature)

ASSUME CompressionAssumption ==
    /\ Absent \notin QuoteSignature(Offer)
    /\ Absent # CompressAttesterSignedQuote(SignedQuote)
    /\ \A s \in QuoteSignature(SignedQuote),
          root \in {Root} \cup {r.rootHash : r \in OtherRequests} :
          Absent # CompressQuoteAgreement(Agreed(SignedQuote, root, s))
    /\ \A ctype \in CTypes : Absent # CompressEach(<<ctype>>, CompressCType)

Compose ==
    /\ txs = 0 /\ sent = {} /\ signing = {} /\ composed = Absent
    /\ \E r \in {request} \cup (IF calls = 0 THEN OtherRequests ELSE {}) :
       \E type \in MessageBodyType : \E c \in BodyContents(type, r) :
       \E compressed \in {CompressMessage([type |-> type, content |-> c])} :
          LET body == [type |-> type, content |-> c]
          IN  composed' = [body |-> body, checked |-> ErrorCheckMessageBody(body),
                           left |-> [body EXCEPT !.content = LeftContent(type, c)],
                           message |-> IF IsError(compressed) THEN compressed
                                       ELSE NewMessage(compressed, details.uri, FullUri[Attester])]
    /\ UNCHANGED <<chain, own, mail, verifying, seen>>

ExchangeNext ==
    \/ Migrate \/ ReplaceKey \/ Delete \/ AttestationChanges \/ Attest
    \/ Refresh
    \/ \E c \in Challenge : SignWithDidKey(c)
    \/ \E s \in signing : SignatureMade(s)
    \/ \E properties \in Selection \ {Absent} : HideProperties(properties)
    \/ \E s \in Selection, c \in Challenge : CreatePresentation(s, c)
    \/ \E p \in presenting : PresentationMade(p)
    \/ SendRequest \/ SendAttestation \/ SendPresentation
    \/ \E e \in sent : Deliver(e)
    \/ \E kind \in {"credential", "vc"}, c \in Challenge : Verify(kind, c)
    \/ ResolveSigner \/ QueryAttestation
    \/ Compose

ExchangeSpec == ExchangeInit /\ [][ExchangeNext]_exchangeVars

-----------------------------------------------------------------------------
(* Properties.                                                              *)

\* What made a signature may do so for its DID at a moment: of a credential the
\* authentication key alone, of an exported one any key that still resolves.
SignerAt(m, v) ==
    LET uri == SignerUri(v)
    IN  IF uri.type = "light" THEN ~ m.deleted /\ (v.kind = "credential" => m.did = Absent)
        ELSE m.did # Absent /\ m.did.authenticationKey = uri.fragment

AttestedAt(m, v) ==
    /\ m.attested # Absent /\ ~ m.attested.revoked
    /\ FullUri[Attester] = GetKiltDidFromIdentifier(m.attested.attester, "full", Absent)

\* An exported credential says nothing of a challenge; what is signed with one
\* does not verify there.
ChallengeMet(v) ==
    LET signed == v.credential.request.claimerSignature.challenge
    IN  IF v.kind = "vc" THEN signed = Absent ELSE v.challenge \in {Absent, signed}

\* A verification that succeeds is right: the contents are those that were
\* attested, for the challenge asked, by the attester named, not revoked at some
\* moment of the verification, and shown by a key that was the claimer's at some
\* moment of it. One that fails has a reason that held at some moment.
VerificationIsRight ==
    verifying # Idle /\ verifying.todo = {} =>
        LET v == verifying
            claim == v.credential.request.claim
        IN  IF v.answer
            THEN /\ ChallengeMet(v)
                 /\ \E m \in seen : SignerAt(m, v)
                 /\ \E m \in seen : AttestedAt(m, v)
                 /\ \A a \in AttributesOf(claim) : claim.contents[a] = Contents[a]
            ELSE \/ ~ ChallengeMet(v)
                 \/ \E m \in seen : ~ SignerAt(m, v) \/ ~ AttestedAt(m, v)

\* Whatever runs beside it, a presentation shows what was selected of what the
\* credential had, and no nonce of anything else; it is signed for its own
\* challenge over the hash that was attested; and a presentation of the exported
\* credential shows and proves the same.
PresentsWhatIsSelected ==
    /\ request.claimerSignature # Absent =>
          request.claimerSignature.over =
              MakeSigningData(request, request.claimerSignature.challenge)
    /\ \A p \in presentations :
          LET r == p.credential.request
              held == AttributesOf(p.of.request.claim)
              vc == FromCredential(p.credential, CType)
              exported == MakePresentation(FromCredential(p.of, CType), p.selected)
          IN  /\ AttributesOf(r.claim) = IF p.selected = Absent THEN held
                                         ELSE held \cap p.selected
              /\ DOMAIN r.claimNonceMap = Digests(Statements(r.claim))
              /\ r.claimerSignature.over =
                    [rootHash |-> p.of.attestation.claimHash, challenge |-> p.challenge]
              /\ \E i \in DOMAIN vc.proof : VerifyCredentialDigestProof(vc, vc.proof[i])
              /\ p.selected # Absent /\ p.selected \subseteq held =>
                    LET shownVc == exported.verifiableCredential
                    IN  /\ shownVc.credentialSubject = vc.credentialSubject
                        /\ shownVc.proof[Len(shownVc.proof)] = vc.proof[Len(vc.proof)]

\* A message comes as it was sent, whenever and however often, if its sender's
\* key still resolves and the receiver's details still have theirs, and not at
\* all if not; a claimer who has become a full DID since the claim was made is
\* the owner of the claim all the same.
ComesAsSent ==
    \A e \in sent :
        LET encrypted == e.encrypted
            uri == encrypted.senderKeyUri
            resolves == \/ AccountOf(uri) # AuthenticationKey(Claimer)
                        \/ uri.type = "light" /\ ~ deleted
                        \/ did # Absent /\ uri.fragment \in did.keyAgreementKeys
            held == encrypted.receiverKeyUri.fragment \in DOMAIN DetailsOf(e.to).keys
        IN  \A result \in {Received(e)} :
               IF resolves /\ held THEN result = encrypted.ciphertext.data ELSE IsError(result)

\* What comes of a body, at best: its claims with sorted contents, its CTypes with
\* the schema's own fields.
Stripped(ctype) == [ctype EXCEPT !.schema = [f \in SchemaFields |-> @[f]]]
SortedContent(type, c) ==
    LET sorted == ContentIn(SortObj, type, c)
    IN  IF type # "submit-terms" \/ sorted.cTypes = Absent THEN sorted
        ELSE [sorted EXCEPT !.cTypes = [i \in DOMAIN @ |-> Stripped(@[i])]]

\* What is made of a compressed body is that body, sorted, or nothing: only a body
\* that is refused when it comes, that is of a type without compressed form, or
\* that asks for nothing, cannot be compressed.
ComesBackSorted ==
    composed # Absent =>
        IF ~ IsError(composed.message)
        THEN composed.message.body =
                [composed.body EXCEPT !.content = SortedContent(composed.body.type, @)]
        ELSE \/ IsError(composed.checked)
             \/ composed.body.type \in
                   {"reject-attestation", "accept-credential", "reject-credential"}
             \/ composed.body.content.quote # Absent /\ composed.body.content.quote.cost.tax = 0

\* All of a body but its bare claim, that nothing is hashed of.
HashedPart(body) ==
    CASE body.type = "request-terms" -> Absent
      [] body.type \in {"submit-terms", "reject-terms"} -> [body.content EXCEPT !.claim = Absent]
      [] OTHER -> body.content

\* What is compressed comes back as it was, or is refused when it comes: contents
\* that sortObj finds out of order no longer have the digests in their request, nor
\* has a CType with further fields its hash. The same goes for what the sender is
\* left with, whose arrays are sorted too. Only a bare claim changes unnoticed.
WhatIsLostIsNoticed ==
    /\ ComesBackSorted
    /\ composed # Absent =>
          \A b \in {composed.left} \cup
                   (IF IsError(composed.message) THEN {} ELSE {composed.message.body}) :
             \/ HashedPart(b) = HashedPart(composed.body)
             \/ IsError(ErrorCheckMessageBody(b))

=============================================================================
