-------------------------------- MODULE DidLife --------------------------------
(***************************************************************************)
(* The life of a DID as those see it who ask for it: a light DID, its      *)
(* migration (LightDidDetails.migrate, over the builder of                 *)
(* FullDidCreationBuilder), the changes and the deletion of the full DID   *)
(* on the chain, and the calls that read several things one query at a     *)
(* time while it all changes: fromChainInfo, resolveDoc, resolveKey,       *)
(* resolveServiceEndpoint, resolve, verifyDidSignature, queryWeb3Name, the *)
(* deletion with a counted number of endpoints, and the link of an account *)
(* by a signature that is valid for some blocks.                           *)
(*                                                                         *)
(* Calls that only read do not disturb each other, so that one is enough.  *)
(* The chain is external: it holds at most one record of the DID, takes a  *)
(* creation once and never again after a deletion, keeps the accounts'     *)
(* links to DIDs and the DIDs' names, and executes what Did.chain.ts       *)
(* builds. The links and names are those of other DIDs.                    *)
(***************************************************************************)
EXTENDS FullDidCreationBuilder, DidDetails

CONSTANTS
    Subject,         \* the account of the DID, and its first key
    OtherDid,        \* the DIDs accounts link to and names belong to
    Name, NameLength(_), MinNameLength, MaxNameLength,
    Fragment,        \* the fragments tried in URIs
    NBlocksValid,    \* how long the signature of a link is valid
    MaxTx            \* bound: transactions after the creation

KeyPair(key) == [publicKey |-> key, type |-> KeyType(key)]
AuthenticationKey == KeyPair(Subject)
Services(ids) == [id \in ids |-> Size(id)]
LightDid(encryptionKey, ids) ==
    LightDidFromDetails(AuthenticationKey, encryptionKey, Services(ids))

\* An encoding of the future.
UnknownEncoding == [flag |-> 1]

SubjectUri == GetKiltDidFromIdentifier(Subject, "full", Absent)

\* What the chain holds of a DID.
Record == [authenticationKey : VerificationKey, keyAgreementKeys : SUBSET EncryptionKey,
           attestationKey : VerificationKey \cup {Absent},
           delegationKey : VerificationKey \cup {Absent}]

\* No account is called what a light DID calls its encryption key.
ASSUME LifeAssumption ==
    /\ NoKey = Absent
    /\ Subject \in VerificationKey \ {"encryption"}
    /\ NBlocksValid \in Nat

\* What is undefined is no name, and none of the objects made here.
ASSUME AbsentAssumption ==
    /\ Absent \notin VerificationKeyType \cup EncryptionKeyType \cup KeyRelationship
    /\ Absent \notin {SubjectUri, UnknownEncoding}
    /\ \A ids \in SUBSET Endpoint :
          /\ \A record \in Record :
                Absent # Document(DetailsOfRecord(SubjectUri, record, Services(ids)), Absent, FALSE)
          /\ \A key \in {Absent} \cup {KeyPair(k) : k \in EncryptionKey} :
                /\ Absent # LightDid(key, ids)
                /\ Absent # Document(LightDid(key, ids), Absent, FALSE)
                /\ \A fields \in SUBSET {"e", "s"} : Absent # Encoded(fields, key, Services(ids))
    /\ Absent # [id |-> "authentication", publicKey |-> Subject, type |-> KeyType(Subject)]

VARIABLES
    light,       \* the details of the light DID
    did,         \* its record on the chain, once it is a full DID
    endpoints,   \* its services on the chain
    deleted,     \* it is in the blacklist of deleted DIDs
    linked,      \* the DID the account is linked to
    names,       \* the name of each of the other DIDs
    txs,         \* bound: transactions so far
    untouched,   \* history: nothing but the creation has changed the DID
    call,        \* the call: question, next query (pc), what it has read, answer
    seen         \* history: what the chain held during the call

chain == <<did, endpoints, deleted, linked, names, txs, untouched>>
lifeVars == <<vars, light, chain, call, seen>>

FullUri == GetKiltDidFromIdentifier(light.identifier, "full", Absent)
Moment == [did |-> did, endpoints |-> endpoints, deleted |-> deleted,
           linked |-> linked, names |-> names]
Idle == [pc |-> "idle"]

\* checkWeb3NameInputConstraints, in getClaimTx
ClaimTx(name) ==
    IF NameLength(name) < MinNameLength \/ NameLength(name) > MaxNameLength
    THEN Error("ERROR_WEB3_NAME_ERROR") ELSE [call |-> "claim", name |-> name]

LifeInit ==
    /\ Init
    /\ light = LightDid(IF newKeyAgreementKeys = {} THEN Absent
                        ELSE KeyPair(CHOOSE key \in newKeyAgreementKeys : TRUE),
                        newServiceEndpoints)
    /\ ~ IsError(light)
    /\ did = Absent /\ endpoints = {} /\ deleted = FALSE
    /\ \E d \in OtherDid, n \in Name :
          /\ ~ IsError(ClaimTx(n))
          /\ linked = d /\ names = [e \in OtherDid |-> IF e = d THEN n ELSE Absent]
    /\ txs = 0 /\ untouched = TRUE
    /\ call = Idle
    /\ seen = {}

-----------------------------------------------------------------------------
(* The chain. *)

Reading == call.pc \notin {"idle", "done"}
Observe == seen' = IF Reading THEN seen \cup {Moment'} ELSE seen

\* The builder goes on while nobody asks: what it does no query sees.
BuildOn ==
    /\ call = Idle /\ did = Absent /\ ~ deleted
    /\ \/ Next /\ \A c \in Caller : stage[c] # "signing"
       \/ \E c \in Caller :
             /\ SignerAnswers(c)
             /\ stage'[c] = "created" =>
                   ~ IsError(CreateTx(light.identifier, AuthenticationKey, details[c]))
    /\ UNCHANGED <<light, chain, call, seen>>

CreationExecutes(c) ==
    /\ stage[c] = "created" /\ did = Absent /\ ~ deleted
    /\ did' = [authenticationKey |-> Subject, keyAgreementKeys |-> details[c].keyAgreementKeys,
               attestationKey |-> details[c].assertionKey, delegationKey |-> details[c].delegationKey]
    /\ endpoints' = details[c].serviceEndpoints
    /\ UNCHANGED <<vars, light, deleted, linked, names, txs, untouched, call>>
    /\ Observe

\* Another transaction the chain executes: of this DID, or of links and names.
Transaction ==
    /\ txs < MaxTx
    /\ txs' = txs + 1
    /\ Observe
    /\ UNCHANGED <<vars, light, call>>

Extrinsics ==
    {SetKeyExtrinsic(r, k) : r \in KeyRelationship, k \in VerificationKey}
    \cup {RemoveKeyExtrinsic(r, k) : r \in KeyRelationship, k \in EncryptionKey}
    \cup {AddKeyExtrinsic(r, k) : r \in KeyRelationship, k \in EncryptionKey}
    \cup {AddEndpointExtrinsic(e) : e \in Endpoint} \cup {RemoveEndpointExtrinsic(e) : e \in Endpoint}

FieldOf(relationship) ==
    CASE relationship = "authentication" -> "authenticationKey"
      [] relationship = "assertionMethod" -> "attestationKey"
      [] relationship = "capabilityDelegation" -> "delegationKey"
      [] OTHER -> "keyAgreementKeys"

\* What the DID pallet does with an extrinsic.
AfterExtrinsic(tx) ==
    CASE tx.call = "setKey" -> [did EXCEPT ![FieldOf(tx.relationship)] = tx.key]
      [] tx.call = "addKey" -> [did EXCEPT !.keyAgreementKeys = @ \cup {tx.key}]
      [] tx.call = "removeKey" /\ tx.relationship = "keyAgreement" ->
            [did EXCEPT !.keyAgreementKeys = @ \ {tx.key}]
      [] tx.call = "removeKey" /\ tx.relationship # "keyAgreement" ->
            [did EXCEPT ![FieldOf(tx.relationship)] = Absent]
      [] OTHER -> did

DidChanges ==
    /\ did # Absent
    /\ \E tx \in Extrinsics :
          /\ ~ IsError(tx)
          /\ did' = AfterExtrinsic(tx)
          /\ endpoints' = CASE tx.call = "addEndpoint" -> endpoints \cup {tx.endpoint}
                            [] tx.call = "removeEndpoint" -> endpoints \ {tx.endpoint}
                            [] OTHER -> endpoints
    /\ untouched' = FALSE
    /\ UNCHANGED <<deleted, linked, names>>
    /\ Transaction

DidDeleted ==
    /\ did' = Absent /\ endpoints' = {} /\ deleted' = TRUE /\ untouched' = FALSE
    /\ UNCHANGED <<linked, names>>

\* The DID's subject deletes it, or the owner of the deposit reclaims it.
SomebodyDeletes ==
    /\ did # Absent
    /\ \E tx \in {DeleteDidExtrinsic(Cardinality(endpoints)),
                  ReclaimDepositExtrinsic(Subject, Cardinality(endpoints))} :
          tx.count >= Cardinality(endpoints)
    /\ DidDeleted
    /\ Transaction

\* getAssociateSenderExtrinsic and getLinkRemovalByAccountTx
LinkChanges ==
    /\ \E d \in OtherDid \cup {Absent} : d # linked /\ linked' = d
    /\ UNCHANGED <<did, endpoints, deleted, names, untouched>>
    /\ Transaction

\* A name is claimed that nobody has, or released.
NameChanges ==
    /\ \E d \in OtherDid :
          \/ \E n \in Name : /\ ~ IsError(ClaimTx(n))
                             /\ names[d] = Absent /\ \A e \in OtherDid : names[e] # n
                             /\ names' = [names EXCEPT ![d] = n]
          \/ names[d] # Absent /\ names' = [names EXCEPT ![d] = Absent]
    /\ UNCHANGED <<did, endpoints, deleted, linked, untouched>>
    /\ Transaction

-----------------------------------------------------------------------------
(* The calls. Each step is one query to the chain, and what is done with    *)
(* its result before the next.                                              *)

WithFragment(uri, fragment) == [uri EXCEPT !.fragment = fragment]
Asks(op, uri) == [op |-> op, uri |-> uri]

Uris == {WithFragment(uri, f) : uri \in {FullUri, light.uri}, f \in Fragment \cup {Absent}}

Questions ==
    {Asks("resolveDoc", uri) :
         uri \in {FullUri, light.uri, [light.uri EXCEPT !.encoded = UnknownEncoding]}}
    \cup {Asks(op, uri) : op \in {"resolve", "resolveKey", "resolveServiceEndpoint"}, uri \in Uris}
    \cup {[op |-> "verify", uri |-> WithFragment(uri, f), by |-> k, expected |-> r] :
             uri \in {FullUri, light.uri}, f \in {Subject, "authentication", Absent},
             k \in VerificationKey, r \in {Absent, "assertionMethod"}}
    \cup {Asks(op, FullUri) : op \in {"queryWeb3Name", "delete"}}
    \cup {[op |-> "authorizeLink", uri |-> FullUri, did |-> d, signedFor |-> e, typed |-> t] :
             d \in OtherDid, e \in OtherDid, t \in BOOLEAN}

ByKey(q) == q.op = "resolveKey" \/ (q.op = "resolve" /\ q.uri.fragment # Absent)

\* The answer to a question whose document has been resolved.
AnswerFrom(q, doc) ==
    CASE q.op = "verify" ->
            VerifyDidSignature("message", [keyUri |-> q.uri, by |-> q.by, over |-> "message"],
                               q.expected, doc)
      [] ByKey(q) -> IF doc.details = Absent THEN Absent ELSE GetKey(doc.details, q.uri.fragment)
      [] q.op = "resolveServiceEndpoint" ->
            IF doc.details = Absent THEN Absent ELSE GetEndpoint(doc.details, q.uri.fragment)
      [] OTHER -> doc

\* A call ends with a value or with the error it throws.
Answers(value) == call' = [call EXCEPT !.pc = "done", !.answer = [is |-> value]]
Throws(code) == call' = [call EXCEPT !.pc = "done", !.answer = Error(code)]
AnswersWith(doc) == Answers(AnswerFrom(call.q, doc))

\* The first query of a call, or the error that is thrown without one.
FirstQuery(q) ==
    CASE q.op = "queryWeb3Name" -> "link"
      [] q.op = "delete" -> "count"
      [] q.op = "authorizeLink" -> "block"
      [] OTHER ->
            IF q.uri.fragment = Absent /\ q.op = "verify" THEN "refused"
            ELSE IF q.uri.fragment = Absent /\ q.op \in {"resolveKey", "resolveServiceEndpoint"}
            THEN "error"
            ELSE IF q.uri.type = "light"
            THEN IF IsError(LightDidFromUri(q.uri, FALSE)) THEN "error" ELSE "details"
            ELSE IF ByKey(q) THEN "key"
            ELSE IF q.op = "resolveServiceEndpoint" THEN "endpoint" ELSE "details"

Begin(q) ==
    /\ call = Idle
    /\ call' = [q |-> q, read |-> Absent,
                pc |-> IF FirstQuery(q) \in {"error", "refused"} THEN "done" ELSE FirstQuery(q),
                answer |-> IF FirstQuery(q) = "error" THEN Error("ERROR_INVALID_DID_FORMAT")
                           ELSE [is |-> FALSE]]
    /\ seen' = {Moment}
    /\ UNCHANGED <<vars, light, chain>>

Ask == \E q \in Questions : Begin(q)

\* migrate, from where the caller's callback has returned; it need not have
\* brought the transaction onto the chain.
MigrationAsks ==
    \E c \in Caller : stage[c] = "created" /\ Begin(Asks("migrate", FullUri))

\* A step of the call changes nothing else.
Step(pc) == call.pc = pc /\ UNCHANGED <<vars, light, chain, seen>>

Fetched(value, next) == call' = [call EXCEPT !.read = value, !.pc = next]

\* queryDetails, in fromChainInfo and in resolveDoc of a light DID
QueryDetails ==
    /\ Step("details")
    /\ IF did = Absent
       THEN IF call.q.op = "migrate" THEN Throws("ERROR_DID_ERROR") ELSE Fetched(Absent, "deleted")
       ELSE IF call.q.uri.type = "full" THEN Fetched(did, "endpoints")
       ELSE AnswersWith(Document(LightDidFromUri(call.q.uri, FALSE), FullUri, FALSE))

(* Mutated: the services of a DID are not read.                            *)
QueryServiceEndpointsUnread ==
    /\ Step("endpoints")
    /\ AnswersWith(Document(DetailsOfRecord(FullUri, call.read, <<>>), Absent, FALSE))

\* queryServiceEndpoints, at the end of fromChainInfo
QueryServiceEndpoints ==
    /\ Step("endpoints")
    /\ AnswersWith(Document(DetailsOfRecord(FullUri, call.read, Services(endpoints)),
                            Absent, FALSE))

(* Mutated: whoever is not on the chain any more is taken for unknown.     *)
QueryDidDeletionStatusUnasked ==
    /\ Step("deleted")
    /\ AnswersWith(IF call.q.uri.type = "full" THEN Absent
                   ELSE Document(LightDidFromUri(call.q.uri, FALSE), Absent, FALSE))

QueryDidDeletionStatus ==
    /\ Step("deleted")
    /\ AnswersWith(IF deleted THEN Document(Absent, Absent, TRUE)
                   ELSE IF call.q.uri.type = "full" THEN Absent
                   ELSE Document(LightDidFromUri(call.q.uri, FALSE), Absent, FALSE))

\* resolveKey and resolveServiceEndpoint of a full DID are one query each.
KeyAt(record, keyId) ==
    IF record = Absent THEN Absent
    ELSE GetKey(DetailsOfRecord(FullUri, record, <<>>), keyId)
QueryKey == Step("key") /\ Answers(KeyAt(did, call.q.uri.fragment))
ServiceAt(services, id) == IF id \in services THEN Size(id) ELSE Absent
QueryServiceEndpoint == Step("endpoint") /\ Answers(ServiceAt(endpoints, call.q.uri.fragment))

(* Mutated: the name is looked up whatever the account is linked to.       *)
QueryConnectedDidUnchecked ==
    /\ Step("link")
    /\ Fetched(IF linked = Absent THEN CHOOSE d \in OtherDid : TRUE ELSE linked, "name")

\* queryWeb3Name: the DID of the account, then its name.
QueryConnectedDid ==
    Step("link") /\ IF linked = Absent THEN Answers(Absent) ELSE Fetched(linked, "name")
QueryName == Step("name") /\ Answers(names[call.read])

\* getDeleteDidExtrinsic with the result of queryEndpointsCounts, and what the
\* chain makes of it.
QueryEndpointsCounts == Step("count") /\ Fetched(Cardinality(endpoints), "delete")
DeletionExecutes ==
    /\ call.pc = "delete"
    /\ LET tx == DeleteDidExtrinsic(call.read)
           taken == did # Absent /\ tx.count >= Cardinality(endpoints)
       IN  /\ IF taken THEN DidDeleted ELSE UNCHANGED <<did, endpoints, deleted, linked, names, untouched>>
           /\ Answers(IF taken THEN "deleted" ELSE "refused")
    /\ seen' = seen \cup {Moment'}
    /\ UNCHANGED <<vars, light, txs>>

\* getAuthorizeLinkWithAccountExtrinsic: the block is read, the account signs
\* for a DID, and the signature is verified without its first byte, then whole.
QueryBlock == Step("block") /\ Fetched(0, "signing")
BlockPasses ==
    /\ Step("signing")
    /\ call.read <= NBlocksValid
    /\ Fetched(call.read + 1, "signing")
Verifies(q, typed) == q.signedFor = q.did /\ q.typed = typed
AuthorizeLink(q) ==
    IF Verifies(q, TRUE) THEN [call |-> "associateAccount", did |-> q.did, stripped |-> TRUE]
    ELSE IF Verifies(q, FALSE) THEN [call |-> "associateAccount", did |-> q.did, stripped |-> FALSE]
    ELSE Error("signature not valid")
AccountSigns ==
    /\ call.pc = "signing"
    /\ LET tx == AuthorizeLink(call.q)
           taken == ~ IsError(tx) /\ call.read <= NBlocksValid
       IN  /\ linked' = IF taken THEN call.q.did ELSE linked
           /\ IF IsError(tx) THEN Throws(tx.error) ELSE Answers(IF taken THEN "linked" ELSE "refused")
    /\ UNCHANGED <<vars, light, did, endpoints, deleted, names, txs, untouched, seen>>

LifeNext ==
    \/ BuildOn \/ \E c \in Caller : CreationExecutes(c)
    \/ DidChanges \/ SomebodyDeletes \/ LinkChanges \/ NameChanges
    \/ Ask \/ MigrationAsks
    \/ QueryDetails \/ QueryServiceEndpoints \/ QueryDidDeletionStatus
    \/ QueryKey \/ QueryServiceEndpoint \/ QueryConnectedDid \/ QueryName
    \/ QueryEndpointsCounts \/ DeletionExecutes \/ QueryBlock \/ BlockPasses \/ AccountSigns

LifeSpec == LifeInit /\ [][LifeNext]_lifeVars

-----------------------------------------------------------------------------
(* Properties.                                                              *)

Answered(op) == call.pc = "done" /\ call.q.op = op /\ ~ IsError(call.answer)
Answer == call.answer.is

\* The document as it was at a moment, the endpoints of a full DID left out.
DocumentAt(m, uri) == ResolveDoc(uri, m.did, m.deleted)

Bare(doc, uri) ==
    IF uri.type = "full" /\ doc # Absent /\ ~ doc.deactivated
    THEN Document([doc.details EXCEPT !.endpoints = <<>>], doc.canonicalId, FALSE) ELSE doc

\* The key may sign for the DID at a moment.
AuthorisedAt(m, q) ==
    /\ ~ m.deleted
    /\ IF q.uri.type = "light"
       THEN m.did = Absent /\ q.uri.fragment = "authentication" /\ q.by = Subject
                /\ q.expected = Absent
       ELSE /\ m.did # Absent /\ q.uri.fragment = q.by
            /\ KeyAt(m.did, q.by) # Absent
            /\ q.expected = "assertionMethod" => m.did.attestationKey = q.by

\* Whatever changes between the queries of a call, its answer is that of one
\* moment of the call: no DID is reported unknown that was always either there
\* or deleted, none deactivated before it is, no key verifies that could not
\* sign at some moment, and none is refused that always could. Only the service
\* endpoints come from another moment than the keys, and a deletion is refused
\* only if the count it was made with had become too small, or the DID was gone.
AnswersOfAMoment ==
    /\ Answered("resolveDoc") =>
          /\ \E m \in seen : Bare(Answer, call.q.uri) = DocumentAt(m, call.q.uri)
          /\ call.q.uri.type = "full" /\ Answer # Absent /\ ~ Answer.deactivated =>
                \E m \in seen : Answer.details.endpoints = Services(m.endpoints)
    /\ Answered("verify") => \E m \in seen : Answer = AuthorisedAt(m, call.q)
    /\ Answered("resolveKey") /\ call.q.uri.type = "full" =>
          \E m \in seen : Answer = KeyAt(m.did, call.q.uri.fragment)
    /\ Answered("delete") /\ Answer = "refused" =>
          \E m, n \in seen : n.did = Absent \/ Cardinality(n.endpoints) > Cardinality(m.endpoints)

\* A migration that succeeds gives the DID the builder promised: its keys, its
\* endpoints and the key of the light DID, unless somebody changed it since.
MigratedAsBuilt ==
    Answered("migrate") /\ untouched =>
        LET d == Answer.details
        IN  /\ FirstKey(d, "authentication").publicKey = light.identifier
            /\ IsSameSubject(d.uri, light.uri)
            /\ accepted = {Op("encryption", k.publicKey) : k \in GetKeysOf(d, "keyAgreement")}
                          \cup {Op("service", id) : id \in DOMAIN d.endpoints}
                          \cup {Op("attestation", k.publicKey) : k \in GetKeysOf(d, "assertionMethod")}
                          \cup {Op("delegation", k.publicKey) : k \in GetKeysOf(d, "capabilityDelegation")}

\* A name is answered only for an account that was linked, and is the name its
\* DID had, each at some moment of the call; an account is linked by signature
\* only to the DID it signed for, with or without the byte of its type.
LinksOfAMoment ==
    /\ Answered("queryWeb3Name") =>
          \E m, n \in seen : Answer = IF m.linked = Absent THEN Absent ELSE n.names[m.linked]
    /\ Answered("authorizeLink") =>
          /\ call.q.signedFor = call.q.did
          /\ Answer = "refused" => call.read > NBlocksValid
    /\ call.pc = "done" /\ call.q.op = "authorizeLink" /\ IsError(call.answer) =>
          call.q.signedFor # call.q.did

\* What a document says can be followed: every key it lists for a relationship
\* resolves to that key, every service to that service, as long as the DID is
\* what it was. And a light DID's text says all there is to it.
DocumentResolves ==
    /\ LightDidFromUri(light.uri, TRUE) = light
    /\ Answered("resolveDoc") /\ seen = {Moment} =>
          \A doc \in IF Answer = Absent THEN {} ELSE {Answer} :
             ~ doc.deactivated =>
                LET exported == ExportToDidDocument(doc.details, "application/json")
                    Resolved(uri, op) == AnswerFrom(Asks(op, uri), doc)
                    Key(uri) == IF uri.type = "full" THEN KeyAt(did, uri.fragment)
                                ELSE Resolved(uri, "resolveKey")
                IN  /\ \A r \in DOMAIN exported.relationships :
                          \A uri \in exported.relationships[r] :
                             \E v \in exported.verificationMethod :
                                v.id = uri /\ Key(uri).publicKey = v.publicKey
                    /\ \A s \in exported.service :
                          s.is = IF s.id.type = "full" THEN ServiceAt(endpoints, s.id.fragment)
                                 ELSE Resolved(s.id, "resolveServiceEndpoint")
=============================================================================
