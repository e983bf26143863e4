# A TLA+ model of the KILT SDK

The KILT SDK for JavaScript (`packages/`) signs and submits transactions to a KILT
chain, manages decentralised identifiers (DIDs) and their keys, and issues and checks
credentials. This directory holds a model of its stateful core in TLA+: modules
translated from the source, TLC configurations that check them on small instances,
and theorems that TLAPS proves for all instances.

- [The system](#the-system)
- [The modules and the code](#the-modules-and-the-code)
- [What is checked](#what-is-checked)
- [Bounds](#bounds)
- [Fairness](#fairness)
- [What is proved](#what-is-proved)
- [What disagrees with its documentation](#what-disagrees-with-its-documentation)
- [What is not modelled](#what-is-not-modelled)
- [Plan](#plan)

To run: `tlc -workers 2 -config SubmitTx.cfg SubmitTx` checks one configuration (the
module of each is in `PROJECT.json`, under `runs`); `tlapm AccountNoncesProofs.tla`
checks one module of proofs.

## The system

The SDK is a library: it has no processes of its own. Its concurrency is that of a
JavaScript program. Code runs without interruption from one `await` to the next, and
calls made by different parts of an application interleave at the awaits, together with
callbacks of timers, subscriptions and the socket. Hardly any of this is reached by the
unit tests, which resolve every awaited promise at once.

| component | state | operations | talks to | hard | correct when |
|---|---|---|---|---|---|
| **Account nonces** `chain-helpers/.../Blockchain.ts` | `accountNonces`, the next nonce per account | `getNonce`, `signTx`, `reSignTx` | RPC `accountNextIndex` | concurrent calls read the map before an await and write it after; `reSignTx` deletes an entry others rely on | nonces are distinct, and newer than those handed out during the await |
| **Transaction submission** `Blockchain.utils.ts`, `SubscriptionPromise.ts`, `ErrorHandler.ts` | one promise, `latestResult`, a timer, a disconnection handler | `submitSignedTx`, `makeSubscriptionPromise`, `parseSubscriptionOptions` | the node's subscription, the connection cache | results before the await resumes, after retractions, after a lost socket; timer against result | the caller gets one verdict, and one the chain vouches for; nothing is left behind |
| **Retries** `Blockchain.ts`, `Blockchain.utils.ts` | the signed transaction, which is re-signed in place | `signAndSubmitTx`, `submitSignedTxWithReSign`, `isRecoverableTxError` | nonces, submission, the pool | other wallets, lost replies, resubmission by the caller, two retries only | no call collides with another of the same SDK, none executes twice, all execute |
| **Connection cache** `BlockchainApiConnection.ts` | `instance`, a cached promise | `getConnectionOrConnect`, `connected`, `disconnect`, `setConnection`, `clearCache`, `buildConnection` | configuration, the provider | connect, probe and disconnect interleave at the awaits of one promise | no open connection is lost sight of, none that is being closed is handed out |
| **DID batches** `DidBatchBuilder.ts`, `FullDidDetails.ts`, their utils | groups of extrinsics, one per change of key | `addSingleExtrinsic`, `addMultipleExtrinsics`, `build`, `authorizeExtrinsic` | RPC for the DID's counter, a signer, the DID and utility pallets | the counter is stale when used; additions during the await; failures in groups of groups | order, key and counter of every extrinsic; atomic means atomic |
| **DID creation and update builders** `FullDidBuilder.ts`, `FullDidCreationBuilder.ts`, `FullDidUpdateBuilder.ts` | marks of what is to change, the batch, `consumed` | one method per key and endpoint operation, `build`, `buildAndSubmit` | counter, signer, DID pallet | long sequences of accepted and refused calls; `build` gives up control before it consumes the builder | the marks, the batch and the DID on the chain agree; nothing is executed twice |
| **DID resolution and details** `DidResolver.ts`, `DidDetails/`, `Did.utils.ts`, `Did.chain.ts`, `DidDocumentExporter.ts` | none but the caller's copy of a DID | `resolveDoc`, `resolveKey`, `resolveServiceEndpoint`, `resolve`, `fromChainInfo`, light DIDs in their URIs, `migrate`, `verifyDidSignature`, the extrinsics of the pallet | several queries per answer | the DID is created, changed, deleted between two queries; a light DID has no home but its text | the answer is one the chain gave at some moment; a migration carries everything once; a document can be followed |
| **Account links, web3 names** `DidLinks/` | none | link by signature, removals, names, `queryWeb3Name` | two queries per name | link and name change between the queries; signatures expire | a name answered is one the account's DID had |
| **Delegation** `DelegationNode.ts` | nodes with cached children and hierarchy details | making, signing, storing and reading a node, `verify`; walks up and down a tree on the chain, `getRevokeTx`, `getRemoveTx` | one query per node | the tree changes during the walk | the bounds of a revocation fit the tree |
| **JSON schemas, CTypes, claims** `utils/src/json-schema`, `core/src/ctype`, `Claim.ts` | the validator's lookup of schemas | `addSchema`, `validate`, `fromCTypeAndClaimContents`, `fromNestedCTypeClaim` | nobody | evaluated properties are collected along the way and dropped by failed branches; references resolved in any order | the verdict is what the schema means |
| **Credentials, requests, attestations** `core/src/claim`, `requestforattestation`, `credential`, `attestation` | claims, their nonces and hashes, the signature; request and credential share the claim | `fromClaim`, `signWithDidKey`, `removeClaimProperties`, `createPresentation`, `verify`, `getStoreTx`, `getRevokeTx`, `checkValidity` | the claimer's signer, the resolver, the attestation pallet | properties are removed in place; a verification is two queries; revocation and migration in between | what verifies was attested and is shown by its owner; what is hidden stays hidden |
| **Quotes** `core/src/quote` | none | `fromQuoteDataAndIdentity`, `fromAttesterSignedInput`, `createQuoteAgreement`, compression | DID keys | two signatures, three forms | the form that comes back is the one that was sent |
| **Messaging** `messaging` | none | `encrypt`, `decrypt`, the checks of 18 types of body, `compressMessage`, `decompressMessage` | the resolver, the keystore | keys resolved at another time than the message was made; messages that wait, repeat or never come; compression sorts and strips what was hashed | the sender owns what the message carries; what comes is what was sent, or is refused |
| **Verifiable credentials** `vc-export` | none | `fromCredential`, `makePresentation`, three proof suites | vc-js, the resolver, attestations | each proof asks for itself | agrees with the credential it was made of |
| **Demo keystore** `DemoKeystore.ts` | a keyring, a map of encryption keys | `generateKeypair`, `addKeypair`, `sign`, `encrypt`, `decrypt` | nobody | | a key serves only its algorithm |
| **Configuration** `config`, `kilt` | address, log level | `configure`, `connect`, `disconnect` | connection cache | connecting before configuring | |
| everything else | | encoding of chain types, balances, units, types, exports | | | |

How they interact: `signAndSubmitTx` takes the cached connection, gets a nonce through
`signTx`, and submits; with the `reSign` option a failed submission comes back to
`reSignTx` and the nonces. Whatever a DID authorises is an extrinsic that a DID batch or
a builder wraps with the DID's own counter and signature; it is then submitted like any
other transaction. The two counters are independent: the account's nonce is cached and
shared, the DID's counter is read from the chain each time.

Above that, a claimer makes a request for attestation out of a claim, signs it with a
key of the DID, and sends it in a message encrypted with a key of the DID. The attester
stores an attestation and sends it back; the two make a credential. A presentation of it
is a copy with fewer properties and a signature of its own, which a verifier checks with
the resolver and the attestation on the chain. Every step resolves DIDs anew, so that
each sees the claimer's DID at another moment: as a light DID, migrated, with other keys,
or deleted.

## The modules and the code

Each module follows one rule: an action is the stretch of code from one await (or the
call) to the next, with every assignment in it; a method that throws and changes
nothing is an action that is not enabled. The node, the pool, the chain's pallets and
the provider are not in this repository. They are modelled from how the code uses them
and may do all that the code must expect. A definition whose comment begins with
"Mutated:" is no part of a specification: it is the definition after it with a
plausible mistake, and shows which property that mistake breaks.

**AccountNonces** models `getNonce`, `signTx` and `reSignTx`. A `Call` is one `signTx`
and the re-signatures of its transaction. `SignTxKnown` is the path without an await;
`SignTxUnknown`, `ChainAnswers` and `GetNonceResumes` are the path with one, and
`GetNonceResumes` reads the map again as the code does. The chain may answer any index.
`resets`, `stamp`, `during` and `quiet` are history: they say which nonces were handed
out with no deletion between them, which during a call's await, and whether the entry
was left alone during that await.

**SubscriptionPromise** holds the pure part of a submission: results, promises, the
criteria (`ResolvesOn`, `RejectsOn`) and the callback (`Push`). A result is its status,
what its events say of the dispatch, and whether an internal error is attached.

**SubmitTx** models one `submitSignedTx`, its callback (`ResultArrives`), its timer,
`handleDisconnect` (`AfterDisconnect`, run by `LinkDrops`) and the node's reports, with
retractions and every way a transaction can be thrown out. `phase` is where
`submitSignedTx` stands. `Listen` and `Proceed` model the chaining of the `catch` and
the `finally`: a promise that settles before they are chained is passed on when they
are. The connection that `getConnectionOrConnect` gives may be another than the one the
transaction is submitted on.

**Submission** is the abstract specification of that: the chain vouches for more and
more, and the caller gets at most one verdict, which claims no more than the chain has
vouched for. SubmitTx implements it under the mapping `verdict`.

**ApiConnection** models the cache. A `Handle` is a promise of a connection together
with the connection; a call is one action up to its await of a handle and one from
there. `loose` are the handles that a user has taken charge of with `setConnection`,
`clearCache` or `buildConnection`.

**TxPipeline** composes AccountNonces (by `INSTANCE`, with the chain's real answers)
with a pool and a chain. The pool has one transaction per nonce; it may refuse, replace
and drop, other wallets use the account, and replies get lost. `Retry` is the `retry`
of `submitSignedTxWithReSign`, `Recoverable` is `isRecoverableTxError`. How a verdict
reaches the caller is abstracted to "arrives or is lost", which SubmitTx justifies.
`MaxFaults` bounds the faults (`Fault`): an RPC without an answer, a signer that throws,
a refusal, a dropped transaction, a lost connection.

**DidBatch** models calls of `build` of a batch builder (`Building`, `BuilderOf`) and of
`authorizeExtrinsic` (`Caller`), both as jobs: ask for the counter or be given one, sign
what there is on resuming, execute. Extrinsics are collected per builder, and nothing
consumes it: it may be built again, or twice at once. Extrinsics are section and method, from which
`getKeyRelationshipForExtrinsic` chooses the key. On the chain the groups of a job run one
after the other up to one that fails (`RunGroups`, for `did.submitDidCall`): `LetIn` says
when a group's counter is the next, `Dispatch` what the group executes (`utility.batch`,
`utility.batchAll`), `Spent` the counter the DID is left with. `executed` is the set of
extrinsics that took effect: in which order they were signed is a matter of `signed`.

**FullDidBuilder** holds the marks that both builders share. **FullDidCreationBuilder**
models a creation, and **FullDidUpdateBuilder** an update: one action per method, with
the order of its checks, `build` cut at its await, and the chain's execution of the
operations one by one. In the update builder `build` is `Build` (checks, takes the
batch, asks for the counter), `BuildResumes` (starts the signature, consumes) and
`SignerAnswers`.

**Delegation** models the walks over the tree of delegations on the chain. The tree is
external: nodes are added below nodes that are there and removed with all below them,
at any moment. A walk is one query after another: `GetRevokeTx` climbs
(`ParentArrives`, `Reach` is `findAncestorOwnedBy` at a node), then counts;
`GetRemoveTx` only counts; `CountNodeDepth` queries a node and climbs. In the count
every node below is queried by its parent's `getChildren` (`ChildArrives`) and, when
all its siblings are there, again by its own (`NodeArrives`); `visit` is where
`subtreeNodeCount` stands at each node. Walks share nothing, so one is enough.

**DelegationStore** is what comes before the walks: a node is made (`NewRoot`, `NewNode`),
signed by a delegee's key (`DelegeeSign`), put into an extrinsic (`GetStoreTx`), read from
the chain (`GetLatestState`) and verified (`Verify`). One object per identifier is at
hand, `node`, and a query replaces it, with permissions decoded from the bits that
`PermissionsAsBitset` made of them; what it was made with stays in the history `made`.
The delegation pallet is external, and does what the SDK counts on: it makes the hash of
a node again from what it would store and checks the owner's signature against it.
Extrinsics may be lost or overtake each other, keys change, and subtrees are revoked and
removed at any moment.

**JsonSchema** is the validator the SDK carries: `Dereference` is the walk that gives
every subschema its URI, `Validate` the validation, with one operator per group of
keywords (`Combinators`, `Dependents`, `RestProperties`, `ContainsItems`...). A result is
the number of errors and what was evaluated; the next keyword starts from the result of
the one before, as in the code, and stops there in short-circuit mode.
**JsonSchemaMeaning** says what a schema means without order, early exit or lookup: it
follows references in the documents. **ClaimSchemas** has the SDK's own schemas
(`CTypeModel`, `CTypeWrapperModel`, `MetadataModel`, `QuoteSchema`), the class
`Validator` and the making of claims from CTypes and nested CTypes.

**DidUri** has URIs, identifiers, key types and algorithms, **DidDetails** the details of
light and full DIDs, what a light DID's URI encodes, documents and their export, the
records of the chain and the extrinsics made for them, and signatures. Both are only
operators. **DidLife** composes them with FullDidCreationBuilder: a light DID is migrated
(`BuildOn`, `CreationExecutes`), changed and deleted on the chain, while one call asks
one query at a time (`QueryDetails`, `QueryServiceEndpoints`, `QueryDidDeletionStatus`,
`QueryKey`...). `call` says what it has read and which query comes next; `seen` is
history, what the chain held at each moment of the call. Accounts' links and names are in
it too.

**DemoKeystore**, **JsonAbc**, **Claims**, **Credentials**, **Quotes**, **Messages** and
**VerifiableCredentials** are the operators of the exchange of credentials, a module per
package of the source. A hash is what it is made of, a signature says by which key and
over what, an encrypted message holds the two keys of its box. An operator that throws
returns an error, and `Then` is the sequence in which the first error counts. The code
calls itself on the legitimations of a request, which are credentials with requests of
their own; here that is a recursive function over the constant `Legitimation`, the
credentials there are to hold (`LegitimationVerifyData`, `CompressedLegitimation`,
`DecompressedLegitimation`).

Compression does not leave a body as it was. `sortObj` (JsonAbc) sorts the keys of nested
objects and the items of nested arrays, the latter where they are, so that the claim of
the sender changes too; and what is not one of a schema's five fields is dropped. An
attribute's value is therefore a JSON value here: a scalar, an array, or an object whose
members have an order (`Json`). `ClaimIn` is a claim with its contents sorted (`SortObj`) or
as sorting leaves them (`SortedInPlace`), `RequestIn`, `CredentialsIn` and `ContentIn` are
the same of all claims in a request, in legitimations to any depth, and in a body. The
statements' digests are made of the values as they are, unsorted. The attributes of a
claim, and the fields of a schema, have no order: an attribute is hashed by itself, and a
schema is sorted before it is hashed, so that no hash tells.

**Exchange** composes them with the chain: a claimer, an attester and a verifier, with
one action per call, or two for a call that awaits its signer (`SignWithDidKey` and
`SignatureMade`, `CreatePresentation` and `PresentationMade`), and one per query of a
verification (`ResolveSigner`, `QueryAttestation`). Messages stay in `sent`, from which
they come at any time, again, or never. `HideProperties` changes the claim of request and
credential at once, because the code's two objects hold the same claim. `Compose` makes a
message of the compressed form of a body of any of the 18 types, with parts that are
absent, malformed or zero, and notes what the sender is `left` with. It takes the
claimer's request or one of `OtherRequests`, whose contents may be nested and out of order,
and so may those of the credentials they hold; one of the CTypes is `Extended`, with
further fields. The sets before `ExchangeInit` say what can be signed,
attested and stored at all; the assumptions and the proofs speak of them.

The MC modules only give values to constants, symmetries and bounds. PROJECT.json has
the lines each definition stands for under `map`.

## What is checked

| run | question | properties |
|---|---|---|
| `nonces` | are nonces distinct and fresh, and what is left of that when `reSignTx` deletes entries? | `DistinctSinceReset` `FreshWhileQuiet` |
| `submit` | is the caller told only what the chain vouches for, and is it told in the end? | `VerdictTruthful` `CleanedUp` `ImplementsSubmission` `SettlesInTheEnd` |
| `connection` | is a connection ever orphaned, or handed out while being closed? Do calls return, and do disconnected connections close? | `NoOrphan` `CacheAlive` `CallsReturn` `DisconnectCloses` |
| `pipeline` | do calls get in each other's way, leave unexplained gaps, execute twice, or fail though nothing went wrong? | `GapsExplained` `OneLiveTx` `NoSelfCollision` `AllExecute` |
| `did_batch` | order, keys, counters and atomicity of batches, built twice or with a rival job | `SignedInOrder` `RightKey` `CountersDecide` `AtomicWhole` |
| `did_update` | do marks and batch agree after any operations? Two calls of `build`, and operations between them: what becomes of the DID? | `BatchMakesMarked` `DidFollowsBatch` `FirstIsAuthorised` |
| `did_life` | is a DID created once, with all that was accepted? Is every answer about it the truth of some moment, while it is migrated, changed and deleted? | `CreationCarriesAll` `OneCreation` `AnswersOfAMoment` `MigratedAsBuilt` `LinksOfAMoment` `DocumentResolves` |
| `delegation` | are the bounds of a revocation right, and is it refused only with reason, while the tree changes? | `NearestFound` `CountCovers` `CountedOnce` `HonestRefusal` |
| `delegation_store` | does what verifies have its owner's consent, and is a node that was made and signed rightly ever refused? | `VerifiedIsAgreed` `RightfulIsStored` |
| `schema` | is the validator's verdict what the schema means, whatever the order of the schemas and the mode? Are claims made of exactly what their CTypes allow? | `Agrees` `ClaimSatisfies` `ModeBlind` |
| `exchange` | is a verification right, does a presentation show what was selected and no more, does a message come as it was sent, is what compression changes noticed? | `VerificationIsRight` `PresentsWhatIsSelected` `ComesAsSent` `WhatIsLostIsNoticed` |

One more run, `submit_disconnect`, ends in a violation: see
[below](#what-disagrees-with-its-documentation). The modules' type invariants are not
run: they are proved, or the parts of an inductive invariant.

What they show, beyond that they hold:

- Nonces are safe as long as nobody re-signs. With re-signing they are only safe
  between two deletions of an account's entry (`DistinctSinceReset`), and the freshness
  that the code's second look at the map is there for holds only for calls that were
  not disturbed by a deletion (`FreshWhileQuiet`; without `quiet[c]` TLC refutes it).
  In the whole pipeline this costs a retry and never a double execution.
- `GapsExplained` says where a transaction stuck in the pool comes from: every missing
  nonce below it is on its way, or was taken by a call that failed after taking it.
  The SDK never gives a burnt nonce back.
- `AllExecute` marks the limit of two retries: two callers stand one transaction of
  another wallet. With `MaxForeign` 2 TLC refutes it: a call fails though its next
  nonce would do.
- `CleanedUp` leaves out the one outcome where the code does leave the subscription
  open: no connection to be had after the node took the transaction.
- `CountersDecide` is all that keeps a batch builder that is built twice from executing
  its extrinsics twice: the same counter is good for one of the two. Built again after
  the first has executed, it does execute them again.
- `DidFollowsBatch` holds although two calls of `build` may both succeed: their
  transactions carry the same counter, or the second finds its operations done, so the
  DID never gets further than the batch.
- The bounds `getRevokeTx` computes are as good as they can be: the depth is exact
  however the tree changes (`NearestFound`), because nobody can move a node; the count
  is too small only if something was added below during the walk (`CountCovers`), and
  never larger than what was there at some time (`CountedOnce`). It is too large by
  what is removed meanwhile; a removal between the two queries of a child makes the
  whole walk fail instead (`HonestRefusal`).

- `VerifiedIsAgreed` holds although `verify` compares nothing, and although the hierarchy
  of a node is in no extrinsic: a node made for the wrong hierarchy has another hash than
  the chain expects, and is never stored. It is about delegations: of a root the chain
  gets neither its permissions nor its account.

- `AnswersOfAMoment` holds of a document but for its services: they may be of another
  moment than the keys. A document is never that of a DID unknown, though the DID was
  there all the time, because the blacklist of deleted DIDs is asked after the record.
- `Agrees` leaves out what has no meaning apart from the order of evaluation
  (`unevaluatedProperties`, `unevaluatedItems`, `$recursiveRef`) and two places where the
  validator differs from the drafts (`Peculiar`). `ModeBlind` covers the first: only a
  condition beside `unevaluated...` tells the modes apart.
- `VerificationIsRight` is as strong as two queries allow: the signer's key was good at
  some moment and the attestation at some moment, not both at one. Of a credential whose
  claimer migrated after signing, `Credential.verify` and the proof suites answer
  differently; `SignerAt` says how.
- `ComesAsSent` needs no order of messages: a message that was delayed across the
  sender's migration is taken or refused with the sender's key alone, and the owner of a
  claim made before the migration is the sender after it.
- `WhatIsLostIsNoticed` has two halves. `ComesBackSorted` says what comes of a compressed
  body: the body with its claims sorted and its CTypes stripped, and nothing else
  changed, for quotes, delegations and signatures that is the body itself. It names the
  bodies without a compressed form: three types, and those with a cost of zero. The
  other half says that whatever is changed by that is refused: by the receiver, and by
  everybody who is given what the sender is left with. So a request with nested contents
  that are not in order by chance is lost once it is compressed, and so is a CType with
  further fields; what cannot happen is that it passes for what was hashed. A bare claim
  in a body of terms is not hashed, and changes unnoticed.

Deadlock is not checked in any run: a library stops when nobody calls it, and all
behaviours here are of finitely many calls.

## Bounds

| bound | where | why it is enough |
|---|---|---|
| 3 calls of one account, 1 re-signature each, answers 0..1 | `nonces` | three rivals that take their nonces in any order of the answers, and a deletion between the query and the resumption of a second call with a third in between; that accounts do not affect one another is in the proof |
| `MaxBlocks` 2, `MaxDrops` 1, two connections | `submit` | included, retracted, included elsewhere with another outcome; both sockets lost in either order |
| 2 callers, 2 connections | `connection` | one connection being closed while the next is built, with a caller at an await of either; the safety properties are proved for any number |
| 2 calls, 2 re-signatures, 1 foreign transaction, 2 faults, 1 resubmission each | `pipeline` | all retries used, by both; a fault during the recovery from another |
| up to 3 extrinsics, 1 builder, 2 calls of `build` and 1 rival of which any two are made, counters modulo 8, given counters 1 and 7 | `did_batch` | groups of one and of several, a key that returns after another, counters that leave the range; a rival before and after the query |
| 2 verification keys, 1 encryption key, 2 endpoints (one fit only for a full DID), 2 callers of `build`, 2 transactions, one call that asks (`MCBounds`) | `did_life` | every pair of queries has a transaction before, between and after; calls that only read do not disturb one another. The properties are proved for any number |
| the SDK's four schemas, four CTypes, small schemas for each group of keywords, at most 2 documents | `schema` | instances on both sides of each limit; a reference to what is there, comes later, or never comes |
| a claim of 2 properties, 1 of them shown or both, one challenge or none, 2 transactions besides the attester's, 2 calls of the claimer's to sign, hide or present, one message to each party, a legitimation that holds one itself; five other requests, with an object in order, with its keys or also its array out of order, with an array that holds an object, and with a credential in order that holds one out of order; one CType with a further field | `exchange` | migration followed by a new key or by deletion, revocation or removal, each before, between and after the two queries; two signatures out of order; a signature while a property is hidden. What happens once the presentation is sent, which is a copy, depends on the chain alone: `MCBounds` lets it be sent when both calls have begun and stops the rest then, and `MCView` takes states for one that differ elsewhere. Bodies are composed at the start only, because they depend on the request alone. A digest is the statement itself: that no two statements share one is all that is asked of it |
| 2 operations per batch, 2 callers, 2 keys of each kind, 1 endpoint, every initial DID | `did_update` | addition and removal of one key in either order, removals of all keys after one of them, an operation accepted between two builds. The properties are proved for any number |
| 5 nodes, 2 DIDs, every assignment of owners | `delegation` | chains and bushes of up to four below the target, with owners in any order above it; additions and removals at any moment. The properties are proved for any number |
| a root, a node below it and one below that, made rightly, for another owner, or with the parent for the hierarchy; one change of key; two signatures and two extrinsics at a time (`MCSmall`) | `delegation_store` | a signature before and after the change of key, by the owner or another DID; an extrinsic that comes after its parent was removed, or its node stored again; every node read and signed anew |

Where no property tells calls, callers, verification keys or delegations but the root apart, a run uses that as a
symmetry; no run that checks liveness does. `MaxNonce` is 2^64 - 1 in the code and 7 in
the runs: only that it is one less than the modulus matters.

## Fairness

- **Submission** (`SubmitTx`): weak fairness of every callback that is due, because the
  event loop runs them; of the node's answer to the request, and of its reports, because
  a transaction leaves the pool in the end; of the wait for a connection, which fails or
  succeeds. Sockets need not be lost, and once lost their results are gone.
- **Connection cache**: settled promises resume those that await them, and the node
  answers in the end, as the provider retries for ever. Nobody need call anything, and a
  lost socket need not return.
- **Pipeline**: a call that was started goes on, and the chain executes what it can.
  Calls need not be started and faults need not happen; after one, `AllExecute` asks
  for nothing.

## What is proved

The proofs hold for any number of callers, calls, accounts, connections, keys, services,
blocks, transactions, delegations and attributes, and for legitimations that hold others
to any depth. They rest on the assumptions of the modules:

- markers such as `NoNonce` are not values, the bounds are natural numbers, the own
  connection is one, and there are finitely many delegations;
- `LegitimationAssumption`: a legitimation is a credential that passed the checks of its
  constructor, and was made after the credentials it holds, so none holds itself;
- `ExchangeAssumption`: the three parties have keys of their own, claim, CTypes and other
  requests are whole, arrays in the contents of the claimer's own request are in order,
  so that compression leaves it as it is (those of the other requests need not be), and
  the quote is complete and costs something (one that costs nothing cannot be
  compressed, see below);
- `LifeAssumption`: no account is called `encryption`, which is what a light DID calls its
  encryption key;
- `AbsentAssumption` and `CompressionAssumption`: `undefined` is no name and none of the
  objects made.

A DID and a builder start with finitely many keys and services; that is part of their `Init`.

- **AccountNoncesProofs.** `TypeCorrect`. `NoncesDistinctSinceReset` and
  `EntryStaysAhead`, from types, the entry being ahead of every nonce handed out since
  the last deletion, and stamps that never exceed the account's resets. Distinctness
  alone is not inductive: that a new nonce is new follows from the entry being ahead of
  the old ones. `NonceFreshWhileQuiet` adds that, as long as a waiting call is quiet,
  the entry is ahead of all nonces in its `during`.
- **ChainHelpersProofs**, of SubmitTx. `TypeCorrect`. `SubmissionTruthful`, from
  `SubmitInv`: whatever is
  on the wire, was received last, or settled the promise is `True` of the chain, that
  is, all it claims has been reached; and what was reached stays reached. The history
  `reached` makes the argument independent of order: a retraction makes a result stale
  but not false. `Implements` proves `Spec => ImplementsSubmission`, with `OneVerdict`
  (a settled outcome never changes) as the second ingredient. `NothingLeftBehind` is not
  inductive: the node might take a transaction that nobody waits for any more. `CleanInv`
  adds that `tx.send` is only pending while `submitSignedTx` awaits it.
- **ChainHelpersProofs**, of ApiConnection. `CacheSound`: `CacheTypeOK`, `NoOrphan` and
  `CacheAlive`. They are
  inductive together once it is known that what is cached or about to be closed was
  built (`Built`): otherwise a fresh handle could be one that is being closed.
  `NeverTornDown` is the last of the three by itself.
- **TxPipelineProofs.** `RunsNonces`: the pipeline is a behaviour of AccountNonces, with
  the chain's real answers for any answers. What is proved there is then used here
  (`Proved` is an instance of AccountNoncesProofs), so nothing about the map of nonces is
  proved twice. `RetriesExecuteOnce` is an account of transactions: what a call has
  executed, what it has in the pool, and one more if it may still bring one there
  (`ToCome`), is at most one and its resubmissions (`Budget`). `NoUnexplainedGap` needs
  that more than the nonces of the pool are accounted for: all below what the map holds,
  what the chain has answered, and what was handed out (`NoGap`). `NoneCollides` has
  the property's own proviso inside the invariant: as long as no other wallet and no
  resubmission has disturbed the accounts, no submission fails in a way that is signed
  again, so no entry is deleted and all nonces of an account are distinct, and all below
  the chain's were spent by calls of this SDK (`Peaceful`).
- **DidBatchProofs.** `OrderIsMaintained`, `KeysAreRight`, `AllOrNothing` and
  `CountersAreDecisive`. The invariant goes along with the extrinsics: what a builder
  holds is all it was given, in order and under the right keys (`CollectedInv`), what is
  signed is all of that at one moment after the call of `build`, with counters that
  follow one another (`SignedInv`), and what executes is what a counter that is next, or
  atomicity, makes of it (`ExecutedInv`). The two halves of the lemma `Pushed` are the two
  branches of `pushNewExtrinsic`. That two builds on one counter do not both execute needs
  another invariant, `OnceInv`: what has executed has a counter the chain has passed.
- **FullDidUpdateBuilderProofs.** `Frozen`, a consumed builder changes no more. This
  is the part of consumption the code does guarantee; that nothing is accepted between
  the taking of the batch and the consumption does not hold. `Authorised`: until the chain
  has executed a transaction of the builder the DID is the one it started from, and
  every call has read a counter the chain has had (`AuthorisedInv`). `BatchIsMarks`, from
  `BatchInv`: the marks bear the trace of every operation in the batch (`Noted`), and the
  batch, followed from the DID the builder started with, is never refused and leads to
  the DID the marks describe (`Leads`). Removing all keys is a row of operations that
  stops at the first refused (`RemovalStep`). `FollowsBatch`, from `ChainInv`: every
  transaction is a beginning of the batch, and the DID on the chain is what some
  beginning of it makes. The lemma `RunsAlong` does the work: executed again on a DID that
  has come some way along the batch, what has been done fails or changes nothing.
  The DID after each operation of a batch is a recursive function (`Runs`), so that the
  induction over the batch is one over its least counterexample (`SetInduction`).
- **DidLifeProofs**, of creation. `CreationTypeCorrect`, `CarriesAll` and `CreatedOnce`,
  from `CreationInv`: the marks are what was accepted, and the only call past its first
  stage has consumed the builder with exactly these marks. `LifeOfABuilder` proves
  `LifeSpec => Spec`: a migration adds no way to use the builder. So
  `MigrationCarriesAll` and `MigratedOnce` follow without another invariant.
- **DidLifeProofs**, of answers. `AnswersAreOfAMoment`, `LinksAreOfAMoment`,
  `MigrationGivesWhatWasBuilt` and `DocumentsResolve`, from `LifeInv`. `SeenOK`: a call has
  seen the present, and nothing that was deleted came back; that is why a record read
  as missing and a blacklist read later make one moment. `ReadOK`: what was read held at
  some moment seen. `AnswerOK`: a document is the one of a record of one moment and services
  of another (`DocumentOf`). `ChainOK`: until somebody touches it, the DID is what the
  creation brought, which is what a migration returns. The properties are about keys
  and services by their names, and the answers about objects; in between
  are the lemmas on the operators of DidDetails and DidUri: a light DID's text gives back
  its keys and services (`RoundTrip`), and which keys the details made of a record hold
  (`FullDidKeys`, `LightKeys`) and a document refers to (`ExportedIs`).
- **DelegationProofs**, of DelegationStore. `AgreedBehindVerify` and `NothingRightfulRefused`. The lemmas
  on permissions come first: a list in which each is named once makes the bits of its set
  (`BitsOfMembers`), and those decode to the set (`RoundTrip`). The invariant then says of
  every copy of a node (at hand, signed for, in an extrinsic, stored) that it is the node
  as it was made, down to its bits. What is verified is agreed because what is stored was
  signed with a hash that gives back identifier, hierarchy, parent and bits; nothing
  rightful is refused because the chain's own hash of a node is the one that was signed.
- **DelegationProofs**, of Delegation. `DepthExact`, `CountSuffices`, `NoneCountedTwice`,
  `RefusalHonest` and `WalkTypeCorrect`, from one inductive invariant in five parts. `TreeOK`:
  ancestors are linearly ordered, and present with each of their descendants. The set of
  ancestors is part of the state, so nothing is defined by recursion. `ClimbInv`: all
  ancestors that were left behind are somebody else's. `CacheInv` and `VisitInv`: the
  count is the number of nodes visited, each was reached through its only parent, and
  whoever waits for its siblings waits for one that is being queried. `CoverInv`: what is
  below the target is visited, or below a node whose children are still to come.

- **ExchangeProofs.** `ExchangeInvariant`, and from it `MessagesComeAsSent`,
  `PresentationsShowWhatIsSelected`, `VerificationsAreRight` and `BodiesComeBackSorted`. None of
  the first three properties is inductive: what a verification finds depends on what was signed
  and presented many calls before it. `ExchangeInv` therefore says of every object there
  is that it is one of a known form. `ChainOK`: the DID on the chain, the details the claimer
  knows, perhaps outdated, and the keystore go together, and the keystore never loses the
  key of a record. `RequestOK` and `CallsOK`: request, credential, and the credentials of
  calls under way or returned are `RequestWith` some attributes, the nonces of as many or
  more, and a signature over the root of all of them; the credential has the claim of
  the request, which is what makes removal in place from one of them an
  invariant of both. `AttestedOK`: what the chain holds of the claim's hash, by whom.
  `MailOK`: every message is sealed between keys of its two ends and holds one of those
  requests, attestations and presentations.
  The operators are then evaluated once for all such objects: with fewer attributes the
  hashes still verify (nonces are found by what they are nonces of), every check of a
  request, credential or message passes, exporting and removing properties commutes with
  presenting. `VerificationsAreRight` adds `VerifyOK`: each question already answered
  was answered as some moment in `seen` has it. `BodiesComeBackSorted` proves
  `ComesBackSorted`, type by type, for any contents, CTypes with any further fields, and
  any order `SortObj` puts values in. That a request is compressed and comes back with the
  credentials it holds, however deep, is the lemma on its legitimations: one that did not
  come back sorted would be an earliest one (`Earliest`), and those it holds do come back.

Two theorems have a hypothesis, because what they state is not true without it:

- `NamedOnce`, of all theorems about DelegationStore: who makes a delegation names each
  permission once. The code does not ask for it, and adds permissions up:
  `[ATTEST, ATTEST]` is stored and signed for as `DELEGATE`, which nobody has agreed to.
  Every call in the repository's tests meets it, and so do the inputs of
  `delegation_store`.
- `0 \notin Given`, of `CountersAreDecisive`: nobody gives 0 as a counter. The chain only
  lets it in after the largest u64, and only then can a counter that was spent be next
  again. Counters that are read never are 0.

`EntryAhead`, `FailureNeverResolves`, `FrozenOnceConsumed` and the `TypeOK`s are proved and not run.

Only model-checked, and why:

- the second half of `WhatIsLostIsNoticed`, that what compression changes is refused: it
  needs `Digest` and `SchemaHash` to tell all values apart, and what sorting does to a value
  is defined by recursion over the value;
- all liveness (`SettlesInTheEnd`, `AllExecute`...): TLAPS does neither fairness nor
  ENABLED;
- the validator (`Agrees`, `ClaimSatisfies`, `ModeBlind`): schemas and instances hold one
  another to any depth and references lead anywhere, so evaluation is by recursive
  operators (`Validate`, `Satisfies`, `Annotate`, `DeepCompareStrict`), and that two of them
  agree is an induction over schemas, references and instances at once. The prover takes
  neither the operators nor such an induction. A function over a fixed set, as for
  legitimations, would not do: what a reference leads to need not be smaller, and
  termination depends on the instance.

## What disagrees with its documentation

The first is a run that TLC refutes, with the quoted sentence as its property; sentence
and lines are under `findings` in PROJECT.json.

- `submit_disconnect`: a connection lost before the first result makes
  `handleDisconnect` throw; a submission without a timeout then stays pending for ever.

Seen while modelling, and not made a run:

- *Nonces, submission, connection.* A `reSignTx` during another call's await lets that
  call resume with a nonce older than ones handed out meanwhile, against the comment of
  `Blockchain.ts:136`. The promise of a submission is rejected with the result and not
  with what `rejectOn` returned (`SubscriptionPromise.ts:20` against `:42`). `connected`
  may answer for a connection that left the cache during its await
  (`BlockchainApiConnection.ts:82` against `:86`). Connecting before there is an address
  caches a rejected promise for good (`:66`).
- *DIDs.* The DID's counter does not wrap at its maximum, as `===` compares two objects
  (`FullDidDetails.utils.ts:60`). An operation called while `build` of an
  update awaits the counter is accepted and dropped (`FullDidUpdateBuilder.ts:121` against
  `:512` and `:526`). Operations after `setAuthenticationKey` are signed with
  the old key (`FullDidUpdateBuilder.ts:118` against `:516`). `resolve` of a URI with a
  fragment never reaches service endpoints (`DidResolver.ts:227`: a promise is always
  truthy). `generateCreateTxFromDidDetails` warns that it takes the first of several keys
  and takes the last (`Did.chain.ts:541`, `:551`). A URI's
  version is parsed and ignored. An exported document lists a key once per relationship.
- *Delegations.* Permissions are added and not joined (`DelegationNode.utils.ts:30`):
  `ATTEST` twice is `DELEGATE`, and is stored and signed for as that; the check that should
  allow two allows three (`:70`), so `ATTEST`, `DELEGATE`, `ATTEST` makes a node that
  can be stored and that no query can read, as it decodes to no permission. The
  permissions of a root are not sent to the chain. `encodeDidSignature` names a signature
  by its algorithm, where `submitDidCall` uses the type of the key (`Did.chain.ts:755`
  against `:741`): a delegee with an ECDSA key cannot be stored (`Encodable`). Two errors
  are thrown as the functions that make them (`DelegationNode.ts:311`, `:329`).
- *Schemas.* `deepCompareStrict({}, [])` is true. `maxContains` without `minContains`
  allows no match at all. A condition that fails keeps the evaluated marks it made. A
  second `addSchema` of one URI throws and leaves its first half registered.
- *Credentials.* `removeClaimProperties` of a request also takes the properties out of the
  credential that shares its claim, and leaves the credential's nonces: exported without
  a selection, that credential shows the nonces of what it hides; `createPresentation`
  drops them. `verifySignature` documents an `ERROR_IDENTITY_MISMATCH` that nothing
  throws (`RequestForAttestation.ts:217`). `jsonLDcontents` makes
  `ERROR_CTYPE_HASH_NOT_PROVIDED` and does not throw it. A hash is recognised by an
  expression that is not anchored (`DataUtils.ts:45`).
- *Migrated light DIDs.* `resolveKey` still answers for a light DID that has migrated,
  `verifyDidSignature` refuses it: a credential signed with the light DID still verifies
  once exported, and not otherwise. The proof of a claimer's signature ignores the
  challenge, so that a credential signed with one fails to verify once exported.
- *Quotes, messages.* The result of verifying a quote's signature is not looked at
  (`Quote.ts:84`), nor that of validating a quote in a message. A cost of zero cannot be
  compressed (`Quote.utils.ts:31`). Three types of body have compressed types and no
  compression. The check of delegation permissions speaks of two and allows three
  (`Message.utils.ts`). Two checks are of the form `!a === b` and never hold.
- *Compression.* Statements are hashed as they are written (`Claim.utils.ts:80`) and
  compressed sorted (`:231`): a valid request with a nested value whose keys or items are
  out of order is refused by whoever decompresses it, and, if it is an array that is out
  of order, is no longer valid for the sender either, as it is sorted in the claim
  itself. A CType with fields that its own model accepts (`CTypeSchema.ts:73`) and its hash
  covers comes back without them, and is refused.

## What is not modelled

- Encoding and decoding of chain types, addresses and units (`Decode`, `Balance`), and
  the layout of documents: pure, and what could be wrong with them is layout.
- Cryptography (`Crypto` but for salted hashes): a signature, a hash and a box are what
  they were made of. Formats, patterns and lengths of strings in schemas: parameters.
- Logging, the wording of errors, and which of several errors of one value comes first
  where no property can tell.
- The fees of transactions that fail, mortality of transactions, and deposits.
- In FullDidUpdateBuilder, changes of the DID by anybody else.
- In Delegation, `revoked`, as a walk does not look at it; DelegationStore has it. The
  attestations made under a node: a list of queries without state.
- The order of what is inside a schema (`properties` is a value that is carried as it is),
  as the hash sorts it, and integer keys in nested contents, which JavaScript orders
  itself. An object that is listed twice in one body: its second compression would check
  what the first has sorted.
- Of messages, their ids, times and references; the compressed form of a plain quote,
  which no message carries.
- Of `vc-export`, `validateSchema` (the validator is in JsonSchema), contexts, dates, and
  the machinery of jsonld and vc-js around the suites; their `setConnection`. A value is
  the same in the exported subject and after `jsonld.compact`: that jsonld expands the keys
  inside nested values, which `jsonLDcontents` does not, is left out.
- `verifyRequiredCTypeProperties`, `verifyStored`, `verifyOwner`: one comparison each.
- Balances: a query, and a subscription whose callback computes one difference.

## Plan

What is left, in order of what could go wrong most:

1. Two update builders of one DID.
2. Proofs: every safety property of the runs is proved but those of the validator, for
   the reason above. What could be proved of it are lemmas on single keywords, once
   evaluation is written without recursive operators.
