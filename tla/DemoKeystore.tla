----------------------------- MODULE DemoKeystore -----------------------------
(***************************************************************************)
(* The keystore that signs, encrypts and decrypts for those who hold it:   *)
(* did/src/DemoKeystore/DemoKeystore.ts.                                   *)
(*                                                                         *)
(* A store is [signing, encryption]: signing a set of [publicKey, type],   *)
(* encryption a set of public keys. A public key stands for its secret as  *)
(* well: a signature says by what it was made and over what; a box is      *)
(* opened by the one secret the two keys it was made with share.           *)
(***************************************************************************)
EXTENDS DidUri

EmptyKeystore == [signing |-> {}, encryption |-> {}]

SigningSupported(alg) == alg \in {SigningAlgorithmFor[t] : t \in DOMAIN SigningAlgorithmFor}
EncryptionSupported(alg) ==
    alg \in {EncryptionAlgorithmFor[t] : t \in DOMAIN EncryptionAlgorithmFor}

\* Whether getSigningKeyPair finds one: a key serves only its own algorithm.
HoldsSigningKey(store, publicKey, alg) ==
    /\ SigningSupported(alg)
    /\ [publicKey |-> publicKey, type |-> KeyTypeFor(SigningAlgorithmFor, alg)] \in store.signing

\* Whether getEncryptionKeyPair finds one.
HoldsEncryptionKey(store, publicKey, alg) ==
    EncryptionSupported(alg) /\ publicKey \in store.encryption

\* The keyring has one pair for a public key, the last that was put there.
PutSigningKey(store, publicKey, alg) ==
    [store EXCEPT !.signing = {k \in @ : k.publicKey # publicKey}
         \cup {[publicKey |-> publicKey, type |-> KeyTypeFor(SigningAlgorithmFor, alg)]}]

AddEncryptionKeypair(store, publicKey) ==
    IF publicKey \in store.encryption THEN Error("ERROR_KEYSTORE_ERROR")
    ELSE [store EXCEPT !.encryption = @ \cup {publicKey}]

AddSigningKeypair(store, publicKey, alg) ==
    IF \E k \in store.signing : k.publicKey = publicKey THEN Error("ERROR_KEYSTORE_ERROR")
    ELSE PutSigningKey(store, publicKey, alg)

\* The key a seed, or chance, makes.
GenerateKeypair(store, publicKey, alg) ==
    CASE SigningSupported(alg) -> PutSigningKey(store, publicKey, alg)
      [] EncryptionSupported(alg) -> AddEncryptionKeypair(store, publicKey)
      [] OTHER -> Error("ERROR_KEYSTORE_ERROR")

AddKeypair(store, publicKey, alg) ==
    CASE SigningSupported(alg) -> AddSigningKeypair(store, publicKey, alg)
      [] EncryptionSupported(alg) -> AddEncryptionKeypair(store, publicKey)
      [] OTHER -> Error("ERROR_KEYSTORE_ERROR")

Sign(store, publicKey, alg, data) ==
    IF HoldsSigningKey(store, publicKey, alg) THEN [by |-> publicKey, over |-> data]
    ELSE Error("ERROR_KEYSTORE_ERROR")

SealBox(store, publicKey, alg, peerPublicKey, data) ==
    IF HoldsEncryptionKey(store, publicKey, alg)
    THEN [keys |-> {publicKey, peerPublicKey}, data |-> data]
    ELSE Error("no key")

OpenBox(store, publicKey, alg, peerPublicKey, box) ==
    IF HoldsEncryptionKey(store, publicKey, alg) /\ box.keys = {publicKey, peerPublicKey}
    THEN [data |-> box.data]
    ELSE Error("ERROR_KEYSTORE_ERROR")

HasKeys(store, keys) ==
    [k \in keys |-> k \in {p.publicKey : p \in store.signing} \cup store.encryption]

=============================================================================
