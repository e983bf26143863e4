-------------------------------- MODULE Quotes --------------------------------
(***************************************************************************)
(* Quotes: what an attester offers, the offer signed, and the agreement of *)
(* the claimer (core/src/quote). A quote is [attesterDid, cTypeHash, cost, *)
(* currency, termsAndConditions, timeframe]; the hash that is signed is    *)
(* the quote itself.                                                       *)
(***************************************************************************)
EXTENDS Credentials

CONSTANT IsQuote(_)   \* the QuoteSchema accepts it: see ClaimSchemas

QuoteFields ==
    <<"attesterDid", "cTypeHash", "cost", "currency", "termsAndConditions", "timeframe">>
BasicQuote(quote) ==
    [f \in {QuoteFields[i] : i \in DOMAIN QuoteFields} |-> quote[f]]
With(quote, field, value) ==
    [f \in DOMAIN quote \cup {field} |-> IF f = field THEN value ELSE quote[f]]

\* The first authentication key signs, unless keySelection picks another.
SignAsDid(payload, details, store) ==
    Then(FirstKey(details, "authentication"),
         SignPayload(store, details, payload, FirstKey(details, "authentication").id))

CreateAttesterSignature(quote, attesterIdentity, store) ==
    LET signature == SignAsDid(quote, attesterIdentity, store)
    IN  Then(signature, With(quote, "attesterSignature", signature))

FromQuoteDataAndIdentity(quote, attesterIdentity, store) ==
    IF ~ IsQuote(quote) THEN Error("ERROR_QUOTE_MALFORMED")
    ELSE CreateAttesterSignature(quote, attesterIdentity, store)

\* The signature is verified here, and no use is made of the result.
FromAttesterSignedInput(signedQuote) ==
    IF ~ IsQuote(BasicQuote(signedQuote)) THEN Error("ERROR_QUOTE_MALFORMED")
    ELSE With(BasicQuote(signedQuote), "attesterSignature", signedQuote.attesterSignature)

\* Nor is it here.
CreateQuoteAgreement(signedQuote, requestRootHash, attesterDid, claimerIdentity, store) ==
    LET signature == SignAsDid(signedQuote, claimerIdentity, store)
    IN  IF attesterDid # signedQuote.attesterDid THEN Error("ERROR_DID_IDENTIFIER_MISMATCH")
        ELSE Then(signature,
                  With(With(signedQuote, "rootHash", requestRootHash),
                       "claimerSignature", signature))

-----------------------------------------------------------------------------
(* Compression. A cost of nothing is taken for a cost that is missing.      *)

CompressCost(cost) ==
    IF \E part \in {"gross", "net", "tax"} : cost[part] \in {Absent, 0}
    THEN Error("ERROR_COMPRESS_OBJECT") ELSE Array(<<cost.gross, cost.net, cost.tax>>)

DecompressCost(c) == Decompress(c, 3, [gross |-> At(c, 1), net |-> At(c, 2), tax |-> At(c, 3)])

CompressSignature(s) == Array(<<[by |-> s.by, over |-> s.over, hex |-> s.hex], s.keyUri>>)
DecompressSignature(c) ==
    [by |-> At(c, 1).by, over |-> At(c, 1).over, hex |-> At(c, 1).hex, keyUri |-> At(c, 2)]

\* The parts all forms of a quote begin with, and those it ends with.
CompressQuoteWith(quote, tail) ==
    IF \E i \in DOMAIN QuoteFields : quote[QuoteFields[i]] = Absent
    THEN Error("ERROR_COMPRESS_OBJECT")
    ELSE ArrayOf([i \in DOMAIN QuoteFields |->
                     IF QuoteFields[i] = "cost" THEN CompressCost(quote.cost)
                     ELSE quote[QuoteFields[i]]] \o tail, {3})

CompressAttesterSignedQuote(quote) ==
    IF quote.attesterSignature.keyUri = Absent THEN Error("ERROR_COMPRESS_OBJECT")
    ELSE CompressQuoteWith(quote, <<CompressSignature(quote.attesterSignature)>>)

CompressQuoteAgreement(quote) ==
    IF quote.attesterSignature = Absent THEN Error("ERROR_COMPRESS_OBJECT")
    ELSE CompressQuoteWith(quote,
             <<CompressSignature(quote.attesterSignature),
               CompressSignature(quote.claimerSignature), quote.rootHash>>)

DecompressQuoteParts(c) ==
    [attesterDid |-> At(c, 1), cTypeHash |-> At(c, 2), cost |-> DecompressCost(At(c, 3)),
     currency |-> At(c, 4), termsAndConditions |-> At(c, 5), timeframe |-> At(c, 6)]

DecompressAttesterSignedQuote(c) ==
    Decompress(c, 7, Then(DecompressCost(At(c, 3)),
        With(DecompressQuoteParts(c), "attesterSignature", DecompressSignature(At(c, 7)))))

DecompressQuoteAgreement(c) ==
    Decompress(c, 9, Then(DecompressCost(At(c, 3)),
        With(With(With(DecompressQuoteParts(c),
                       "attesterSignature", DecompressSignature(At(c, 7))),
                  "claimerSignature", DecompressSignature(At(c, 8))),
             "rootHash", At(c, 9))))

=============================================================================
