--------------------------- MODULE ExtrinsicRewrites ---------------------------
(***************************************************************************)
(* The two migrations that rewrite rows of the table extrinsic fifty at a  *)
(* time: 1661763490773 encodes the addresses the first release stored as   *)
(* public keys, 1661926460706 the fees it stored as NaN.  Each reads the   *)
(* rows that still match its query, rewrites them, and reads again until   *)
(* none is left: it ends only if no rewritten row matches again.           *)
(***************************************************************************)
EXTENDS Integers, FiniteSets

(* An address as a row may hold it: the words 'null' and 'undefined' are   *)
(* "short", "hex" is a public key, "eth" an address of the Ethereum form;  *)
(* "odd" starts like a key and is none, "broken" is no address at all.     *)
Address == {"null", "short", "hex", "eth", "substrate", "odd", "broken"}

(* normalizeSubstrateAddress leaves the Ethereum form alone, decodes what   *)
(* is not of it and throws on what is no key.                              *)
Normalized(a) == IF a = "eth" THEN "eth" ELSE "substrate"
Decodes(a) == a \notin {"odd", "broken"}

Row == [signer : Address, signer_normalized : Address, to_owner : Address, to_owner_normalized : Address]

(* The WHERE of getChunk.                                                  *)
Selected(x) ==
    {"hex", "odd"} \cap {x.signer, x.to_owner} # {} \/ "short" \in {x.signer_normalized, x.to_owner_normalized}

Encoded(a) ==
    CASE a \in {"hex", "eth"} -> Normalized(a)
      [] a = "short" -> "null"
      [] OTHER -> a

\* Variant: a normalized address is only written when there is an address.
ConvertPresent(x) ==
    LET Of(a, old) == IF a = "null" THEN old ELSE Normalized(a)
        signer == Encoded(x.signer)  owner == Encoded(x.to_owner)
    IN [signer |-> signer, signer_normalized |-> Of(signer, x.signer_normalized),
        to_owner |-> owner, to_owner_normalized |-> Of(owner, x.to_owner_normalized)]

ConvertExtrinsicAddress(x) ==
    LET Of(a) == IF a = "null" THEN "null" ELSE Normalized(a)
        signer == Encoded(x.signer)  owner == Encoded(x.to_owner)
    IN [signer |-> signer, signer_normalized |-> Of(signer), to_owner |-> owner, to_owner_normalized |-> Of(owner)]

(* The data of the event Treasury.Deposit joined to the extrinsic: none,   *)
(* not JSON, a string, or an object with an amount, a value or neither.    *)
Data == {"none", "no JSON", "number", "words", "amount", "value", "other"}

(* getAmount turns what is no number into 0.                               *)
GetAmount(raw) == IF raw \in {"words", "other"} THEN "0" ELSE "amount"
RecalculatedFee(data) == IF data \in {"none", "no JSON"} THEN "0" ELSE GetAmount(data)

(* convertExtrinsicAddress of a row with an address that is no key throws:  *)
(* the deployment fails with it each time, and rows are taken to have none. *)
Converts(x) == Decodes(x.signer) /\ Decodes(x.to_owner)

(* The loops over chunks end: no rewritten row is read again.              *)
EncodingEnds == \A x \in Row : Converts(x) => ~Selected(ConvertExtrinsicAddress(x))
RecalculationEnds == \A data \in Data : RecalculatedFee(data) # "NaN"
=============================================================================
