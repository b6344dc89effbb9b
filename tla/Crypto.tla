------------------------------- MODULE Crypto -------------------------------
(***************************************************************************)
(* The software cryptography of src/upstream_api_compat.cpp: sealing and   *)
(* opening under the process-wide key table and provider.  The HMAC is a   *)
(* free constructor, so that tags and key streams are equal only for equal *)
(* inputs.  The nonce goes where the additional data goes, and is left out. *)
(***************************************************************************)
EXTENDS Integers, FiniteSetsExt

CONSTANTS
    KeyIds, Keys,    \* key ids, and the keys an application registers
    Texts, Aads,     \* plaintexts and additional data
    MaxCryptoCalls   \* bound: calls

VARIABLES
    keys,            \* g_software_keys: key id -> key
    provider,        \* TRUE while g_crypto_seal and g_crypto_open are set
    sealed,          \* the messages sealed so far
    opened,          \* what seds_crypto_open last returned with SEDS_OK, and for which message
    cryptoCalls

cryptoVars == <<keys, provider, sealed, opened, cryptoCalls>>

NothingOpened == [aad |-> ""]

CryptoInit ==
    /\ keys = << >> /\ provider = FALSE /\ sealed = {} /\ opened = NothingOpened
    /\ cryptoCalls = 0

-----------------------------------------------------------------------------
(* Sealing and opening *)

CryptoCall == cryptoCalls < MaxCryptoCalls /\ cryptoCalls' = cryptoCalls + 1

(* seds_crypto_register_software_key replaces a key silently. *)
RegisterKey(kid, key) ==
    /\ CryptoCall
    /\ keys' = [k \in DOMAIN keys \cup {kid} |-> IF k = kid THEN key ELSE keys[k]]
    /\ UNCHANGED <<provider, sealed, opened>>

(* seds_crypto_clear_software_keys *)
ClearKeys ==
    /\ CryptoCall
    /\ keys' = << >>
    /\ UNCHANGED <<provider, sealed, opened>>

(* seds_crypto_register_provider, seds_crypto_clear_provider *)
SetProvider(on) ==
    /\ CryptoCall
    /\ provider' = on
    /\ UNCHANGED <<keys, sealed, opened>>

(* apply_hmac_stream: the key stream is added bit by bit, so that applying *)
(* it again takes it away.                                                 *)
ApplyStream(key, kid, aad, input) ==
    [input EXCEPT !.under = SymDiff(@, {<<key, kid, aad>>})]

(* Mutant: the additional data is not authenticated. *)
SoftwareTagNoAad(key, kid, aad, ciphertext) == <<key, kid, "", ciphertext>>

SoftwareTag(key, kid, aad, ciphertext) == <<key, kid, aad, ciphertext>>

(* seds_crypto_seal; a provider (external) seals with a key of its own. *)
Seal(kid, aad, text) ==
    /\ CryptoCall
    /\ provider \/ kid \in DOMAIN keys
    /\ LET key == IF provider THEN "provider" ELSE keys[kid]
           ciphertext == ApplyStream(key, kid, aad, [text |-> text, under |-> {}])
       IN  sealed' = sealed \cup {[kid |-> kid, aad |-> aad, text |-> text,
                                   ciphertext |-> ciphertext,
                                   tag |-> SoftwareTag(key, kid, aad, ciphertext)]}
    /\ UNCHANGED <<keys, provider, opened>>

(***************************************************************************)
(* seds_crypto_open, called with the additional data `aad' of the caller.  *)
(* An unknown key id and a tag that does not match are refused before      *)
(* anything is written.                                                    *)
(***************************************************************************)
Open(m, aad) ==
    /\ provider \/ m.kid \in DOMAIN keys
    /\ LET key == IF provider THEN "provider" ELSE keys[m.kid]
       IN  /\ m.tag = SoftwareTag(key, m.kid, aad, m.ciphertext)
           /\ opened' = [result |-> ApplyStream(key, m.kid, aad, m.ciphertext),
                         message |-> m, aad |-> aad]
    /\ UNCHANGED <<keys, provider, sealed, cryptoCalls>>

CryptoNext ==
    \/ \E kid \in KeyIds, key \in Keys : RegisterKey(kid, key)
    \/ ClearKeys
    \/ \E on \in BOOLEAN : SetProvider(on)
    \/ \E kid \in KeyIds, aad \in Aads, text \in Texts : Seal(kid, aad, text)
    \/ \E m \in sealed, aad \in Aads : Open(m, aad)

CryptoSpec == CryptoInit /\ [][CryptoNext]_cryptoVars

-----------------------------------------------------------------------------
(* Property *)

(***************************************************************************)
(* A message that seds_crypto_open accepts has the text and the additional *)
(* data it was sealed with, even when keys were replaced or cleared, or a  *)
(* provider came and went, between sealing and opening.                    *)
(***************************************************************************)
OpensToWhatWasSealed ==
    opened # NothingOpened =>
        /\ opened.result = [text |-> opened.message.text, under |-> {}]
        /\ opened.aad = opened.message.aad
=============================================================================
