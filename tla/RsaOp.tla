-------------------------------- MODULE RsaOp --------------------------------
(***************************************************************************)
(* vcard_emul_rsa_op: an RSA private-key operation done in place on the   *)
(* buffer the guest sent, on a provider that may or may not perform raw   *)
(* (CKM_RSA_X_509) RSA.  When raw RSA is unavailable it is emulated with  *)
(* PKCS#1 sign or PKCS#1 decrypt and the block is rebuilt around the      *)
(* result.  key->failedX509 remembers, per key, which way worked.        *)
(*                                                                         *)
(* A buffer is a sequence of bytes; the key's modulus length is N and the *)
(* raw private-key map is the injective operator RawPriv.  What the       *)
(* provider is asked to do and how it may fail is modelled: it may be     *)
(* logged out, fail one call for a reason of its own, refuse a digest too *)
(* long for MinPad bytes of padding, and refuse a block whose PKCS#1      *)
(* type-2 padding is malformed.                                           *)
(***************************************************************************)
EXTENDS Naturals, Sequences, FiniteSets, TLC

CONSTANTS
    Keys,        \* the key handles of a card
    N,           \* PK11_SignatureLen(priv_key): modulus length in bytes
    MinPad,      \* least padding bytes the provider's PKCS#1 code accepts
    InBytes,     \* the byte values a guest buffer is made of
    RawPriv(_)   \* the token's raw RSA private-key map on N-byte blocks

ASSUME N >= 4 /\ MinPad \in Nat /\ {0, 1, 2, 255} \subseteq InBytes

Blocks == [1..N -> InBytes]
\* Buffers the guest may send: the right length, and one byte short.
Inputs == Blocks \cup [1..N-1 -> InBytes]

ASSUME Cardinality({RawPriv(b) : b \in Blocks}) = Cardinality(Blocks)
ASSUME \A b \in Blocks : RawPriv(b) \in Blocks

TriState == {"VCardEmulUnknown", "VCardEmulFalse", "VCardEmulTrue"}

(* NSS error codes, SEC_ERROR_BAD_DATA standing for the nine codes that   *)
(* vcard_emul_map_error maps to DATA_INVALID.                             *)
Errors == {"TOKEN_NOT_LOGGED_IN", "BAD_DATA", "NO_MEMORY", "OTHER"}
Status == {"SUCCESS", "CONDITION_NOT_SATISFIED", "DATA_INVALID",
           "MEMORY_FAILURE", "GENERAL", "EXC_CHANGE"}

(* What goes wrong in one call for reasons the input does not decide: no  *)
(* private key (not logged in), or one provider call failing.             *)
Faults == {"none", "nokey"} \cup ({"raw", "sign", "dec"} \X Errors)

VARIABLES
    failedX509,     \* key->failedX509
    x509Advertised, \* PK11_DoesMechanism(slot, CKM_RSA_X_509)
    x509Works,      \* whether the token's raw decrypt really works
    lastKey,        \* key of the last call
    tried,          \* provider operations the last call made
    lastStatus      \* status the last call returned

vars == <<failedX509, x509Advertised, x509Works, lastKey, tried, lastStatus>>

FFs(n) == [i \in 1..n |-> 255]

-----------------------------------------------------------------------------
MapErrorUnmapped(e) == e

(* vcard_emul_map_error. *)
MapError(e) ==
    CASE e = "TOKEN_NOT_LOGGED_IN" -> "CONDITION_NOT_SATISFIED"
      [] e = "BAD_DATA"            -> "DATA_INVALID"
      [] e = "NO_MEMORY"           -> "MEMORY_FAILURE"
      [] OTHER                     -> "EXC_CHANGE"

(* The signature-pad scan: for (i = 2; i < buffer_size; i++) stops at the *)
(* first byte that is not 0xff (1-based here, so it starts at 3).         *)
RECURSIVE ScanPad(_, _)
ScanPad(b, i) == IF i <= Len(b) /\ b[i] = 255 THEN ScanPad(b, i + 1) ELSE i

ScanPadFromSecond(b) == ScanPad(b, 2)

SigPadEnd(b) == ScanPad(b, 3)

(* buffer[0] == 0 && buffer[1] == 1, the 0xff run, then a 0 before the end.*)
IsSigFormatted(b) ==
    /\ b[1] = 0 /\ b[2] = 1
    /\ SigPadEnd(b) <= Len(b) /\ b[SigPadEnd(b)] = 0

SigHash(b) == SubSeq(b, SigPadEnd(b) + 1, Len(b))

(* PK11_Sign with CKM_RSA_PKCS: type-1 pad the digest, then raw RSA.      *)
Pad1(h) == <<0, 1>> \o FFs(N - 3 - Len(h)) \o <<0>> \o h
SignFits(h) == N - 3 - Len(h) >= MinPad

(* PK11_PrivDecryptPKCS1: raw RSA, then strip a type-2 block: 00 02, at   *)
(* least MinPad nonzero bytes, a 0, the payload.                          *)
Type2Sep(m) ==
    LET zs == {i \in 3..Len(m) : m[i] = 0}
    IN IF zs = {} THEN 0 ELSE CHOOSE i \in zs : \A j \in zs : i <= j
IsType2(m) ==
    m[1] = 0 /\ m[2] = 2 /\ Type2Sep(m) >= 3 + MinPad
Payload(m) == SubSeq(m, Type2Sep(m) + 1, Len(m))

RebuildFullPad(p, padLen) ==
    <<0, 2>> \o [i \in 1..padLen |-> 3] \o <<0>> \o p

(* The rebuilt block: 0, 2, pad_len - 3 bytes of 0x03, 0, the payload.    *)
Rebuild(p, padLen) ==
    <<0, 2>> \o [i \in 1..padLen - 3 |-> 3] \o <<0>> \o p

Outcome(st, buf, fx, t) ==
    [status |-> st, buffer |-> buf, failed |-> fx, tried |-> t]

(* Steps 2 and 3: sign a type-1 block, else decrypt a type-2 one.         *)
Emulate(buf, f, fx, t0) ==
    IF IsSigFormatted(buf)
    THEN LET h == SigHash(buf)
             t == t0 \cup {"sign"}
         IN IF f \in {"sign"} \X Errors
            THEN Outcome(MapError(f[2]), buf, fx, t)
            ELSE IF ~SignFits(h)
            THEN Outcome(MapError("BAD_DATA"), buf, fx, t)
            ELSE Outcome("SUCCESS", RawPriv(Pad1(h)), "VCardEmulTrue", t)
    ELSE LET m == RawPriv(buf)
             t == t0 \cup {"dec"}
             padLen == Len(buf) - Len(Payload(m))
         IN IF f \in {"dec"} \X Errors
            THEN Outcome(MapError(f[2]), buf, fx, t)
            ELSE IF ~IsType2(m)
            THEN Outcome(MapError("BAD_DATA"), buf, fx, t)
            ELSE IF padLen < 4
            THEN Outcome("GENERAL", buf, fx, t)
            ELSE Outcome("SUCCESS", Rebuild(Payload(m), padLen),
                         "VCardEmulTrue", t)

RsaOpFallThroughAfterRaw(k, buf, f) ==
    LET fx == failedX509[k]
        tryRaw == fx # "VCardEmulTrue" /\ x509Advertised[k]
        rawOk == x509Works[k] /\ f \notin {"raw"} \X Errors
    IN CASE f = "nokey" -> Outcome("CONDITION_NOT_SATISFIED", buf, fx, {})
         [] Len(buf) # N -> Outcome("DATA_INVALID", buf, fx, {})
         [] tryRaw /\ rawOk ->
              Outcome("SUCCESS", RawPriv(buf), "VCardEmulFalse", {"raw"})
         [] OTHER -> Emulate(buf, f, fx, IF tryRaw THEN {"raw"} ELSE {})

(* vcard_emul_rsa_op as a function of the key's state, the buffer and    *)
(* the call's fault.  A raw failure after a raw success is reported; a    *)
(* raw failure on an Unknown key falls through to the emulation.         *)
RsaOp(k, buf, f) ==
    LET fx == failedX509[k]
        tryRaw == fx # "VCardEmulTrue" /\ x509Advertised[k]
        rawOk == x509Works[k] /\ f \notin {"raw"} \X Errors
        rawErr == IF f \in {"raw"} \X Errors THEN f[2] ELSE "BAD_DATA"
    IN CASE f = "nokey" -> Outcome("CONDITION_NOT_SATISFIED", buf, fx, {})
         [] Len(buf) # N -> Outcome("DATA_INVALID", buf, fx, {})
         [] tryRaw /\ rawOk ->
              Outcome("SUCCESS", RawPriv(buf), "VCardEmulFalse", {"raw"})
         [] tryRaw /\ fx = "VCardEmulFalse" ->
              Outcome(MapError(rawErr), buf, fx, {"raw"})
         [] OTHER -> Emulate(buf, f, fx, IF tryRaw THEN {"raw"} ELSE {})

-----------------------------------------------------------------------------
Init ==
    /\ failedX509 = [k \in Keys |-> "VCardEmulUnknown"]
    /\ x509Advertised \in [Keys -> BOOLEAN]
    /\ x509Works \in [Keys -> BOOLEAN]
    /\ lastKey \in Keys
    /\ tried = {}
    /\ lastStatus = "none"

(* The guest's APDU (a PSO / internal authenticate) on key k, with buffer *)
(* buf; whatever the provider does in the call is the fault f.            *)
RsaCall(k, buf, f) ==
    LET r == RsaOp(k, buf, f)
    IN /\ failedX509' = [failedX509 EXCEPT ![k] = r.failed]
       /\ tried' = r.tried
       /\ lastStatus' = r.status
       /\ lastKey' = k
       /\ UNCHANGED <<x509Advertised, x509Works>>

Next == \E k \in Keys, buf \in Inputs, f \in Faults : RsaCall(k, buf, f)

Spec == Init /\ [][Next]_vars

-----------------------------------------------------------------------------
TypeOK ==
    /\ failedX509 \in [Keys -> TriState]
    /\ x509Advertised \in [Keys -> BOOLEAN] /\ x509Works \in [Keys -> BOOLEAN]
    /\ lastKey \in Keys
    /\ tried \subseteq {"raw", "sign", "dec"}
    /\ lastStatus \in Status \cup {"none"}

(* The bytes a real card's raw RSA would put in place of the token's own  *)
(* random padding of a type-2 block: after 00 02, up to the first 0.      *)
RandomPad(m) ==
    IF m[1] = 0 /\ m[2] = 2
    THEN {i \in 3..Len(m) : \A j \in 3..i : m[j] # 0}
    ELSE {}

(* rsa_op is byte-identical to a real card's raw RSA on every buffer it   *)
(* accepts, except that random padding it could not recover is replaced  *)
(* by nonzero filler; and a buffer it refuses is left as the guest sent   *)
(* it.  This covers the raw path, the sign emulation (including a         *)
(* ciphertext that happens to look like a signature block) and the       *)
(* rebuilt decrypt block, in every state the key's failedX509 can reach.  *)
EmulatesRealCard ==
    \A k \in Keys, buf \in Inputs, f \in Faults :
        LET r == RsaOp(k, buf, f)
            real == RawPriv(buf)
        IN IF r.status = "SUCCESS"
           THEN /\ Len(buf) = N /\ Len(r.buffer) = N
                /\ \A i \in 1..N :
                     \/ r.buffer[i] = real[i]
                     \/ i \in RandomPad(real) /\ r.buffer[i] # 0
           ELSE r.buffer = buf

(* key->failedX509 is authoritative once set: it never changes again, and *)
(* a key marked VCardEmulTrue never has the raw primitive tried.          *)
CapabilityAuthoritative ==
    [][\A k \in Keys :
         /\ failedX509[k] # "VCardEmulUnknown" =>
              failedX509'[k] = failedX509[k]
         /\ (lastKey' = k /\ failedX509[k] = "VCardEmulTrue") =>
              "raw" \notin tried']_vars

(* The digests that the signature-pad scan of a buffer should find: the  *)
(* rest of a buffer that starts 00 01, some 0xff bytes, then 00.          *)
RefSigHashes(b) ==
    {SubSeq(b, n + 4, Len(b)) :
        n \in {n \in 0..Len(b) - 3 :
                 SubSeq(b, 1, n + 3) = <<0, 1>> \o FFs(n) \o <<0>>}}

(* Whatever failedX509 and the provider make of a call, a buffer reaches *)
(* PK11_Sign only if it is a PKCS#1 type-1 block, and PK11_PrivDecryptPKCS1 *)
(* only if it is not: the 0xff scan recognises exactly the reference      *)
(* shape (and the signed digest is checked by EmulatesRealCard).          *)
PrimitiveMatchesFormat ==
    \A k \in Keys, buf \in Blocks, f \in Faults :
        LET r == RsaOp(k, buf, f)
        IN /\ "sign" \in r.tried => RefSigHashes(buf) # {}
           /\ "dec" \in r.tried => RefSigHashes(buf) = {}

(* What the spec asks of rsa_op: a buffer of the right length that a real *)
(* card would process is processed.  Without raw RSA on the token that    *)
(* cannot hold for a block that is neither PKCS#1 type 1 nor type 2; the  *)
(* property asks it only of keys whose token advertises raw RSA and does *)
(* it, in calls where nothing fails for reasons of its own.              *)
SucceedsLikeCard ==
    \A k \in Keys, buf \in Blocks :
        x509Advertised[k] /\ x509Works[k] =>
            RsaOp(k, buf, "none").status = "SUCCESS"
=============================================================================
