------------------------------- MODULE Session -------------------------------
(***************************************************************************)
(* The login functions of vcard_emul_nss.c: vcard_emul_login,            *)
(* vcard_emul_is_logged_in, vcard_emul_logout and vcard_emul_reset, with  *)
(* the password callback vcard_emul_get_password.  No login state is kept *)
(* by the emulator: each card names a PKCS#11 slot and the slot's login   *)
(* state is the provider's.  Several cards may name one slot (two soft    *)
(* readers given the same token name, or a soft reader on a token the     *)
(* hardware loop mirrors as well).                                         *)
(***************************************************************************)
EXTENDS Naturals, Sequences, SequencesExt

CONSTANTS
    Cards,      \* virtual cards
    Slots,      \* PKCS#11 slots
    CardSlot,   \* vcard_emul_card_get_slot: the slot of each card
    NeedLogin,  \* PK11_NeedLogin per slot
    GoodPin,    \* the PIN each slot's token accepts, a byte string
    PinBytes,   \* byte values the guest's VERIFY data may hold
    MaxPinLen   \* longest VERIFY data considered

ASSUME CardSlot \in [Cards -> Slots] /\ NeedLogin \in [Slots -> BOOLEAN]

PinBufs == BoundedSeq(PinBytes, MaxPinLen)

VARIABLES
    slotLoggedIn, \* PK11_IsLoggedIn per slot, the token's session state
    lastLogin     \* the last vcard_emul_login: card, PIN buffer, status

vars == <<slotLoggedIn, lastLogin>>

(* "handle CAC expanded pins": trailing 0xff bytes are cleared to 0.      *)
RECURSIVE TrimFF(_)
TrimFF(b) == IF b # <<>> /\ Last(b) = 255 THEN TrimFF(Front(b)) ELSE b

(* The PIN reaches PK11_Authenticate as a C string, through pw_arg and    *)
(* PORT_Strdup in vcard_emul_get_password: it ends at the first 0 byte.   *)
CString(b) ==
    LET z == SelectInSeq(b, LAMBDA x : x = 0)
    IN IF z = 0 THEN b ELSE SubSeq(b, 1, z - 1)

SubmittedPin(pin) == CString(TrimFF(pin))

(* vcard_emul_is_logged_in: a slot that needs no login counts as logged  *)
(* in; otherwise the provider's session state.                            *)
IsLoggedIn(c) == ~NeedLogin[CardSlot[c]] \/ slotLoggedIn[CardSlot[c]]

(* PK11_Authenticate: asks for the password only if the slot needs login  *)
(* and is not logged in; the callback answers once (retries -> NULL).     *)
Authenticated(s, loggedIn, pin) ==
    ~NeedLogin[s] \/ loggedIn \/ SubmittedPin(pin) = GoodPin[s]

Init ==
    /\ slotLoggedIn = [s \in Slots |-> FALSE]
    /\ lastLogin = [card |-> "none", pin |-> <<>>, status |-> "none"]

LoginNoLogout(c, pin) ==
    LET s == CardSlot[c]
        ok == Authenticated(s, slotLoggedIn[s], pin)
    IN /\ slotLoggedIn' = [slotLoggedIn EXCEPT ![s] = NeedLogin[s] /\ ok]
       /\ lastLogin' = [card |-> c, pin |-> pin,
                        status |-> IF ok THEN "SUCCESS"
                                   ELSE "CONDITION_NOT_SATISFIED"]

LoginMappedStatus(c, pin) ==
    LET s == CardSlot[c]
        ok == Authenticated(s, FALSE, pin)
    IN /\ slotLoggedIn' = [slotLoggedIn EXCEPT ![s] = NeedLogin[s] /\ ok]
       /\ lastLogin' = [card |-> c, pin |-> pin,
                        status |-> IF ok THEN "SUCCESS" ELSE "EXC_CHANGE"]

(* vcard_emul_login: normalise the PIN, vcard_emul_logout, then           *)
(* PK11_Authenticate; any failure is CONDITION_NOT_SATISFIED.             *)
Login(c, pin) ==
    LET s == CardSlot[c]
        ok == Authenticated(s, FALSE, pin)
    IN /\ slotLoggedIn' = [slotLoggedIn EXCEPT ![s] = NeedLogin[s] /\ ok]
       /\ lastLogin' = [card |-> c, pin |-> pin,
                        status |-> IF ok THEN "SUCCESS"
                                   ELSE "CONDITION_NOT_SATISFIED"]

(* vcard_emul_logout: PK11_Logout if PK11_IsLoggedIn.                     *)
Logout(c) ==
    /\ slotLoggedIn' = [slotLoggedIn EXCEPT ![CardSlot[c]] = FALSE]
    /\ UNCHANGED lastLogin

(* vcard_emul_reset, on power up or down: vcard_emul_logout.              *)
Reset(c) ==
    /\ slotLoggedIn' = [slotLoggedIn EXCEPT ![CardSlot[c]] = FALSE]
    /\ UNCHANGED lastLogin

Next ==
    \E c \in Cards :
        \/ \E pin \in PinBufs : Login(c, pin)
        \/ Logout(c)
        \/ Reset(c)

Spec == Init /\ [][Next]_vars

-----------------------------------------------------------------------------
TypeOK ==
    /\ slotLoggedIn \in [Slots -> BOOLEAN]
    /\ lastLogin.card \in Cards \cup {"none"}
    /\ lastLogin.pin \in PinBufs
    /\ lastLogin.status \in {"none", "SUCCESS", "CONDITION_NOT_SATISFIED"}

(* A login that reports success on a slot that needs one was given that  *)
(* slot's PIN, less the 0xff bytes that pad it: a wrong PIN never logs in,*)
(* also not when the slot was already logged in before the VERIFY.        *)
LoginChecksPin ==
    (lastLogin.status = "SUCCESS" /\ NeedLogin[CardSlot[lastLogin.card]])
        => TrimFF(lastLogin.pin) = GoodPin[CardSlot[lastLogin.card]]

=============================================================================
