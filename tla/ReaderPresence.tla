---------------------------- MODULE ReaderPresence ----------------------------
(***************************************************************************)
(* What the emulator promises about reader and card presence, with no     *)
(* threads and no series: spec.md's Hot-Plug Event Loop and Forced        *)
(* Presence Control seen from the reader registry.                        *)
(*                                                                         *)
(*  - a reader holds no card, or a card of a token that has been in its   *)
(*    slot (a soft reader: its own soft card);                             *)
(*  - a card is only ever taken out, or put into an empty reader;         *)
(*  - a hardware slot may gain a reader, which starts empty;              *)
(*  - while the emulator runs, every reader registered at start-up        *)
(*    follows its token: if it does not show what the slot holds now, it  *)
(*    eventually takes a step towards it.                                 *)
(***************************************************************************)
EXTENDS Naturals

CONSTANTS HwSlots, InitReaders, SoftReaders, MaxGen, NoCard

Readers == HwSlots \cup SoftReaders

VARIABLES
    tokPresent, tokGen, tokBlank,   \* the provider's slots
    readers,                        \* readers in the registry
    card,                           \* the card each reader holds
    alive                           \* the emulator still follows the slots

avars == <<tokPresent, tokGen, tokBlank, readers, card, alive>>

(* The card a reader should show: the token now in its slot.              *)
Current(s) == IF tokPresent[s] /\ ~tokBlank[s] THEN <<s, tokGen[s]>> ELSE NoCard

(* Cards a reader may hold: one of a token that has been in its slot.     *)
CardsOf(r) ==
    IF r \in SoftReaders THEN {<<r, 0>>}
    ELSE {<<r, g>> : g \in 1 .. tokGen[r]}

AInit ==
    /\ tokPresent \in [HwSlots -> BOOLEAN]
    /\ tokGen = [s \in HwSlots |-> IF tokPresent[s] THEN 1 ELSE 0]
    /\ tokBlank \in [HwSlots -> BOOLEAN]
    /\ readers = InitReaders \cup SoftReaders
    /\ card = [r \in Readers |->
                 CASE r \in SoftReaders -> <<r, 0>>
                   [] r \in InitReaders -> Current(r)
                   [] OTHER             -> NoCard]
    /\ alive = TRUE

(* A token is taken out, or a new one put in.                             *)
TokenMoves(s) ==
    /\ tokPresent' = [tokPresent EXCEPT ![s] = ~@]
    /\ tokGen' = [tokGen EXCEPT ![s] = IF tokPresent[s] THEN @ ELSE @ + 1]
    /\ tokGen'[s] <= MaxGen
    /\ \E b \in BOOLEAN : tokBlank' = [tokBlank EXCEPT ![s] = b]
    /\ UNCHANGED <<readers, card, alive>>

Register(s) ==
    /\ s \notin readers
    /\ readers' = readers \cup {s}
    /\ UNCHANGED <<tokPresent, tokGen, tokBlank, card, alive>>

Eject(r) ==
    /\ r \in readers
    /\ card[r] # NoCard
    /\ card' = [card EXCEPT ![r] = NoCard]
    /\ UNCHANGED <<tokPresent, tokGen, tokBlank, readers, alive>>

Load(r, c) ==
    /\ r \in readers
    /\ card[r] = NoCard
    /\ c \in CardsOf(r)
    /\ card' = [card EXCEPT ![r] = c]
    /\ UNCHANGED <<tokPresent, tokGen, tokBlank, readers, alive>>

Stop ==
    /\ alive' = FALSE
    /\ UNCHANGED <<tokPresent, tokGen, tokBlank, readers, card>>

(* A step that brings reader s closer to the token in its slot.           *)
Sync(s) ==
    /\ alive
    /\ card[s] # Current(s)
    /\ \/ Eject(s)
       \/ Load(s, Current(s))

ANext ==
    \/ \E s \in HwSlots : TokenMoves(s) \/ Register(s)
    \/ \E r \in Readers : Eject(r) \/ \E c \in CardsOf(r) : Load(r, c)
    \/ Stop

ASpec ==
    /\ AInit /\ [][ANext]_avars
    /\ \A s \in InitReaders : WF_avars(Sync(s))
=============================================================================
