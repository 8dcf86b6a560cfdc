------------------------------- MODULE HotPlug -------------------------------
(***************************************************************************)
(* Reader and card presence in vcard_emul_nss.c after vcard_emul_init has *)
(* returned: the per-module hot-plug thread (vcard_emul_event_thread), the *)
(* forced presence calls made from the APDU thread                         *)
(* (vcard_emul_force_card_remove / _insert) and                            *)
(* vcard_emul_replay_insertion_events, against a provider whose tokens are *)
(* removed and inserted at any time.                                       *)
(*                                                                         *)
(* A hardware reader is identified with its slot.  A card is the pair      *)
(* <<slot, generation>> of the token it was mirrored from; a soft card is  *)
(* <<reader, 0>>.  The reader registry and the event queue (vreader.c,     *)
(* vevent.c) are outside this repository and are modelled from spec.md:   *)
(* inserting a card replaces the reader's card and queues an insertion or  *)
(* a removal event.                                                        *)
(***************************************************************************)
EXTENDS Naturals, FiniteSets

CONSTANTS
    HwSlots,      \* removable hardware slots of the provider module
    InitReaders,  \* the slots vcard_emul_init made readers for
    SoftReaders,  \* readers made from soft= options (internal token)
    MaxGen,       \* bound on token insertions per slot (NSS slot series)
    Forcing,      \* whether the APDU layer issues forced remove/insert
    Finalizing,   \* whether the application calls vcard_emul_finalize
    NoCard        \* the NULL card

ASSUME /\ InitReaders \subseteq HwSlots
       /\ HwSlots \cap SoftReaders = {}
       /\ MaxGen \in Nat \ {0}
       /\ Forcing \in BOOLEAN
       /\ Finalizing \in BOOLEAN

Readers == HwSlots \cup SoftReaders
Gens    == 0 .. MaxGen
Cards   == (HwSlots \X (1 .. MaxGen)) \cup (SoftReaders \X {0, 1})
Events  == {"none", "insert", "remove"}

VARIABLES
    tokPresent, tokGen, tokBlank, \* the provider's view of each slot
    nssUp,        \* nss_ctx: the NSS context vcard_emul_init opened is open
    emulInit,     \* nss_emul_init: the guard of the forced presence calls
    pending,      \* slot event not yet returned by SECMOD_WaitForAnyTokenEvent
    readers,      \* readers in the registry
    present,      \* VReaderEmul.present
    saved,        \* VReaderEmul.saved_vcard
    series,       \* VReaderEmul.series
    card,         \* the card the registry holds for each reader
    lastEvent,    \* last card event queued for each reader
    queued,       \* card events queued by the last step
    tpc, tslot, tser, tcard,      \* hot-plug thread and its locals
    apc, areader, acard,          \* APDU thread and its locals
    \* vcard_emul_init's progress, flags and locals (see Startup):
    ipc, called, useHw, hasReaders, ret, softTodo, islot, icard, todo

provider == <<tokPresent, tokGen, tokBlank, pending, nssUp>>
thread   == <<tpc, tslot, tser, tcard>>
apdu     == <<apc, areader, acard>>
config   == <<emulInit, saved>>   \* set by vcard_emul_init, then only read
boot     == <<ipc, called, useHw, hasReaders, ret, softTodo, islot, icard,
              todo>>
vars == <<provider, config, readers, present, series, card, lastEvent,
          queued, thread, apdu, boot>>

SoftCard(r) == <<r, 0>>

(* Mirror without its presence test: a token that has gone still mirrors.*)
MirrorIgnoringPresence(s) ==
    IF ~tokBlank[s] THEN <<s, tokGen[s]>> ELSE NoCard

(***************************************************************************)
(* vcard_emul_mirror_card: the certificates live on the slot now.  No     *)
(* token, or a token without certificate objects, gives NULL.              *)
(***************************************************************************)
Mirror(s) ==
    IF tokPresent[s] /\ ~tokBlank[s] THEN <<s, tokGen[s]>> ELSE NoCard

(* The soft token a soft reader was made from is never removed; what      *)
(* mirroring it gives is every certificate object on it, a card other    *)
(* than the one built from the option's nicknames.                        *)
TokenCard(r) == <<r, 1>>

IsPresent(r) == IF r \in SoftReaders THEN TRUE ELSE tokPresent[r]

SlotMirror(r) == IF r \in SoftReaders THEN TokenCard(r) ELSE Mirror(r)

(* vreader_insert_card (registry, from spec.md): replace and notify.       *)
InsertCard(r, c) ==
    /\ card' = [card EXCEPT ![r] = c]
    /\ lastEvent' = [lastEvent EXCEPT ![r] = IF c = NoCard THEN "remove"
                                                          ELSE "insert"]
    /\ queued' = {<<r, lastEvent'[r]>>}

-----------------------------------------------------------------------------
(* State left by vcard_emul_init when no token moved while it ran.         *)
Init ==
    /\ tokPresent \in [HwSlots -> BOOLEAN]
    /\ tokGen = [s \in HwSlots |-> IF tokPresent[s] THEN 1 ELSE 0]
    /\ tokBlank \in [HwSlots -> BOOLEAN]
    /\ \A s \in HwSlots : ~tokPresent[s] => ~tokBlank[s]
    /\ pending = [s \in HwSlots |-> FALSE]
    /\ nssUp = TRUE
    /\ emulInit = TRUE
    /\ readers = InitReaders \cup SoftReaders
    /\ saved = [r \in Readers |->
                  IF r \in SoftReaders THEN SoftCard(r) ELSE NoCard]
    /\ present = [s \in HwSlots |-> s \in InitReaders /\ tokPresent[s]]
    /\ series = [s \in HwSlots |-> IF s \in InitReaders THEN tokGen[s] ELSE 0]
    /\ card = [r \in Readers |->
                 CASE r \in SoftReaders -> SoftCard(r)
                   [] r \in InitReaders -> Mirror(r)
                   [] OTHER             -> NoCard]
    /\ lastEvent = [r \in Readers |->
                      IF r \notin readers THEN "none"
                      ELSE IF card[r] = NoCard THEN "remove" ELSE "insert"]
    /\ queued = {}
    /\ tpc = "wait" /\ tslot = CHOOSE s \in HwSlots : TRUE
    /\ tser = 0 /\ tcard = NoCard
    /\ apc = "idle" /\ areader = CHOOSE r \in Readers : TRUE
    /\ acard = NoCard
    /\ ipc = "returned" /\ called = TRUE /\ useHw = TRUE
    /\ hasReaders = (SoftReaders # {}) /\ ret = "ok"
    /\ softTodo = {} /\ todo = {}
    /\ icard = NoCard /\ islot = CHOOSE s \in HwSlots : TRUE

-----------------------------------------------------------------------------
(* The token environment: removal, insertion, and an event that reports   *)
(* no change (NSS may return a slot whose series did not move).           *)
TokenRemove(s) ==
    /\ tokPresent[s]
    /\ tokPresent' = [tokPresent EXCEPT ![s] = FALSE]
    /\ tokBlank' = [tokBlank EXCEPT ![s] = FALSE]
    /\ pending' = [pending EXCEPT ![s] = TRUE]
    /\ queued' = {}
    /\ UNCHANGED <<config, boot, tokGen, nssUp, readers, present, series, card,
                   lastEvent, thread, apdu>>

TokenInsert(s) ==
    /\ ~tokPresent[s]
    /\ tokGen[s] < MaxGen
    /\ tokPresent' = [tokPresent EXCEPT ![s] = TRUE]
    /\ tokGen' = [tokGen EXCEPT ![s] = @ + 1]
    /\ \E b \in BOOLEAN : tokBlank' = [tokBlank EXCEPT ![s] = b]
    /\ pending' = [pending EXCEPT ![s] = TRUE]
    /\ queued' = {}
    /\ UNCHANGED <<config, boot, nssUp, readers, present, series, card,
                   lastEvent, thread, apdu>>

SpuriousEvent(s) ==
    /\ ~pending[s]
    /\ pending' = [pending EXCEPT ![s] = TRUE]
    /\ queued' = {}
    /\ UNCHANGED <<config, boot, tokPresent, tokGen, tokBlank, nssUp, readers,
                   present, series, card, lastEvent, thread, apdu>>

-----------------------------------------------------------------------------
(* vcard_emul_event_thread, one step per shared-state access.              *)

(* SECMOD_WaitForAnyTokenEvent returns slot s, which has an event.  The   *)
(* loop calls it again after NSS_ShutdownContext too (830): what a        *)
(* shut-down module's wait does is not documented, so it may still        *)
(* return a slot, fail (WaitFails), or block (no fairness, see Fairness). *)
WaitEvent(s) ==
    /\ tpc = "wait"
    /\ pending[s]
    /\ pending' = [pending EXCEPT ![s] = FALSE]
    /\ tslot' = s
    /\ tpc' = "lookup"
    /\ queued' = {}
    /\ UNCHANGED <<config, boot, tokPresent, tokGen, tokBlank, nssUp, readers,
                   present, series, card, lastEvent, tser, tcard, apdu>>

(* The wait fails with an error other than SEC_ERROR_NO_EVENT: break.     *)
WaitFails ==
    /\ tpc = "wait"
    /\ tpc' = "exited"
    /\ queued' = {}
    /\ UNCHANGED <<config, boot, provider, readers, present, series, card,
                   lastEvent, tslot, tser, tcard, apdu>>

(* Lookup without the removal: a new series goes straight to the mirror. *)
LookupNoRemove ==
    LET s == tslot IN
    /\ tpc = "lookup"
    /\ queued' = {}
    /\ IF s \notin readers
       THEN /\ readers' = readers \cup {s}
            /\ present' = [present EXCEPT ![s] = FALSE]
            /\ series' = [series EXCEPT ![s] = 0]
            /\ tpc' = "wait"
            /\ UNCHANGED tser
       ELSE /\ UNCHANGED readers
            /\ IF tokPresent[s]
               THEN /\ tser' = tokGen[s]
                    /\ IF tokGen[s] # series[s]
                       THEN /\ tpc' = "mirror"
                            /\ UNCHANGED <<present, series>>
                       ELSE /\ series' = [series EXCEPT ![s] = tokGen[s]]
                            /\ present' = [present EXCEPT ![s] = TRUE]
                            /\ tpc' = "wait"
               ELSE /\ tpc' = "absent"
                    /\ UNCHANGED <<present, series, tser>>
    /\ UNCHANGED <<config, boot, provider, card, lastEvent, tslot, tcard,
                   apdu>>

(* Lookup registering a new reader with the slot's current series.      *)
LookupNewReaderSeries ==
    LET s == tslot IN
    /\ tpc = "lookup"
    /\ queued' = {}
    /\ IF s \notin readers
       THEN /\ readers' = readers \cup {s}
            /\ present' = [present EXCEPT ![s] = FALSE]
            /\ series' = [series EXCEPT ![s] = tokGen[s]]
            /\ tpc' = "wait"
            /\ UNCHANGED tser
       ELSE /\ UNCHANGED readers
            /\ IF tokPresent[s]
               THEN /\ tser' = tokGen[s]
                    /\ IF tokGen[s] # series[s]
                       THEN /\ tpc' = IF present[s] THEN "remove" ELSE "mirror"
                            /\ UNCHANGED <<present, series>>
                       ELSE /\ series' = [series EXCEPT ![s] = tokGen[s]]
                            /\ present' = [present EXCEPT ![s] = TRUE]
                            /\ tpc' = "wait"
               ELSE /\ tpc' = "absent"
                    /\ UNCHANGED <<present, series, tser>>
    /\ UNCHANGED <<config, boot, provider, card, lastEvent, tslot, tcard,
                   apdu>>

(* Lookup without the series test at 854: every event for a present      *)
(* token re-mirrors it.                                                    *)
LookupIgnoringSeries ==
    LET s == tslot IN
    /\ tpc = "lookup"
    /\ queued' = {}
    /\ IF s \notin readers
       THEN /\ readers' = readers \cup {s}
            /\ present' = [present EXCEPT ![s] = FALSE]
            /\ series' = [series EXCEPT ![s] = 0]
            /\ tpc' = "wait"
            /\ UNCHANGED tser
       ELSE /\ UNCHANGED readers
            /\ IF tokPresent[s]
               THEN /\ tser' = tokGen[s]
                    /\ tpc' = IF present[s] THEN "remove" ELSE "mirror"
                    /\ UNCHANGED <<present, series>>
               ELSE /\ tpc' = "absent"
                    /\ UNCHANGED <<present, series, tser>>
    /\ UNCHANGED <<config, boot, provider, card, lastEvent, tslot, tcard,
                   apdu>>

(* vcard_emul_find_vreader_from_slot, then either a new reader with no    *)
(* card, or PK11_IsPresent and PK11_GetSlotSeries and the series test.    *)
Lookup ==
    LET s == tslot IN
    /\ tpc = "lookup"
    /\ queued' = {}
    /\ IF s \notin readers
       THEN /\ readers' = readers \cup {s}
            /\ present' = [present EXCEPT ![s] = FALSE]
            /\ series' = [series EXCEPT ![s] = 0]
            /\ tpc' = "wait"
            /\ UNCHANGED tser
       ELSE /\ UNCHANGED readers
            /\ IF tokPresent[s]
               THEN /\ tser' = tokGen[s]
                    /\ IF tokGen[s] # series[s]
                       THEN /\ tpc' = IF present[s] THEN "remove" ELSE "mirror"
                            /\ UNCHANGED <<present, series>>
                       ELSE /\ series' = [series EXCEPT ![s] = tokGen[s]]
                            /\ present' = [present EXCEPT ![s] = TRUE]
                            /\ tpc' = "wait"
               ELSE /\ tpc' = "absent"
                    /\ UNCHANGED <<present, series, tser>>
    /\ UNCHANGED <<config, boot, provider, card, lastEvent, tslot, tcard,
                   apdu>>

(* Series changed while a card was in: signal its removal first.          *)
RemoveOld ==
    /\ tpc = "remove"
    /\ InsertCard(tslot, NoCard)
    /\ tpc' = "mirror"
    /\ UNCHANGED <<config, boot, provider, readers, present, series, tslot,
                   tser, tcard, apdu>>

MirrorNew ==
    /\ tpc = "mirror"
    /\ tcard' = Mirror(tslot)
    /\ tpc' = "insert"
    /\ queued' = {}
    /\ UNCHANGED <<config, boot, provider, readers, present, series, card,
                   lastEvent, tslot, tser, apdu>>

(* InsertNew storing the series read again after the mirror, as         *)
(* vcard_emul_init_series does.                                           *)
InsertNewSeriesLate ==
    /\ tpc = "insert"
    /\ InsertCard(tslot, tcard)
    /\ series' = [series EXCEPT ![tslot] = tokGen[tslot]]
    /\ present' = [present EXCEPT ![tslot] = TRUE]
    /\ tpc' = "wait"
    /\ UNCHANGED <<config, boot, provider, readers, tslot, tser, tcard, apdu>>

(* vreader_insert_card of the mirror, then series and present stored.     *)
InsertNew ==
    /\ tpc = "insert"
    /\ InsertCard(tslot, tcard)
    /\ series' = [series EXCEPT ![tslot] = tser]
    /\ present' = [present EXCEPT ![tslot] = TRUE]
    /\ tpc' = "wait"
    /\ UNCHANGED <<config, boot, provider, readers, tslot, tser, tcard, apdu>>

(* The token is gone: remove the card if one was in, clear the series.    *)
Absent ==
    /\ tpc = "absent"
    /\ IF present[tslot]
       THEN InsertCard(tslot, NoCard)
       ELSE /\ queued' = {}
            /\ UNCHANGED <<card, lastEvent>>
    /\ series' = [series EXCEPT ![tslot] = 0]
    /\ present' = [present EXCEPT ![tslot] = FALSE]
    /\ tpc' = "wait"
    /\ UNCHANGED <<config, boot, provider, readers, tslot, tser, tcard, apdu>>

ThreadStep ==
    \/ \E s \in HwSlots : WaitEvent(s)
    \/ Lookup \/ RemoveOld \/ MirrorNew \/ InsertNew \/ Absent

-----------------------------------------------------------------------------
(* The APDU thread: forced presence, each call split at its registry       *)
(* accesses since nothing locks it against the hot-plug thread.            *)

(* vcard_emul_force_card_remove: fail unless a card is present.           *)
ForceRemoveCheck(r) ==
    /\ Forcing /\ apc = "idle" /\ r \in readers /\ emulInit
    /\ card[r] # NoCard
    /\ apc' = "fr_remove" /\ areader' = r
    /\ queued' = {}
    /\ UNCHANGED <<config, boot, provider, readers, present, series, card,
                   lastEvent, thread, acard>>

ForceRemoveDo ==
    /\ apc = "fr_remove"
    /\ InsertCard(areader, NoCard)
    /\ apc' = "idle"
    /\ UNCHANGED <<config, boot, provider, readers, present, series, thread,
                   areader, acard>>

(* vcard_emul_force_card_insert: fail if a card is present; a reader with *)
(* a saved card takes it, any other needs PK11_IsPresent and mirrors.     *)
ForceInsertCheck(r) ==
    /\ Forcing /\ apc = "idle" /\ r \in readers /\ emulInit
    /\ card[r] = NoCard
    /\ \/ /\ saved[r] # NoCard
          /\ acard' = saved[r]
          /\ apc' = "fi_insert"
       \/ /\ saved[r] = NoCard
          /\ IsPresent(r)
          /\ apc' = "fi_mirror"
          /\ UNCHANGED acard
    /\ areader' = r
    /\ queued' = {}
    /\ UNCHANGED <<config, boot, provider, readers, present, series, card,
                   lastEvent, thread>>

ForceInsertMirror ==
    /\ apc = "fi_mirror"
    /\ acard' = SlotMirror(areader)
    /\ apc' = "fi_insert"
    /\ queued' = {}
    /\ UNCHANGED <<config, boot, provider, readers, present, series, card,
                   lastEvent, thread, areader>>

(* ForceInsertDo keeping the inserted card as the reader's saved card.    *)
ForceInsertDoCaching ==
    /\ apc = "fi_insert"
    /\ InsertCard(areader, acard)
    /\ saved' = [saved EXCEPT ![areader] = acard]
    /\ apc' = "idle"
    /\ UNCHANGED <<emulInit, boot, provider, readers, present, series, thread,
                   areader, acard>>

ForceInsertDo ==
    /\ apc = "fi_insert"
    /\ InsertCard(areader, acard)
    /\ apc' = "idle"
    /\ UNCHANGED <<config, boot, provider, readers, present, series, thread,
                   areader, acard>>

(* vcard_emul_replay_insertion_events: every reader's current card is     *)
(* queued again for a freshly attached consumer; no reader state changes. *)
Replay ==
    /\ apc = "idle"
    /\ queued' = {<<r, "resync">> : r \in readers}
    /\ lastEvent' = [r \in Readers |->
                       IF r \notin readers THEN lastEvent[r]
                       ELSE IF card[r] = NoCard THEN "remove" ELSE "insert"]
    /\ UNCHANGED <<config, boot, provider, readers, present, series, card,
                   thread, apdu>>

(* vcard_emul_finalize: NSS_ShutdownContext(nss_ctx), which may refuse   *)
(* (the context stays open).  Neither nss_emul_init nor the event thread *)
(* is touched.                                                            *)
Finalize ==
    /\ Finalizing /\ apc = "idle" /\ nssUp
    /\ nssUp' \in BOOLEAN
    /\ queued' = {}
    /\ UNCHANGED <<config, boot, tokPresent, tokGen, tokBlank, pending,
                   readers, present, series, card, lastEvent, thread, apdu>>

ApduStep ==
    \/ \E r \in Readers : ForceRemoveCheck(r) \/ ForceInsertCheck(r)
    \/ ForceRemoveDo \/ ForceInsertMirror \/ ForceInsertDo
    \/ Replay \/ Finalize

Environment ==
    \E s \in HwSlots : TokenRemove(s) \/ TokenInsert(s) \/ SpuriousEvent(s)

Next == Environment \/ ThreadStep \/ WaitFails \/ ApduStep

(***************************************************************************)
(* Fairness.  The hot-plug thread is a dedicated thread whose only block  *)
(* is the bounded provider wait, so each of its steps after the wait is   *)
(* weakly fair.  A forced call, once started, runs to its end on the APDU *)
(* thread.  Token moves, the wait failing and the start of a forced call  *)
(* or a replay are up to the user and the provider and get no fairness.   *)
(* While the NSS context is open the provider reports every slot with an  *)
(* event sooner or later: the wait is strongly fair per slot, as the      *)
(* thread keeps coming back to it.  After NSS_ShutdownContext nothing is  *)
(* assumed of the wait.                                                    *)
(***************************************************************************)
Fairness ==
    /\ WF_vars(Lookup \/ RemoveOld \/ MirrorNew \/ InsertNew \/ Absent)
    /\ \A s \in HwSlots : SF_vars(nssUp /\ WaitEvent(s))
    /\ WF_vars(ForceRemoveDo \/ ForceInsertMirror \/ ForceInsertDo)

Spec == Init /\ [][Next]_vars /\ Fairness

-----------------------------------------------------------------------------
TypeOK ==
    /\ tokPresent \in [HwSlots -> BOOLEAN]
    /\ tokGen \in [HwSlots -> Gens]
    /\ tokBlank \in [HwSlots -> BOOLEAN]
    /\ pending \in [HwSlots -> BOOLEAN]
    /\ nssUp \in BOOLEAN /\ emulInit \in BOOLEAN
    /\ readers \subseteq Readers
    /\ saved \in [Readers -> {SoftCard(r) : r \in SoftReaders} \cup {NoCard}]
    /\ present \in [HwSlots -> BOOLEAN]
    /\ series \in [HwSlots -> Gens]
    /\ card \in [Readers -> Cards \cup {NoCard}]
    /\ lastEvent \in [Readers -> Events]
    /\ queued \subseteq Readers \X (Events \cup {"resync"})
    /\ tpc \in {"unstarted", "wait", "lookup", "remove", "mirror", "insert",
                "absent", "exited"}
    /\ tslot \in HwSlots /\ tser \in Gens /\ tcard \in Cards \cup {NoCard}
    /\ apc \in {"init", "idle", "fr_remove", "fi_mirror", "fi_insert"}
    /\ areader \in Readers /\ acard \in Cards \cup {NoCard}
    /\ ipc \in {"call", "nss", "soft", "next", "mirror", "insert", "series",
                "returned"}
    /\ called \in BOOLEAN /\ useHw \in BOOLEAN /\ hasReaders \in BOOLEAN
    /\ ret \in {"none", "ok", "fail", "already"}
    /\ softTodo \subseteq SoftReaders /\ todo \subseteq InitReaders
    /\ islot \in HwSlots /\ icard \in Cards \cup {NoCard}

(* The reader shows what mirroring its slot would give now.               *)
Settled(s) == card[s] = Mirror(s)

(* No hot-plug thread runs: vcard_emul_init has not created one (it has   *)
(* not got that far, failed, or was told not to use hardware), or it has  *)
(* left its loop.                                                         *)
ThreadDown == tpc \in {"unstarted", "exited"}

(***************************************************************************)
(* Settles: once the tokens stop moving, the hot-plug thread brings every *)
(* reader made at startup to the card of the token now in its slot (or to *)
(* no card), unless no thread runs (ThreadDown).  This is the           *)
(* series comparison and the read-series-before-mirror order of           *)
(* vcard_emul_event_thread; forced presence is left out (Forcing FALSE).  *)
(***************************************************************************)
Settles ==
    <>[](ThreadDown \/ \A s \in InitReaders : Settled(s))

(***************************************************************************)
(* Converges: whenever the series a startup reader stored lags the token  *)
(* generation now in its slot, the reader eventually shows that token's   *)
(* mirror, unless the token moves again, no thread runs, or the NSS       *)
(* context has been shut down.  Holds with forced presence and finalize   *)
(* in play.                                                                *)
(***************************************************************************)
Converges ==
    \A s \in InitReaders, g \in 1 .. MaxGen :
        (tokPresent[s] /\ tokGen[s] = g /\ series[s] # g)
            ~> (Settled(s) \/ tokGen[s] # g \/ ~tokPresent[s] \/ ThreadDown
                \/ ~nssUp)

(***************************************************************************)
(* NoSilentReplace: a card insertion is queued for a reader only when the *)
(* last event queued for it was not an insertion, so the guest never sees *)
(* one card replaced by another without a removal in between (spec.md,    *)
(* Data Model invariant and Ordering guarantees).  Replays are resyncs   *)
(* and are not insertions.                                                *)
(***************************************************************************)
NoSilentReplace ==
    [][\A r \in Readers :
         <<r, "insert">> \in queued' => lastEvent[r] # "insert"]_vars

(***************************************************************************)
(* NoRebuildOnSameSeries: the hot-plug thread takes a card out of a      *)
(* reader only when the token has left its slot or the series the reader *)
(* stored differs from the token's generation (spec.md: "unchanged series *)
(* => no rebuild").  NSS coalesces slot events and reports slots whose    *)
(* token did not change; only the series test at 854 keeps such an event  *)
(* from removing and re-inserting the card.  The series is read before    *)
(* the mirror, so after a swap between the two the stored series can lag  *)
(* a card that already mirrors the new token, and the next event rebuilds *)
(* it: that is allowed here, as the series did differ.                     *)
(***************************************************************************)
NoRebuildOnSameSeries ==
    [][\A s \in HwSlots :
         card[s] # NoCard /\ card'[s] = NoCard
             => ~tokPresent[s] \/ series[s] # tokGen[s]]_vars

(***************************************************************************)
(* EventReaderFollows: a reader that the hot-plug thread registered for a *)
(* slot it had not seen starts without a card, even when a token is in    *)
(* the slot (spec.md: "no card action yet").  Once a further event for    *)
(* that slot arrives, the reader takes the token's card, since its series *)
(* was stored as 0 and no token has series 0; unless the token moves      *)
(* again or no thread runs.                                               *)
(***************************************************************************)
EventReaderFollows ==
    \A s \in HwSlots \ InitReaders, g \in 1 .. MaxGen :
        (s \in readers /\ pending[s] /\ tokPresent[s] /\ tokGen[s] = g)
            ~> (Settled(s) \/ tokGen[s] # g \/ ~tokPresent[s] \/ ThreadDown)

(***************************************************************************)
(* PresenceRefined: the hot-plug thread, with the tokens moving under it, *)
(* implements ReaderPresence: the registry's readers and cards only move  *)
(* the abstract way (a card is taken out or put into an empty reader, and *)
(* is one of a token that has been in the slot), and a start-up reader    *)
(* keeps following its slot until the thread exits on a wait error.      *)
(***************************************************************************)
Presence == INSTANCE ReaderPresence WITH alive <- tpc # "exited"

PresenceRefined == Presence!ASpec

(* The steps that call into NSS: the series and presence reads of the     *)
(* thread's lookup, its mirror, and a forced insert on a reader with no  *)
(* saved card.                                                             *)
ProviderCall ==
    \/ Lookup \/ MirrorNew \/ ForceInsertMirror
    \/ \E r \in Readers : saved[r] = NoCard /\ ForceInsertCheck(r)

(***************************************************************************)
(* NoProviderCallAfterShutdown: once vcard_emul_finalize has shut the NSS *)
(* context down, nothing in the emulator calls into NSS again (spec.md:   *)
(* finalization ends the provider's runtime context).                     *)
(***************************************************************************)
NoProviderCallAfterShutdown == [][~nssUp => ~ProviderCall]_vars

(***************************************************************************)
(* RemovalSeen: a token that is taken out and stays out leaves its reader *)
(* without a card for good (spec.md 4.7: a physically absent card cannot  *)
(* be forced back), unless no hot-plug thread runs.                      *)
(***************************************************************************)
RemovalSeen ==
    \A s \in InitReaders :
        <>[](~tokPresent[s]) => <>[](card[s] = NoCard \/ ThreadDown)

=============================================================================
