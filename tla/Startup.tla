------------------------------- MODULE Startup -------------------------------
(***************************************************************************)
(* vcard_emul_init from its first line, racing token moves: the           *)
(* init-called guard, NSS_InitContext, the soft-reader loop of the soft=   *)
(* options, the use_hw test and, for each removable slot of the module, a *)
(* reader, and if a token is present its card mirrored and inserted and   *)
(* vcard_emul_init_series reading PK11_IsPresent and PK11_GetSlotSeries   *)
(* again; then the module's hot-plug thread is started, nss_emul_init set *)
(* and the call returns.  Everything after that is HotPlug.               *)
(*                                                                         *)
(* The variables are HotPlug's; those of the call are                      *)
(*   ipc         where vcard_emul_init is;                                 *)
(*   called      vcard_emul_init_called;                                   *)
(*   useHw       options->use_hw;                                          *)
(*   hasReaders  has_readers: some soft reader got a card;                 *)
(*   ret         what the last call of vcard_emul_init returned;           *)
(*   softTodo    soft= options not yet visited;                            *)
(*   islot       the slot the hardware loop is working on;                 *)
(*   icard       the card it mirrored;                                     *)
(*   todo        removable slots of the module not yet visited.            *)
(* The application thread (apc) is "init" while it is inside the call, so *)
(* no forced call, replay or finalize happens before it returns.          *)
(***************************************************************************)
EXTENDS HotPlug

(* The process at its first call: empty registry, no NSS context, no      *)
(* thread; use_hw comes from the options.                                 *)
StartInit ==
    /\ tokPresent \in [HwSlots -> BOOLEAN]
    /\ tokGen = [s \in HwSlots |-> IF tokPresent[s] THEN 1 ELSE 0]
    /\ tokBlank \in [HwSlots -> BOOLEAN]
    /\ \A s \in HwSlots : ~tokPresent[s] => ~tokBlank[s]
    /\ pending = [s \in HwSlots |-> FALSE]
    /\ nssUp = FALSE /\ emulInit = FALSE
    /\ readers = {}
    /\ present = [s \in HwSlots |-> FALSE]
    /\ saved = [r \in Readers |-> NoCard]
    /\ series = [s \in HwSlots |-> 0]
    /\ card = [r \in Readers |-> NoCard]
    /\ lastEvent = [r \in Readers |-> "none"]
    /\ queued = {}
    /\ tpc = "unstarted" /\ tslot = CHOOSE s \in HwSlots : TRUE
    /\ tser = 0 /\ tcard = NoCard
    /\ apc = "init" /\ areader = CHOOSE r \in Readers : TRUE
    /\ acard = NoCard
    /\ ipc = "call" /\ called = FALSE /\ useHw \in BOOLEAN
    /\ hasReaders = FALSE /\ ret = "none"
    /\ softTodo = SoftReaders /\ todo = InitReaders
    /\ icard = NoCard /\ islot = CHOOSE s \in HwSlots : TRUE

(* Locals of the call that a step leaves alone.                           *)
Hold == <<called, useHw, hasReaders, ret, softTodo, todo>>

(* CallInit without the vcard_emul_init_called test.                     *)
CallInitUnguarded ==
    /\ ipc = "call" \/ (apc = "idle" /\ ret = "fail")
    /\ called' = TRUE
    /\ ipc' = "nss"
    /\ apc' = "init"
    /\ queued' = {}
    /\ UNCHANGED <<config, provider, readers, present, series, card,
                   lastEvent, thread, areader, acard, useHw, hasReaders, ret,
                   softTodo, islot, icard, todo>>

(* The application calls vcard_emul_init, and calls it again if it has  *)
(* failed: a call after the first returns ALREADY_INITED at once,        *)
(* whatever the first one returned.                                       *)
CallInit ==
    /\ ipc = "call" \/ (apc = "idle" /\ ret = "fail")
    /\ IF called
       THEN /\ ret' = "already"
            /\ UNCHANGED <<ipc, called>>
       ELSE /\ called' = TRUE
            /\ ipc' = "nss"
            /\ UNCHANGED ret
    /\ queued' = {}
    /\ UNCHANGED <<config, provider, readers, present, series, card,
                   lastEvent, thread, apdu, useHw, hasReaders, softTodo,
                   islot, icard, todo>>

(* The call returns: the application thread is free again.               *)
Return == apc' = "idle" /\ ipc' = "returned" /\ UNCHANGED <<areader, acard>>

(* NSS_InitContext on the database: it may fail (no such directory).      *)
NssInit ==
    /\ ipc = "nss"
    /\ nssUp' \in BOOLEAN
    /\ IF nssUp' THEN /\ ipc' = "soft" /\ UNCHANGED <<ret, apdu>>
                 ELSE /\ Return /\ ret' = "fail"
    /\ queued' = {}
    /\ UNCHANGED <<config, tokPresent, tokGen, tokBlank, pending, readers,
                   present, series, card, lastEvent, thread, called, useHw,
                   hasReaders, softTodo, islot, icard, todo>>

(* One soft= option: PK11_FindSlotByName may not find the slot (skip it); *)
(* else a reader is added, and if any of its certificates is found by     *)
(* nickname the card is built, inserted and saved for forced insertion.   *)
(* vcard_emul_init_series on the internal slot is left out: the hot-plug *)
(* thread never visits it.                                                *)
SoftReader(r) ==
    /\ ipc = "soft" /\ r \in softTodo
    /\ softTodo' = softTodo \ {r}
    /\ \E found, certs \in BOOLEAN :
         IF found /\ certs
         THEN /\ readers' = readers \cup {r}
              /\ InsertCard(r, SoftCard(r))
              /\ saved' = [saved EXCEPT ![r] = SoftCard(r)]
              /\ hasReaders' = TRUE
         ELSE /\ readers' = IF found THEN readers \cup {r} ELSE readers
              /\ queued' = {}
              /\ UNCHANGED <<card, lastEvent, saved, hasReaders>>
    /\ UNCHANGED <<emulInit, provider, present, series, thread, apdu, ipc,
                   called, useHw, ret, islot, icard, todo>>

(* The soft readers are done: without use_hw, return OK if one of them   *)
(* has a card and set nss_emul_init to that; else go to the hardware.    *)
SoftDone ==
    /\ ipc = "soft" /\ softTodo = {}
    /\ IF useHw
       THEN /\ ipc' = "next"
            /\ UNCHANGED <<emulInit, ret, apdu>>
       ELSE /\ emulInit' = hasReaders
            /\ ret' = IF hasReaders THEN "ok" ELSE "fail"
            /\ Return
    /\ queued' = {}
    /\ UNCHANGED <<saved, provider, readers, present, series, card,
                   lastEvent, thread, called, useHw, hasReaders, softTodo,
                   islot, icard, todo>>

(* vreader_emul_new + vreader_add_reader, then PK11_IsPresent.            *)
AddReader(s) ==
    /\ ipc = "next" /\ s \in todo
    /\ todo' = todo \ {s}
    /\ readers' = readers \cup {s}
    /\ islot' = s
    /\ ipc' = IF tokPresent[s] THEN "mirror" ELSE "next"
    /\ queued' = {}
    /\ UNCHANGED <<config, provider, present, series, card, lastEvent, thread,
                   apdu, called, useHw, hasReaders, ret, softTodo, icard>>

InitMirror ==
    /\ ipc = "mirror"
    /\ icard' = Mirror(islot)
    /\ ipc' = "insert"
    /\ queued' = {}
    /\ UNCHANGED <<config, provider, readers, present, series, card,
                   lastEvent, thread, apdu, islot, Hold>>

InitInsert ==
    /\ ipc = "insert"
    /\ InsertCard(islot, icard)
    /\ ipc' = "series"
    /\ UNCHANGED <<config, provider, readers, present, series, thread, apdu,
                   islot, icard, Hold>>

(* vcard_emul_init_series: present and series read after the mirror.      *)
InitSeries ==
    /\ ipc = "series"
    /\ present' = [present EXCEPT ![islot] = tokPresent[islot]]
    /\ series' = [series EXCEPT ![islot] = tokGen[islot]]
    /\ IF ~tokPresent[islot]
       THEN InsertCard(islot, NoCard)
       ELSE /\ queued' = {}
            /\ UNCHANGED <<card, lastEvent>>
    /\ ipc' = "next"
    /\ UNCHANGED <<config, provider, readers, thread, apdu, islot, icard,
                   Hold>>

(* vcard_emul_new_event_thread once the module's slots are done, then    *)
(* nss_emul_init set and OK returned (the local vcard goes out of scope). *)
StartThread ==
    /\ ipc = "next" /\ todo = {}
    /\ tpc' = "wait"
    /\ emulInit' = TRUE
    /\ ret' = "ok"
    /\ Return
    /\ icard' = NoCard
    /\ queued' = {}
    /\ UNCHANGED <<saved, provider, readers, present, series, card,
                   lastEvent, tslot, tser, tcard, islot, called, useHw,
                   hasReaders, softTodo, todo>>

InitStep ==
    \/ NssInit \/ \E r \in SoftReaders : SoftReader(r)
    \/ SoftDone \/ \E s \in HwSlots : AddReader(s)
    \/ InitMirror \/ InitInsert \/ InitSeries \/ StartThread

(* Tokens move at any time; the thread runs once it has been created and *)
(* the APDU layer once the call has returned (their guards say so).       *)
StartNext == CallInit \/ InitStep \/ Next

(* HotPlug's fairness, and a call of vcard_emul_init runs to its end.    *)
StartSpec == StartInit /\ [][StartNext]_vars /\ WF_vars(InitStep) /\ Fairness

-----------------------------------------------------------------------------
(***************************************************************************)
(* FailedInitIsFinal: once a call of vcard_emul_init has failed (NSS did  *)
(* not open, or no soft reader got a card without use_hw), the emulator  *)
(* stays down for the process, retried or not: nss_emul_init stays unset, *)
(* so every forced call fails, and no hot-plug thread is ever made, since *)
(* vcard_emul_init_called is already set and a retry returns             *)
(* ALREADY_INITED.                                                        *)
(***************************************************************************)
FailedInitIsFinal ==
    [](ret = "fail" => [](~emulInit /\ tpc = "unstarted"))

=============================================================================
