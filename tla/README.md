# TLA+ models of libcacard's NSS card emulator

These modules model `src/src/vcard_emul_nss.c`, which backs a virtual smart
card with a real PKCS#11 provider through NSS. The reader registry and event
queue (`vreader.c`, `vevent.c`) and NSS itself are outside that file. Where a
model needs them, they are modelled from `spec.md` and marked `spec_modelled`
in `PROJECT.json`.

## 1. Inventory

| Component | State it keeps | Operations (source lines) | Module |
|---|---|---|---|
| Key handle | `failedX509` tri-state, slot and cert references | `make_key` 152, `delete_key` 165, `get_nss_key` 183 | RsaOp |
| RSA operation emulator | the key's `failedX509` | `rsa_op` 241–399, `map_error` 193 | RsaOp |
| Session/login manager | none of its own: the provider's per-slot login state | `login` 411, `is_logged_in` 452, `logout` 478, `reset` 493, `get_password` 922 | Session |
| Card builder | the card: certs, keys, serial | `make_card` 653, `create_serial` 626 | CardMirror |
| Card mirror | none (it reads the token) | `mirror_card` 702–804 | CardMirror, HotPlug |
| Data object reader | none (it reads the token) | `read_object` 1455–1505 | CardMirror |
| Hot-plug event loop | `VReaderEmul.present`, `.series`, the registry's readers and cards | `event_thread` 814–877 | HotPlug |
| Forced presence and replay | `saved_vcard` | `force_card_remove` 938, `force_card_insert` 951, `replay_insertion_events` 1193 | HotPlug |
| Initialisation | `nss_emul_init`, the default card type | `vcard_emul_init` 988–1187, `init_series` 881 | Startup |
| Finalize | `nss_ctx` | `finalize` 1210 | HotPlug |
| ATR, key size | `nss_atr` | `get_atr` 612, `rsa_bits` 219 | not modelled |
| Options parser | the static `options` it fills | `vcard_emul_options` 1283–1452, `count_tokens` 1228, `strip` 1244, `find_blank` 1252 | Options |
| Usage | none | 1507–1546 | not modelled (printing only) |

### How the components interact

1. `vcard_emul_init` makes one reader per removable hardware slot and mirrors a
   token that is present. It then starts one event thread per PKCS#11 module.
2. The event thread waits on `SECMOD_WaitForAnyTokenEvent`. It compares the
   slot's series with the one stored in `VReaderEmul`. It then removes the
   card, mirrors the token and inserts the new card into the reader.
3. The APDU layer runs in another thread. It may force a removal or an
   insertion, and may replay insertion events, on the same readers.
4. A card holds key handles. The APDU layer performs RSA operations and logins
   through the card's slot.

### Hard behaviours

- **Concurrency.** The event thread and the APDU thread share the registry and
  `VReaderEmul` with no lock, and tokens move at any time.
- **Events.** They are coalesced per slot and may be spurious.
- **Thread exit.** The thread ends on any wait error other than
  `SEC_ERROR_NO_EVENT`.
- **`rsa_op` memoisation.** `rsa_op` remembers per key whether raw RSA works.
  It emulates raw RSA by PKCS#1 sign or decrypt and rebuilds the block.
- **Login.** Login state belongs to the slot, and the PIN reaches NSS as a C
  string.
- **Certificate order.** The mirror orders certificates by an insertion on
  CKA_ID, whatever order the token lists them in.

The full list, with lines and covering properties, is the `hazards` list of
`PROJECT.json`.

## 2. Modules

| Module | Models | Composes |
|---|---|---|
| `ReaderPresence` | the abstract promise: readers follow their slots, cards come and go one at a time | – |
| `HotPlug` | event thread, forced remove/insert, replay, finalize, tokens as environment | refines ReaderPresence (INSTANCE ... WITH) |
| `Startup` | `vcard_emul_init` from its first line, then HotPlug | EXTENDS HotPlug |
| `RsaOp` | `rsa_op`, `map_error`, the key's `failedX509` | – |
| `Session` | login, is_logged_in, logout, reset, password callback | – |
| `CardMirror` | `mirror_card`, `make_card`, `read_object` | – |
| `Options` | `vcard_emul_options` and its string helpers, one character per step | – |

`MC*.tla` modules give the constants model values and small definitions.

### HotPlug state and actions

**State.**
- The provider is modelled by `tokPresent`, `tokGen` (the NSS slot series) and
  `tokBlank` (a token without certificate objects, for which the mirror returns
  NULL).
- `pending` is a coalesced slot event per slot.
- The registry is modelled by `readers`, `card` and `lastEvent`.
- `present` and `series` are `VReaderEmul`'s fields.
- `nssUp` is `nss_ctx`: the NSS context is open.
- `emulInit` is `nss_emul_init`, the guard of the forced calls; `saved` is
  `VReaderEmul.saved_vcard`. Both are set by `vcard_emul_init` and only read
  afterwards (the tuple `config`).
- The event thread and the APDU thread each have a program counter (`tpc`,
  `apc`) and their locals.

**Actions.** Each action is one access to shared state, in the code's order:
- `WaitEvent` and `WaitFails` (830–836): the wait returns a slot or fails.
  The loop keeps calling the wait after `NSS_ShutdownContext`, and what a
  shut-down module's wait does is not documented, so both stay possible then
  (and so does blocking, since no fairness is assumed after shutdown);
- `Lookup`: the new-reader branch and the series test (838–868);
- `RemoveOld`, `MirrorNew`, `InsertNew` (856–864);
- `Absent` (869–875);
- `ForceRemoveCheck`/`ForceRemoveDo` (938–946);
- `ForceInsertCheck`/`ForceInsertMirror`/`ForceInsertDo` (951–975): a reader
  with a saved card takes it; any other needs `PK11_IsPresent` and mirrors its
  slot. A soft reader's slot is always present and mirrors to `TokenCard`,
  every certificate object on the soft token;
- `Replay` (1193–1207);
- `Finalize` (1210–1223): `NSS_ShutdownContext` succeeds or refuses. It does
  not clear `nss_emul_init`, so the forced calls keep passing their guard.

A card is `<<slot, generation>>`, so "the card describes the token now" is
`card[s] = Mirror(s)`.

### ReaderPresence and the refinement

`ReaderPresence` states what the emulator promises, with no threads and no
series:
- a reader holds no card, or a card of a token that has been in its slot;
- a card is only taken out (`Eject`) or put into an empty reader (`Load`);
- a slot may gain a reader, which starts empty (`Register`);
- while the emulator runs (`alive`), each start-up reader that does not show
  its slot's token eventually takes a step towards it (`WF` on `Sync`).

`HotPlug` maps onto it with the same provider, reader and card variables and
`alive <- tpc # "exited"`. `PresenceRefined == Presence!ASpec` is checked as a
property. Readers made by the event thread are left out of the fairness: the
spec gives them "no card action yet". `EventReaderFollows` covers them
separately.

### Startup

The model starts before the first call of `vcard_emul_init`: empty registry,
no NSS context, no thread, `use_hw` chosen from the options. Its steps are:
1. `CallInit` (1002–1005): the `vcard_emul_init_called` guard. The application
   calls again only after a failure, and that call returns ALREADY_INITED;
2. `NssInit` (1046–1052): `NSS_InitContext` succeeds or fails (FAIL returned);
3. `SoftReader(r)` (1059–1110), one per soft= option: the slot is not found
   (skipped), found with no certificate (a reader with no card and no saved
   card), or found with certificates (a card inserted and saved);
4. `SoftDone` (1112–1117): without `use_hw`, `nss_emul_init = has_readers` and
   OK or FAIL is returned;
5. `AddReader` (1162–1170), `InitMirror` (1172), `InitInsert` (1173) and
   `InitSeries` (`vcard_emul_init_series`, 886–890) per removable slot;
6. `StartThread` (1181–1186): the thread is created, `nss_emul_init` set, OK
   returned.

Once `vcard_emul_init` has returned, HotPlug's thread and APDU actions run
(`Later`), with tokens moving throughout.

### RsaOp

A buffer is a byte sequence of length `N` over `InBytes`. The token's RSA
private key is an injective map `RawPriv` on N-byte blocks.
- **`RsaOp(k, buf, f)`** is the whole function: key lookup, length check, raw
  path with `failedX509`, type-1 scan (`ScanPad`), `PK11_Sign`,
  `PK11_PrivDecryptPKCS1`, `pad_len < 4`, and the rebuilt block.
- **`f` is the call's fault**: the key is not found, or one provider call fails
  with a given NSS error.
- **Provider behaviour is `spec_modelled`:** type-1 padding, type-2 stripping,
  and the least padding `MinPad` it accepts.
- **`RsaCall` applies `RsaOp`** and records which primitives were tried.

### Session

Each card names a slot (`CardSlot`), and `slotLoggedIn` is the provider's state.
- **`Login`** normalises the PIN with `TrimFF` (0xff to 0) and `CString` (ends
  at the first 0). It logs out and then authenticates.
- **`Authenticated`** is `PK11_Authenticate`. It asks for the password only if
  the slot needs login and is not logged in, and the callback answers once.

### CardMirror

A token holds certificate objects. Each object has a readable-or-not value and
a CKA_ID (a byte string, or `Fail`).
- **`MirrorCard(listed)`** folds `AddCert` over the objects in the listed order.
- **`AddCert`** skips unreadable objects. It finds the insertion point
  `InsertPos` with `ItemLess` (`SECITEM_CompareItem`) and inserts into the
  parallel arrays.
- **`MakeCard`** gives NULL for a reader of type NONE. Otherwise it gives a
  card whose serial is made from `certs[0]`.
- **`Mirror`** lists the objects in any order.
- **`WriteObject` and `DeleteObject`** change the token.

The token also holds data objects (`dataOn`). Each has a label (a byte string,
or `Fail` when it cannot be read) and a readable-or-not value.
- **`FindLabelled(listed, l)`** is the search loop of `read_object`: an
  unreadable label ends the search with NULL; otherwise the first object whose
  label has the asked length and bytes (`LabelMatches`) is found.
- **`DestroyedWith(listed, o)`** is what the unlink and
  `PK11_DestroyGenericObjects(firstObj)` free. NSS walks the list from the
  pointer it is given, and the unlink clears the found object's links, so when
  the found object is the head only it is freed (and the rest leak).
- **`ReadObject`** is the CKA_VALUE read: the object, or NULL if the value
  cannot be read.
- **`Read`** lists the data objects in any order and records the outcome in
  `lastRead`. A read from an object already freed is undefined: it gives
  either outcome, and `lastRead.freed` records that it happened.

### Options

`vcard_emul_options` walks the string with one pointer, `args` (`pos`). It
scans ahead with `strpbrk`, `count_tokens` and the type comparison (`cur`).
- **Symbols.** A symbol is one character, or one keyword the code matches
  with `strncmp` (`"soft="`, `"use_hw="` ...). `"CAC"` is the type name, `"n"`
  stands for any of `0 N n F`, and `"x"` for any other character.
- **Lazy input.** The string is produced as it is read. `Read(p, c)` at the
  first unproduced position picks any symbol or `NUL` and appends it.
  Every string of at most `MaxLen` symbols is one behaviour, and a prefix the
  parser rejects is never extended.
- **Steps.** Every character loop (`Strip`, `FindBlank`, `CountTokens`,
  `NextToken`, `Cert`, `HwTypeValue`, `DbPath`) takes one character per step.
  Every branch of the dispatch is an action (`Comma`, `Soft`, `UseHwOpt`,
  `HwTypeOpt`, `HwParamsOpt`, `DbOpt`, `NssEmul`, `Unknown`), and every
  `goto fail` is `Fail`.
- **Abstractions.** Slot names, reader names, certificate names, the database
  path and `hw_params` are abstracted to whether they are set. `options`
  keeps the flags, the card type, `use_hw` and `vreader_count`, and
  `readerCount` is the size `g_renew` gave the reader array.
  `vcard_emul_type_from_string` lives outside this file: it is modelled as the
  whole-string comparison with `"CAC"`.
- **Crash.** `pc = "crash"` is the certificate loop reaching the end of the
  string: `strpbrk` returns NULL there, and nothing checks it.

## 3. Runs

| Run | Cfg | Expect | What it shows |
|---|---|---|---|
| hotplug | MCHotPlug.cfg | pass | `PresenceRefined`: HotPlug implements ReaderPresence; `NoSilentReplace`: no Insert event follows an Insert without a Remove; `NoRebuildOnSameSeries`: the thread takes a card out only when the token left or its generation differs from the stored series (spec.md: unchanged series, no rebuild), which only the series test at 854 ensures under spurious events; `EventReaderFollows`: a reader the thread registered takes its token's card at the next event for its slot |
| startup_forcing | MCStartupForcing.cfg | pass | `vcard_emul_init` from its first call, then forced remove/insert, replay and finalize racing the thread. `Converges`: a start-up reader whose stored series lags the token generation in its slot eventually shows that token's mirror, unless the token moves again, the thread has exited or NSS has been shut down (the premise is the stored series, so a reader that wrongly believes it is up to date is outside it); `FailedInitIsFinal`: a failed init (retried or not) leaves `nss_emul_init` unset and no thread |
| finalize_provider_call | MCHotPlugFinalize.cfg | violation | after finalize, a forced insert still calls `PK11_IsPresent` |
| forced_double_insert | MCHotPlugDoubleInsert.cfg | violation | forced insert + event thread give two Inserts |
| forced_stale_insert | MCHotPlugStaleInsert.cfg | violation | forced insert leaves a card in an empty reader forever |
| startup_stale_series | MCStartupStaleSeries.cfg | violation | token swap during init is never mirrored |
| rsaop | MCRsaOp.cfg | pass | `EmulatesRealCard`, `PrimitiveMatchesFormat`, `CapabilityAuthoritative` |
| rsaop_likecard | MCRsaOpLikeCard.cfg | violation | one failed raw call downgrades a raw-capable key for good |
| session | MCSession.cfg | pass | `LoginChecksPin`: a wrong PIN never logs a slot in, also after an earlier good login |
| cardmirror | MCCardMirror.cfg | pass | `MirrorFaithful`: each readable cert once, in CKA_ID order, keys in step, over every listing order; `ReadObjectFaithful`: a read of a live data object with a unique readable label gives that object's value |
| cardmirror_read_first | MCCardMirrorReadFirst.cfg | violation | `NoUseAfterFree`: when the object found is the first listed, `read_object` frees it with the list and then reads and frees it again |
| options_unclosed_soft | MCOptions.cfg | violation | `NeverCrashes`: `soft=(,,CAC,,(` with no closing `)` takes the certificate loop past the end of the string, where the unchecked `strpbrk` returns NULL |

### Bounds and why they suffice

**HotPlug.**
- The bounds are two hardware slots (one made a reader at start-up, one only by
  an event), one soft reader, and `MaxGen = 2` insertions per slot.
- Two generations let a slot that starts with a token lose it and get a new
  one. Two generations also let a slot that starts empty gain a token, lose
  it and gain it back. Either can happen while the thread is between its
  series read and its insert.
- The hotplug run also passes at `MaxGen = 3` (385 thousand states). That
  takes over four minutes, most of it checking the liveness properties, so
  the run keeps `MaxGen = 2` (83 thousand states, 30 s). The finalize and
  start-up stale-series runs keep `MaxGen = 3`.
- The forcing runs use one slot. Forced calls on different readers touch
  disjoint state. They also let the application call `vcard_emul_finalize`
  once the APDU thread is idle.
- startup_forcing has one removable slot, one soft reader and `MaxGen = 2`:
  every soft-reader outcome, both `use_hw` values and a failing
  `NSS_InitContext` occur, and a token can be swapped once during start-up or
  under a forced call. `MaxGen = 3` gives the same verdicts in 24 minutes.

**RsaOp.**
- `N = 5` bytes over {0, 1, 2, 0xff}, plus every 4-byte buffer.
- These bounds give every shape that matters:
  - type-1 blocks with 0–2 pad bytes;
  - type-2 blocks with `pad_len` 3, 4 and 5;
  - blocks that are neither;
  - ciphertexts that look like signature blocks.
- `MinPad = 0` lets the provider return a payload with `pad_len < 4`, so the
  GENERAL error path is reached.
- One key suffices: `failedX509` is per key and keys share nothing.

**Session.**
- PINs of length up to 3 over two digits and 0xff. With a 0 byte among the
  PIN bytes (`MCBinaryPinBytes`), `LoginChecksPin` fails on VERIFY `31 32 00`,
  which logs in with PIN `31 32`; no run keeps that case (see the hazard at
  933).
- Two slots, one needing login and one not.

**CardMirror.**
- Three objects. CKA_IDs are drawn from the empty string, `01`, `02` and
  `01 02`, so the memcmp and length tie-break cases both occur.
- Every listing order is tried.
- Two data objects with labels `<<1>>`, `<<2>>` or unreadable, values readable
  or not; reads ask for `<<1>>` and `<<1, 2>>`. The longer label shares its
  first byte with `<<1>>`, so a comparison that ignores length is caught.
- The objects and the data objects are model values under a symmetry set
  (`MCSymmetry`). The run checks invariants only, and the one CHOOSE in them is
  over a set of at most one element, so the reduction is sound. It takes the
  run from 8.3 million states to 833 thousand (56 s).

**Options.**
- Strings of up to `MaxLen = 8` symbols over `soft=`, `use_hw=`, `(`, `)`,
  `,`, blank, `CAC` and `x`. A `soft=` with four empty-or-short tokens and one
  certificate needs 8 symbols, so the crash and the accepted
  `soft=(,,CAC,,)` are both within reach.
- Over the full alphabet (all six keywords, quote, `n`) at `MaxLen = 7`,
  TypeOK holds on 21.9 million states. That run finds no crash, because the
  shortest crashing string has 8 symbols.
- The parser stops after one call, so the run has `CHECK_DEADLOCK FALSE`.

### Fairness

- `WF` on the event thread's steps after the wait (`Lookup` to `Absent`): it
  runs whenever it is not blocked.
- `SF` on each slot's `WaitEvent` while the NSS context is open. NSS returns
  every slot that has an event, but a spurious event on another slot may keep
  the wait busy, so only strong fairness per slot is justified.
- `WF` on the continuation of a forced call that has started: the APDU thread
  finishes a call it is in.
- After `NSS_ShutdownContext` nothing is assumed of the wait: it may report
  events, fail or block. `Converges` therefore promises nothing once NSS is
  shut down.
- There is no fairness on token moves, on starting forced calls, on replay, or
  on `WaitFails`.
- In Startup, the steps of a call of `vcard_emul_init` are weakly fair (a call
  that has started runs to its end); the call itself and the retry are up to
  the application and get none.

## 4. Not modelled, and the plan for later work

- **Memory management:** reference counts and frees, except the object frees of `read_object`, which CardMirror models.
- **Allocation failures:** `g_malloc` aborts rather than returning an error.
- **The `passthru` option** (`ENABLE_PCSC` builds) and **`vcard_emul_usage`**
  (printing only).
- **Separator mismatch in `vcard_emul_options`:** `use_hw=`, `hw_params=` and
  `nssemul` end at a blank, not at a `,`. The model reproduces
  `use_hw=no,soft=(...)` returning with no reader. The usage text's grammar is
  too loose to state as a property.
- **`read_object` edge cases without a property:** with an unreadable label
  the result depends on the listing order, and with two objects of one label
  the first listed wins; no comment or spec text rules on either.
- **Equal CKA_IDs:** the cardmirror run keeps `UniqueIds = TRUE`. With equal
  IDs the sort keeps listing order among them, so two mirrors of one token can
  differ in order and serial; with unique IDs that agreement follows from
  `MirrorFaithful`, so no separate property states it. The case stays a hazard.
- **Rebuild after a swap during the mirror:** the thread reads the series
  before it mirrors, so a token swapped in between is mirrored under the old
  series and the next event removes and re-inserts the same card. It is the
  safe side of the race, and `NoRebuildOnSameSeries` allows it.
- **The event thread after shutdown:** nothing stops it, and NSS does not
  document what its wait then does; no run isolates its calls into the
  shut-down module (the forced insert reaches one first).
- **Provider results:** a token returning a short raw RSA result (the asserts
  at 290 and 339) is not among the provider behaviours yet.
- **Two cards on one slot:** the login state is the slot's, by PKCS#11
  design (comment at 422–426), so cards on one slot share it; no property is
  stated about it.
- **The PCSC passthrough branch of `vcard_emul_init`** (`ENABLE_PCSC` builds)
  hands the readers to `capcsc`, outside this file.
- **A soft reader without certificates:** a forced insert gives it the mirror
  of its slot (`TokenCard`). spec.md names only the saved-card and hardware
  branches, so no property says what it should get.
- **`vcard_emul_get_atr` and `vcard_emul_rsa_bits`:** these keep no state
  beyond a cached ATR. A negative `*atr_len` from a caller would make the
  `memcpy` length huge, but callers are outside this file.

Planned next:
- `rsa_op`, login and logout after finalize, in a composition with Session
  and RsaOp.
