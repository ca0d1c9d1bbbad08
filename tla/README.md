# yubikey-personalization in TLA+

This directory holds a verification development for yubikey-personalization:
TLA+ models of the library `ykcore`/`ykpers` and of the programs
`ykpersonalize`, `ykchalresp` and `ykinfo`, TLC runs on small instances, and TLAPS proofs for every value
of the constants. The models are translated from the C code; `PROJECT.json`
maps each definition to the lines that it stands for.

## 1. The system

A YubiKey is a USB keyboard that can be programmed. Programs reach it by
8-byte HID *feature reports*: seven bytes of data and one of status, by a
protocol that has no session, no lock and no identification of who asked what.
Any number of processes may have the key open at once. The only mutual
exclusion is the claim of the USB interface, and it is held for one transfer.

| Component | Source | State | Operations | Modules |
|---|---|---|---|---|
| USB layer | `ykcore_libusb-1.0.c`, `yk_open_key`, `yk_close_key` | open handles, kernel driver, claims | open, read, write, close | `UsbDevice` |
| Key protocol | `ykcore.c` | none of its own; the key's frame, answer, read mode, `pgmSeq` | status, configuration write, challenge, serial number, capabilities | `KeyProtocol` |
| Status wait loop | `yk_wait_for_key_status` | backoff, limit, blocking | wait for a status flag | `KeyWait`, `WaitContract` |
| Per-thread errors | `_yk_errno_location`, `_ykp_errno_location`, `yktsd.h` | `tsd_init`, `errno_key`, cells | store and load `yk_errno` | `ThreadErrno` |
| Configuration | `ykpers.c`, `ykpers_lcl.c`, `ykpers-json.c` | `YKP_CONFIG`: flags, command, moving factor | commands, setters, clear, export, import, listing | `KeyConfig`, `ConfigSession` |
| Command line | `args_to_config` | what was seen, the configuration | one step per option | `ArgsToConfig` |
| `ykpersonalize` | `main`, `set_oath_id` | files, consent, exit code | open, parse, import, save, ask, write | `Personalize` |
| NDEF records | `ykpers.c` | payload, access code | `ykp_construct_ndef_uri`, `_text`, `ykp_ndef_as_text`, `ykp_set_ndef_access_code` | `NdefRecord` |
| Keys from a passphrase | `ykpbkdf2.c` | the key so far | `yk_pbkdf2` | `Pbkdf2` |
| Version comparison | `ykpers-version.c` | the rest of two strings | `my_strverscmp`, `ykpers_check_version` | `VersionCompare` |
| Identities, keys, codes | `ykpers.c`, `ykpers_lcl.c` | the bytes of `YK_CONFIG` | their setters, the legacy listing | `ConfigFields` |
| `ykchalresp` | `ykchalresp.c` | options, challenge | one challenge, its answer in one of three forms | `Tools` |
| `ykinfo` | `ykinfo.c` | options | the serial number, status, ids, capabilities | `Tools` |
| Status accessors, device configuration | `ykstatus.c`, `ykp_set_device_*` | fields | read or set one field | not modelled |
| Other USB backends | `ykcore_libusb.c`, `_osx.c`, `_windows.c`, `_stub.c` | as the first row | as the first row | not modelled |
| Build without JSON | `ykpers-nojson.c` | none | both functions fail | not modelled |
| HMAC and SHA | `hmac.c`, `sha*.c`, `usha.c` | digest contexts | vendored RFC 6234 code | not modelled |
| Build files, tests, documents | | | | read only |

How they interact. `ykpersonalize` opens the key (USB layer, then one status
through the key protocol), runs `args_to_config`, which calls the setters of
the configuration, may import or export a file, asks the user, and makes one
write through the key protocol. Every wait of the protocol is the status wait
loop. Every failure of the library is told through the per-thread errors.

What is hard in it:

* **Interleaving.** Two processes' transfers mix inside a frame and inside an
  answer; reading an answer uses it up. A close gives the keyboard driver back
  under another process's feet. Two threads can make the first use of
  `yk_errno` at once.
* **Failure and crash.** A transfer may fail and a process may be killed
  between any two transfers; what is left in the key meets the next call.
* **Timeouts.** The wait is limited, its limit is extended once while the
  user is to touch the key, and a retry can race an earlier, late command.
* **Order.** Options of the command line are checked against those before
  them. A file is imported after the checks.
* **Shared bits.** Flags of different modes share bits, so that mode, key
  length and listing must agree by arithmetic, not by name.

What makes each component correct, in a sentence: the wait ends in bounded
time with a verdict that the status bytes bear out; an accepted answer is one
whole answer, and with one client the answer to its own command; a write that
is reported as made was made; the keyboard driver comes back; each thread has
its own error; a configuration's mode and key agree and what is saved can be
loaded; an accepted line does what its options ask; nothing is written without
consent, and the exit code tells what happened. What is put into a record can
be read back and stays within it; a derived key is the standard's; the parts of
a configuration that share bytes do not spoil each other, and the listing shows
all of them; a challenge that is answered is the one that was given.

## 2. The modules

`X` is the component, `XProofs` its theorems, `MCX` with its `.cfg` files the
instances for TLC. Operators named *Mutant of ...* in a comment are faulty
variants of the definition that follows; the manifest uses them to show that
each property can fail.

    WaitContract   <--implements--  KeyWait        the wait, with real times
                                      |  abstracted to poll budgets
    UsbDevice  --atomic transfers-->  KeyProtocol   calls and the key
                                      ^  "the write works or fails"
    KeyConfig <-- ConfigSession       |
        ^-------- ArgsToConfig <-- Personalize
    ThreadErrno
    NdefRecord   Pbkdf2   VersionCompare   ConfigFields   Tools     (MCLibrary)

### KeyWait and WaitContract

One call of `yk_wait_for_key_status` (`ykcore.c` 490-560). The variables are
the function's locals (`slept_time`, `sleepval`, `max_time_ms`, `blocking`,
`last_data`) with its arguments in `call`; `outcome` is the return value and
`seen` a history of the status bytes. The body of the loop is the action
`Turn(status)`, with a disjunct for each way it ends; a failing read and the
end of the time are actions of their own. The key may show any set of flags at
every poll. `WaitContract` is the caller's view: time is spent in bounded
portions, the limit is raised at most once, a verdict is reached.

### KeyProtocol

Several clients, each in one library call, and the key. One action is one USB
transfer with the code that runs up to the next one: `GetStatus`, `ReadSeq`
and `Verify` (`yk_get_status`, `_yk_write`), the `Poll...` actions (one look
of the wait loop), `SendPart` (`yk_write_to_key`, which leaves all-zero parts
out), `ReadChunk`, `ReadEnd`, `ReadLost`, `ReadTooLong`
(`yk_read_response_from_key`), `ResetReadMode` (`yk_force_key_update`).
`Failure` lets the same transfers fail, or kills the process. `cl[c]` holds a
client's program counter and locals.

The key is not in the repository. `inbox`, `frame`, `resp`, `pos`, `touch`,
`pgmSeq` and `valid` model it from what `ykcore.c` reads from it and says of
it, with a choice wherever that leaves one: it takes a part when it pleases,
rejects a frame, applies an update or not, answers at once, asks for a touch
or gives up. The times of the wait become budgets of polls (`MaxPolls`,
`BlockPolls`). Chunks of an answer carry the tag of the command they answer;
the checksum is abstracted to "the chunks are those of one answer, in order",
i.e. a 16-bit checksum of mixed answers is taken never to match.

`WriteIsTold` looks only at writes whose two looks at `pgmSeq` were *sure*:
the key showed its status and no earlier report was left to process.
`AcceptedIsOwn`, `SentIsAccepted`, `WriteIsTold` and `ReadModeIsReset` are
stated for one client, and are false for two: nothing locks the key over a
call. What survives any number of clients is `AcceptedIsWhole`.

`AcceptedIsOwn` and `ReadModeIsReset` are about answers that are checked.
`yk_get_capabilities` expects no length (`ykcore.c:199`), so that no checksum is
looked at: with the end of an earlier answer still in the key it takes that for
the capabilities, and leaves the key showing the real ones.

### UsbDevice

`yk_open_key` (both vendors), `_ykusb_open_device`, the transfers under a
claim, `yk_close_key`, by several processes. One action is one libusb call.
`driver` is the set of devices that the kernel's keyboard driver has, `claims`
who claims what, `stranded` a history of devices that a kill or a failed
attach or release left. Who may detach, claim and attach is Linux's side of
libusb. Without a claim two transfers could overlap; `TransfersAreExclusive`
is why `KeyProtocol` may take a transfer for one step. A device that the
process may not open is a fault of `LibusbOpen`.

### ThreadErrno

`_yk_errno_location` statement by statement: test `tsd_init`, make the key,
mark, get the cell, calloc, set, decide, fetch. Each of the three calls of the
thread library and of the allocator may fail; `unset` is a history of a failed
`pthread_setspecific`. The macro `yk_errno` is `Use`, a store or a load at the
address. `Warm` says that the first call returned
before any other began. `_ykp_errno_location` is the same code.

### KeyConfig, ConfigSession

`KeyConfig`, which `ConfigFields` extends too, has the pure part: the tables of flags with their bits and
capabilities, `Supported` (which firmware has which command), the setters, the
mode, the key length, the moving factor, the YCFG export and import, the
listing's choice of one flag per value. A configuration is a record of three
sets of bits, the moving factor, the command and the firmware. `ConfigSession`
is an application that makes any calls of `ykpers.h` in any order.

### ArgsToConfig

`args_to_config`, one action per option; `seen` stands for the locals
`slot_chosen`, `mode_chosen`, ...; `ndefs` is a history that counts the records
behind a slot. `ScanMapAlone`, an `-S` without its map, ends the line. A conflict or a capability that is missing
ends the line with the code's `exit_code`. Decoding an argument works or
fails. `EndLine` is the code after the loop: the update mask, the key and its
length.

### Personalize

`main` of `ykpersonalize.c`, which runs `ArgsToConfig` as its second stage:
open the key, parse, identifiers, open files, import, save, show, ask, write,
warn, send, close. `shown` is what the user was told, `consent` what was
agreed to, `written` what the key took, `failure` the step that failed. `Message`
tells of a command what the code prints of it: one text for both NDEF records, and
for a deletion the slot that `ykp_config_num` gives. The
send works or fails; whether the library tells the truth about it is
`KeyProtocol`'s matter.

### NdefRecord

`YK_NDEF` as the struct lies in memory: the payload and, right behind it, the
access code, which is what a record that is too long would run into. The
buffer of `ykp_ndef_as_text` is followed by two bytes that are looked at.
Characters are numbers; the table of abbreviations is a constant, in the
code's order.

### Pbkdf2

`yk_pbkdf2`, one call of the pseudo-random function per step. The function is a
free one: a byte of its output is an atom named by the input and the place, a
byte of the key the set of the atoms that were XORed into it. Two keys are then
equal only if they are for every function. `StandardByte` is RFC 2898's
definition, for the passphrase that `strlen` sees. `block` has `ArraySize` bytes:
what a key takes up from behind an output is the same in each call (`Behind`), what
it takes up from behind the array need not be (`Outside`), and a salt that leaves no
room for a block's number overruns it (`Overruns`), after which the call may read
other bytes there or do anything (`returned` is then "undefined").

### VersionCompare

`my_strverscmp` on character codes, one round of its loop per step, with its
four ways of comparing two numbers.

### ConfigFields

The bytes of `YK_CONFIG` that `KeyConfig` leaves out. The private identity, the
last four bytes of a long key and the moving factor lie in the same six bytes
of `uid`; `long`, `factor` and `private` are histories of what was last put
there and not taken away. `LegacyListing` chooses the fields and their lengths
as `_ykp_legacy_export_config` does. A listing is compared with the fields, not
as text.

### Tools

`ykchalresp` and `ykinfo`: the options one at a time, the challenge from the
time, a file or the line, then the calls on the key in the order of `main`.
Each call works or fails; `challenge`, `printed`, `shown` and `code` are what
the user gets. A text is made of hex digits, other characters and the
terminator, since decoding and cutting look at no more.

`MCLibrary` puts these five side by side. They share no state: `part` picks
the one that moves, so that one run explores each on its own.

## 3. The runs

| Run | Instance | What it shows |
|---|---|---|
| `wait` | `MCKeyWait` | `SleepBounded`: time slept is bounded by the limit plus one sleep; `Truthful`: the result agrees with the bytes read; `UserGetsTheExtension`: no one is sent away during the 256 s; `Returns`; `ImplementsContract` |
| `key_one` | `MCKeyOne` | one client, three calls of all five kinds, one failure or kill: `AcceptedIsOwn`, `SentIsAccepted`, `WriteIsTold`, `ReadModeIsReset` |
| `key_two` | `MCKeyTwo` | two clients, a challenge and a serial number, one failure: `AcceptedIsWhole`, `CallsReturn` |
| `usb_shared` | `MCUsbShared` | two processes, one key of each vendor, two failures or kills: `DriverComesBack`, `HandleIsUsable`, `TransfersAreExclusive`, `NullIsTold` |
| `errno_warm` | `MCErrnoWarm` | two threads, five uses, two failures of any call: `NullOnlyIfUnset`, `ErrnoIsOwn` |
| `errno_cold` | `MCErrnoCold` | *violation* of `NeverNull` |
| `config_session` | `MCConfigSession` | six firmwares: `KeyFitsMode`, `ListedOnce`, `SavedIsLoaded` |
| `args_line` | `MCArgsLine` | all lines of up to seven arguments, three firmwares: `ModeDropsDefaults`, `UidIsNoKey`, `CommandIsKept` |
| `args_usb_mode` | `MCArgsUsbMode` | *violation* of `UsbModeIsAlone` |
| `personalize` | `MCPersonalizeWhole` | `WrittenWithConsent`, `ShownIsWritten`, `OutcomeIsTold`, `FileReplacesTheLine`, `ChecksHoldWithoutFile` |
| `personalize_code` | `MCPersonalizeCode` | *violation* of `NdefCodeIsWritten` |
| `library` | `MCLibrary` | `ReadBack`, `CodeIsKept` (records); `DerivedIsStandard`; `ReleasesByNumber`; `FieldsKeepApart`, `ListingIsWhole` (bytes of a configuration); `ChallengeIsWhole`, `ExitCodeTells`, `SerialIsShown` (the two programs) |

`wait`, `key_one` and `usb_shared` check their module's type invariant too.

### The bounds, and why they are enough

* `wait` uses the code's own numbers: limits of 1150 and 1000 ms, sleeps
  capped at 500 ms, an extension of 256 000 ms. Nothing is scaled down.
* `key_one`: frames of three parts (a first, a middle that may be all zero,
  a last) instead of ten; answers of two chunks to a challenge and to the
  capabilities, so that there is a first and a last, of one to the serial
  number. Three calls leave room for a call that is interrupted, one that
  meets its leftovers, and a retry. `SeqMod` 3 lets `pgmSeq` wrap to 0.
* `key_two`: two clients, of two calls in all; mixing answers takes two clients
  and two answers. Frames have two parts. The answer to a challenge is what is
  too long for the buffer of a serial number, and frames of the two are
  rejected when their parts mix. Liveness allows no symmetry, so there is none.
* `usb_shared`: three opens by two processes, so that one can reopen while
  the other still holds; two faults, so that one can be met while another is
  being cleaned up; `Indices` 0 and 1 exercise both searches.
* `errno_warm`, `errno_cold`: two threads suffice for each race; five calls
  let each thread store, be interrupted and load again.
* `config_session` has no bound on the calls: the configurations are finitely
  many. The firmwares are one on either side of the capabilities that matter.
* `args_line`: a conflict is between two options, a mode, a slot, an update,
  a key and two more make seven. `personalize` takes five, with all files and
  answers.
* `library`, records: payloads of up to three bytes, one of code, buffers from
  too small to larger than needed; identifiers of which one begins another.
  Keys: outputs of two bytes, so that five make three blocks with a shorter
  last one; up to four iterations, so that both parities come twice; an array
  of three bytes and numbers of one, so that keys of four and five bytes reach
  behind it and a salt of three, the longest that is taken, leaves no room for the
  number.
  Versions: all pairs of strings of up to four of `.`, `0`, `1`, `9`, and three
  releases. Bytes: a fixed part of three with identifiers of two, a tail of
  one byte; the setters in any order, any number of times. Programs: up to
  four options; blocks of two bytes; `SerialLimit` 2^15 stands for 2^31.

Where the bounds let a system stop the run says `CHECK_DEADLOCK FALSE`; a
program ends, and `config_session`, which does not, keeps the deadlock check.

### Fairness

* `KeyWait`: `WF_vars(Next)`. The loop is sequential; each sleep and each
  transfer of it ends.
* `KeyProtocol` (`key_two`): weak fairness of each client's `Step`: a call in
  progress goes on, since libusb's control transfers have a timeout. Nothing is
  asked of the key and the user, who may fall silent for ever: `CallsReturn`
  follows from the wait's limit alone, with a second client that reads away
  the reports the first waits for.

The other components end by themselves and have safety properties only.

## 4. What is proved

`KeyWaitProofs`, for all sets of calls, flags and positive caps
(`CallsAssumption`, `FlagAssumption`, `SleepAssumption`):

* `TypeCorrect`, `SleepIsBounded`, `VerdictIsTruthful`, `ExtensionIsGranted`.
  The inductive invariant is `TypeOK /\ SleepBounded /\ Truthful /\ WaitSeen`,
  where `WaitSeen` says that a caller who may block and has last seen the key
  waiting is in blocking mode. `UserGetsTheExtension` follows from it, and is
  not inductive without it: nothing else ties the last byte to the raised
  limit.
* `LoopRefinesContract`: each behaviour of the loop is one of `WaitContract`'s
  `Spec`. The fairness part of the refinement is checked by TLC only.

`KeyProtocolProofs`, for any number of clients, any frame, answers and buffers
of any length, any bounds:

* `TypeCorrect`.
* `AcceptedAnswersAreWhole`. The invariant says of each client (`Coherent`)
  that every chunk in its buffer comes from a command the key accepted, and
  that a checked call that succeeded had a buffer that passed the checksum and
  had the full length; and of the key (`AnswersKnown`) that what it shows or
  holds back for a touch answers a command it accepted.
* For one client (`Alone`): `AnswersAreOwn`, `FramesAreAccepted`,
  `WritesAreTold`, `ModeIsReset`. `LoneInv` adds to the invariant above that
  everything in the key is the present call's or an earlier one's (`Past`) and,
  by the client's program counter (`Lone`), what an earlier call can have left.
  The argument: a frame is put together part by part, the parts left out being
  zero in a frame that the first part cleared; the first part that the key
  takes also ends a touch it was waiting for; each wait before a part reads
  away the beginning of an old answer, so that what is left of it fails the
  length or the checksum; and `pgmSeq` between two sure looks moves with the
  call's own write only.

`UsbDeviceProofs`, for any processes, devices, vendors and bounds:

* `TypeCorrect`, `DriverReturns`, `HandleWorks`, `TransfersExclude`,
  `NullExplained`. The invariant has one part per process, `Own(p)`, which
  ties its claims, its device and the absence of the driver to its program
  counter, and two global parts, one claim per device and the return of the
  driver. Steps of one process keep the others' part by a common lemma.

`ThreadErrnoProofs`, if the first call returned before any other began
(`Warm`), for any threads and any failures of keys, cells and
`pthread_setspecific`:

* `AddressIsUsable`, `ErrnoBelongsToThread`. The invariant says that one key
  is made, that a thread past `SetCell` has a cell under that key or its
  `pthread_setspecific` failed, and that no cell is another thread's. The address
  is thus NULL in such a call only; that it is NULL there is so in the code
  (section 5). `ErrnoBelongsToThread` is for runs without failures. Without `Warm` both are false (`errno_cold`).

`KeyConfigProofs`, over all sets of bits in the three flag words:

* The lemmas on the setters that the others cite, and `KeyLengthIsOfMode`: the
  key has 20 bytes exactly in the modes OATH-HOTP and HMAC challenge-response,
  although the length and the mode are found by tests of different bits.
* What a loop that a recursive function describes computes: `Recursion` says
  that the function exists and which one it is, by the least number at which
  two candidates would differ (`Least`). No induction rule is needed, so that
  the loops of the listing, of a passphrase's key and of the digits of a number
  are within reach.

`ConfigSessionProofs`, for any set of firmwares and any calls in any order:

* `KeyAlwaysFits`. `ConfigInv` has the type of the configuration and a moving
  factor that is set only where the firmware has one (`FactorFits`).
* `SavedIsKept`. The configuration that is loaded has no bit that the saved one
  had not (`Loaded`), since the import sets the flags of the mode and of the
  options alone, and these were set (`SavedAreSet`). It has each of those flags,
  where the firmware takes each by name (`Legal`). The mode follows by tests of
  bits (`LoadedMode`), the length of the key by `KeyLengthIsOfMode`. Without
  `FactorFits` a refusal could have another reason than the random seed.
* `ListingHasNoDoubles`. After any number of rounds the flags listed share no bit
  with each other or with what is left (`Apart`); a flag is listed only if all its
  bits are left.

`PersonalizeProofs`, for lines of any length, any files and answers:

* `LineKeepsCommand`. Only the options that own a command set it: the lemmas
  on the flag setters (`Keeps`) show that none of them touches the command, and
  the invariant (`LineInv`) keeps, for each owner that was seen, its command and
  the conflicts that bar the others, and for a line with a slot its record by the
  number of records behind it: a second record behind `-2`, which goes to the
  first slot, is part of the statement, as `-D -S` is.
* `ModeIsPure`, `UidIsSafe`. `FlagsInv` adds that with a mode every bit is one of
  a flag that was asked for, since the first mode clears the defaults, and that a
  private identity was given where no mode of 20 bytes is or can follow.
* `NothingWithoutConsent`, `MessageIsTrue`. The invariant goes stage by stage:
  nothing is written before the question, what was shown is the `Message` of the
  configuration as it stands, and from the question on it does not change. The
  message determines what is written, but for the slot of an NDEF record and of a
  deletion by `-z -u`.
* `OutcomeIsKnown`. `EndInv` adds that no step has failed while `main` goes on,
  and that the exit code is 2 from the yes until a write or its lack ends the run.
* `ChecksSurvive`. What `args_to_config` checked at its end (`CheckedInv`: the
  flags fit the update mask, the key its mode) is not touched by a stage behind
  it other than the import.
* `FileWins`. From the import on the configuration is the file's (`FromFile`),
  with nothing left of the flags of the line.

`LibraryProofs`, for any sizes, identifiers, texts, codes, keys, seeds, options,
files, challenges, passphrases, serial numbers and versions:

* `CodeSurvives`: each `memcpy` ends below the code; the lemma `Below` says so of
  one copy, the size test bounds the sum.
* `RecordReadsBack`. The invariant (`Whole`) is that the bytes read as what was put
  into them (`Reads`) until the next record is made. A URI needs that the
  abbreviation that was cut off is the one its number stands for when it is read
  (`AbbreviationIs`); a text that the length of its language fits into seven
  bits, hence `DataSize` at most 128 (54 in the code).
* `PartsAreKept`: the tail of a long key and the moving factor fill the uid
  between them, and each call writes its own part or says that the others are
  gone; the limit on the seed makes the factor fit its two bytes.
* `ListingShowsAll`: field by field; the moving factor, which is shown times 16,
  gives back the two bytes it was made of.
* `ExitCodeIsTrue`: stage by stage, the code is 0 as long as all that was asked
  for so far was printed, and every way out passes the close.
* `ChallengeSurvives`: what the end of the options makes of the argument or the
  file (`Taking`) is kept from there on (`Challenged`); a text that passes `is_hex`
  is decoded to its end, where it has no terminator in it.
* `SerialIsTold`: the digits of a number have its value (`HexDigitsAre`), a zero
  in front does not change the value, and two digits of modhex are those of the byte.
* `KeyIsStandard`. `DeriveInv` says of each byte of the key what was XORed into it:
  the sum of the standard so far in the present block, the whole sum in those
  before, and in those behind what lies behind the output once if the number of
  calls is odd and nothing if it is even; so that nothing is carried on to the
  next block when a block has an even number of calls or is the only one. It is
  for calls that stay within the array (`Clean`): salt and number fit into it, and
  so does a key of several blocks. Otherwise nothing is claimed.
* `ReleasesAreOrdered`. The invariant (`Passed`) is that what the loop has left
  behind is the same in both versions and ends with a whole number. The numbers
  are then the same so far (`NumbersSoFar`), by counting where numbers begin, and
  the next one decides if it differs (`NextDecides`): of two numbers without
  leading zeros the longer one is larger (`CountedShorter`), of two of one length
  the first digit that differs tells (`CountedLess`), which is what `Segment` does
  without a value (`SegmentOrders`). Where one version ends, the dot of the other
  is greater than the terminator (`EndedFirst`).

The assumptions are on constants' types and sizes (`FilesAssumption` says that an
imported file has the exported form), but for `Alone`, `Warm` and `NoneIsNoWrite`,
by which "nothing was written" is not a configuration. TLC evaluates those that
are named in a module in the runs that extend it.

Only model-checked: `Returns`, `CallsReturn` and the fairness of
`ImplementsContract`, since the provers do not treat `ENABLED`. Every invariant
of the passing runs is stated by a theorem.

## 5. Where code and documents disagree

Three disagreements have a run of their own:

* `errno_cold`: `tsd_init` is tested and set without a lock
  (`ykcore.c:407`). Two threads whose first use coincides make two keys; one of
  them looks its cell up under the other's key, gets NULL and dereferences it.
  `NEWS:332` claims thread safety for this code.
* `args_usb_mode`: `-1` and `-2` do not look at `usb_mode_seen`
  (`ykpers-args.c:328`), so `-m MODE -1` configures slot 1, although
  `ykpers-args.c:457` says that `-m` cannot be combined with other options.
  The other order is refused.
* `personalize_code`: `ykp_set_ndef_access_code` returns 0 for success
  (`ykpers.c:529`), `main` takes 0 for failure (`ykpersonalize.c:332`): `-n`
  with `-c` never writes.

Others were met while modelling. They have no run; where a passing property
would be violated by one, it leaves the case out or states what the code does, and
its comment says so:

* Behind `-2 -n A` a second `-n` or `-t` no longer finds the second slot's
  command and falls back to the first slot's record (`ykpers-args.c:438`), although
  it "must be used with -1 or -2" (`ykpers-args.c:76`). `CommandIsKept` says so.
* `-S` without a map does not look at `device_info_seen` (`ykpers-args.c:728`), so
  that `-D INFO -S` writes a scan map, although `ykpers-args.c:729` says that `-S`
  cannot be combined with other options. With a map it is refused. `CommandIsKept`
  says so.
* `-n URI -1` reprograms slot 1 with a random key (`ykpers-args.c:328`), and
  `-n` without a slot writes the first slot's record; `CommandIsKept` says so.
* What `pthread_setspecific` returns is ignored (`ykcore.c:420`, `ykpers.c:1213`).
  Where it fails for lack of memory `tsd_init` stays 1, `ykcore.c:424` returns
  NULL and the macro dereferences it. `NullOnlyIfUnset` leaves that call out.
* When one allocation fails, all threads share `nothread_errno` from then on
  (`ykcore.c:418`); `ErrnoIsOwn` is stated without failures.
* The message before the question is the same for both NDEF records and names
  no slot (`ykpersonalize.c:269`): the record of `-2 -n A -n B`, which goes to the
  first slot, is shown like one for the second. `ShownIsWritten` says so.
* `-z` after an option is accepted (`ykpers-args.c:381`), against the message
  at `ykpers-args.c:535`.
* The import follows the choice of the key and the check of the update mask
  (`ykpersonalize.c:253`): a file of another mode leaves a key of the wrong
  length, and its flags escape "Unallowed cfg flags with update."
  (`ykpers-args.c:775`). `ChecksHoldWithoutFile` is stated without a file.
* The result of `set_oath_id` is ignored (`ykpersonalize.c:165`).
* `-z -u -1` asks about slot 0 (`ykpersonalize.c:283`); `ShownIsWritten`
  leaves that deletion out, and looks at those without `-u`.
* A write to a blank key succeeds whether or not it was made
  (`ykcore.c:252`); `WriteIsTold` leaves a key that is blank afterwards out.
* A process that closes the key gives the keyboard driver back while another
  has it open (`ykcore_libusb-1.0.c:227`), and an open may go on after a failed
  step (`ykcore_libusb-1.0.c:205`): `HandleIsUsable` leaves such handles out. A
  process that is killed, or that ends by `exit(1)` for a file it cannot open
  (`ykpersonalize.c:244`), does not give it back: `DriverComesBack` leaves these
  devices out.
* A key that cannot be opened is reported as "no yubikey present", for the
  second vendor's search overwrites the error (`ykcore.c:91`).
* The index counts the keys of each vendor apart (`ykcore.c:90`), so the
  second of two keys of different vendors cannot be opened by `-N`.
* An OATH-HOTP seed other than 0 and 16 is exported as random, which no import
  takes (`ykpers-json.c:289`); `SavedIsLoaded` says so.
* The import ignores what the setters return (`ykpers-json.c:258`): a mode or an
  option that the firmware lacks is left out silently. `SavedIsLoaded` is stated
  for those it has.
* `ykp_configure_for` puts the default flags in before it asks whether the
  firmware has the slot, and leaves them when it fails (`ykpers.c:237`).
* Capabilities are read without a checksum (`ykcore.c:199`, section 2).
* The status byte of an NDEF text in UTF-16 is masked with `&= 0x80`
  (`ykpers.c:473`), which gives 0: neither the flag nor the length of the
  language is left. `ReadBack` leaves UTF-16 out.
* `ykp_ndef_as_text` tests the size without the terminator and writes it one
  byte behind its place (`ykpers.c:496`, `504`); a buffer has to have two bytes to
  spare, and the byte after the text is left as it was.
* PBKDF2 XORs each output over all bytes that are left, with what lies behind it
  in its buffer (`ykpbkdf2.c:89`). With an even number of iterations, or a key
  of one block, it comes to nothing; the callers' 1024 is even.
  `DerivedIsStandard` is stated for these.
* `block` has 256 bytes (`ykpbkdf2.c:71`). A salt of 253 to 256 passes the test of
  line 57, and lines 77 to 80 write the block's number behind the array; a key of
  more than 256 bytes is XORed with what lies behind it, `iteration` and `i` among
  it, which need not cancel (line 90).
  `DerivedIsStandard` leaves both out. The one caller has a salt of at most 8 bytes
  and a key of one block (`ykpers.c:397`).
* The passphrase ends at its first byte 0 (`ykpbkdf2.c:84`): vector 6 of RFC 6070,
  which has one, "breaks though to us running strlen() on the password", and is
  disabled (`tests/test_ykpbkdf2.c:257`). The standard of `DerivedIsStandard` is
  that of the passphrase up to there.
* Versions with leading zeros are compared in two ways (`ykpers-version.c:88`);
  `ReleasesByNumber` is about releases without such zeros.
* `-t -x` decodes the bytes of the time as text (`ykchalresp.c:187`): their first
  byte is zero, so that a challenge of zeros is sent. `ChallengeIsWhole` leaves
  it out.
* With the bit of OATH_HOTP the listing shows six bytes of the fixed part,
  however long it is (`ykpers.c:985`); `ListingIsWhole` says so. It is put
  together with `snprintf` and a test for `> len` (`ykpers.c:987`), where `>= len`
  would be the test for a line cut off.

## 6. What is not modelled, and why

* The text of files and of listings, and checksums, are abstracted to what the
  properties tell apart.
* `ykstatus.c` and the setters of `YK_DEVICE_CONFIG` read or assign one field.
* The other USB backends have the interface of the modelled one; the build
  without JSON has two functions that fail.
* HMAC and SHA are vendored; `Pbkdf2` takes them for a free function.
* The libusb context, `ykl_errno` and `libusb_inited` are shared by the threads
  of a process (`ykcore_libusb-1.0.c:43`). No document says that threads may
  share them, so there is no promise to check.
* `ykpersonalize.c:253` reads up to 1024 bytes that are then taken for a string
  without a terminator: a matter of C's memory. The import of any file is
  allowed to fail.

## 7. Plan

Built, in this order: `KeyWait` and its contract, `KeyProtocol`, `UsbDevice`,
`ThreadErrno`, `KeyConfig` and `ConfigSession`, `ArgsToConfig`, `Personalize`,
`NdefRecord`, `Pbkdf2`, `VersionCompare`, `ConfigFields`, `Tools`; the proofs in
the order of section 4.

What is left: the hazards that no property covers, each with its reason in
`PROJECT.json`, and the liveness named at the end of section 4, which stays with
TLC.
