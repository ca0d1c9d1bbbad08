---------------------------- MODULE ConfigFields ----------------------------
(***************************************************************************)
(* The bytes of YK_CONFIG: the fixed part, the uid, the key and the access *)
(* code, with the calls of ykpers.h that fill them in any order and the    *)
(* listing that shows them.  The last bytes of a long key, the moving      *)
(* factor of OATH-HOTP and the private identity share the uid.             *)
(***************************************************************************)
EXTENDS KeyConfig

CONSTANTS
    FixedSize,       \* FIXED_SIZE
    OathIdSize,      \* the bytes of an OATH token identifier, 6
    UidSize,         \* UID_SIZE
    KeySize,         \* KEY_SIZE
    TailSize,        \* KEY_SIZE_OATH - KEY_SIZE
    AccCodeSize,     \* ACC_CODE_SIZE
    Firmwares,       \* the versions
    ModeNames,       \* the flags that the application sets to choose a mode
    Inputs,          \* the byte strings given for the fixed part, uid and code
    Keys,            \* the byte strings given for keys
    Factors          \* the seeds given for the moving factor

\* The tail and the two bytes of the moving factor are all of the uid.
ASSUME FieldsAssumption ==
    /\ FixedSize \in Nat /\ OathIdSize \in 0 .. FixedSize
    /\ KeySize \in Nat \ {0} /\ AccCodeSize \in Nat
    /\ TailSize \in Nat \ {0} /\ UidSize = TailSize + 2
    /\ Firmwares \subseteq [major : Nat, minor : Nat, build : Nat]
    /\ ModeNames \subseteq DOMAIN FlagNamed
    /\ Inputs \cup Keys \subseteq Seq(0 .. 255) /\ Factors \subseteq Nat

VARIABLES
    flags,           \* the flag words and the version
    fixed, fixedSize, uid, secret, accCode,
    long,            \* history: the last long key, while nothing replaced it
    factor,          \* history: the last seed, likewise
    private          \* history: the last private identity, likewise

fieldVars == <<flags, fixed, fixedSize, uid, secret, accCode, long, factor, private>>

None == <<>>
Zeros(n) == [i \in 1 .. n |-> 0]
LongKey == KeySize + TailSize

\* ykp_alloc and ykp_configure_version.
FieldsInit ==
    /\ \E v \in Firmwares : flags = EmptyConfig(v, "none")
    /\ fixed = Zeros(FixedSize) /\ fixedSize = 0 /\ uid = Zeros(UidSize)
    /\ secret = Zeros(KeySize) /\ accCode = Zeros(AccCodeSize)
    /\ long = None /\ factor = None /\ private = None

-----------------------------------------------------------------------------
(* The calls.                                                              *)

Shorter(n, size) == IF n > size THEN size ELSE n

\* def_set_charfield: what is too long is cut off, the rest is zero.
Filled(field, input) ==
    [i \in DOMAIN field |-> IF i <= Len(input) THEN input[i] ELSE 0]

\* ykp_set_fixed.
SetFixed(input) ==
    /\ fixed' = Filled(fixed, input)
    /\ fixedSize' = Shorter(Len(input), FixedSize)
    /\ UNCHANGED <<flags, uid, secret, accCode, long, factor, private>>

\* ykp_set_uid: the tail of a key and the moving factor are gone.
SetUid(input) ==
    /\ uid' = Filled(uid, input)
    /\ private' = uid' /\ long' = None /\ factor' = None
    /\ UNCHANGED <<flags, fixed, fixedSize, secret, accCode>>

\* ykp_set_access_code.
SetAccCode(input) ==
    /\ accCode' = Filled(accCode, input)
    /\ UNCHANGED <<flags, fixed, fixedSize, uid, secret, long, factor, private>>

\* Mutant of WithTail: the whole uid is taken for the key's.
WithTailAlone(key) == [i \in DOMAIN uid |-> IF i <= TailSize THEN key[KeySize + i] ELSE 0]

\* The uid with the last bytes of a long key in it.
WithTail(key) == [i \in DOMAIN uid |-> IF i <= TailSize THEN key[KeySize + i] ELSE uid[i]]

\* Storing a key of either length.
Store(key) ==
    /\ secret' = SubSeq(key, 1, KeySize)
    /\ IF Len(key) = LongKey
       THEN uid' = WithTail(key) /\ long' = key /\ private' = None
       ELSE long' = None /\ UNCHANGED <<uid, private>>
    /\ UNCHANGED <<flags, fixed, fixedSize, accCode, factor>>

\* ykp_AES_key_from_hex, ykp_AES_key_from_raw, ykp_HMAC_key_from_hex and
\* ykp_HMAC_key_from_raw.  The caller chooses which, whatever the flags say;
\* a key in hex of another length is refused.
KeyFrom(key) == Len(key) \in {KeySize, LongKey} /\ Store(key)

\* ykp_AES_key_from_passphrase, for the length of the mode: of the bytes that
\* yk_pbkdf2 derives, if it is not out of random numbers or refused its salt.
KeyFromPassphrase(derived) ==
    \/ /\ Len(derived) = IF KeyLength(flags) = 20 THEN LongKey ELSE KeySize
       /\ Store(derived)
    \/ UNCHANGED fieldVars

\* ykp_set_oath_imf: a sixteenth of the seed, big-endian, behind the tail.
SetFactor(seed) ==
    LET imf == seed \div 16 IN
    /\ Has(flags.version, "oath_imf") /\ seed <= 65535 * 16 /\ seed % 16 = 0
    /\ uid' = [uid EXCEPT ![TailSize + 1] = imf \div 256, ![TailSize + 2] = imf % 256]
    /\ factor' = <<seed>> /\ private' = None
    /\ UNCHANGED <<flags, fixed, fixedSize, secret, accCode, long>>

\* The setters of the flags that make a mode, and ykp_clear_config, which
\* leaves every byte as it is.
ChooseMode ==
    /\ flags' \in {ClearConfig(flags)} \cup {SetNamed(flags, name) : name \in ModeNames}
    /\ UNCHANGED <<fixed, fixedSize, uid, secret, accCode, long, factor, private>>

\* ykp_configure_for: the whole structure is replaced.
ConfigureFor ==
    /\ flags' = [EmptyConfig(flags.version, "CONFIG") EXCEPT !.tkt = {5}]
    /\ fixed' = Zeros(FixedSize) /\ fixedSize' = 0 /\ uid' = Zeros(UidSize)
    /\ secret' = Zeros(KeySize) /\ accCode' = Zeros(AccCodeSize)
    /\ long' = None /\ factor' = None /\ private' = None

FieldsNext ==
    \/ \E input \in Inputs : SetFixed(input) \/ SetUid(input) \/ SetAccCode(input)
    \/ \E key \in Keys : KeyFrom(key) \/ KeyFromPassphrase(key)
    \/ \E seed \in Factors : SetFactor(seed)
    \/ ChooseMode \/ ConfigureFor

FieldsSpec == FieldsInit /\ [][FieldsNext]_fieldVars

-----------------------------------------------------------------------------
(* What is shown.                                                          *)

\* ykp_get_oath_imf.
Factor == IF Has(flags.version, "oath_imf")
          THEN 16 * (256 * uid[TailSize + 1] + uid[TailSize + 2]) ELSE 0

\* The moving factor is listed for every mode with the bit of OATH_HOTP, which
\* is that of CHAL_RESP too.
FactorListed == HasNamed(flags, "OATH_HOTP") /\ Has(flags.version, "oath_imf")

\* With that bit the fixed part is listed as a token identifier, as long as one.
FixedListed ==
    SubSeq(fixed, 1, IF HasNamed(flags, "OATH_HOTP") /\ fixedSize # 0
                     THEN OathIdSize ELSE fixedSize)

\* Mutant of KeyListed: the key as long as its field.
KeyListedShort == secret
KeyListed == IF KeyLength(flags) = 20 THEN secret \o SubSeq(uid, 1, TailSize) ELSE secret

\* _ykp_legacy_export_config: the fields of bytes.
LegacyListing ==
    [fixed |-> FixedListed,
     uid |-> IF KeyLength(flags) = 20 THEN None ELSE uid,
     key |-> KeyListed,
     imf |-> IF FactorListed THEN <<Factor>> ELSE None,
     accCode |-> accCode]

-----------------------------------------------------------------------------
(* Properties.                                                             *)

\* The uid is shared without harm: a long key and the moving factor keep their
\* bytes whichever was set first and however often, a key that is not a long one
\* leaves the private identity alone, and a fixed part that is replaced by a
\* shorter one leaves nothing behind.
FieldsKeepApart ==
    /\ long # None => secret \o SubSeq(uid, 1, TailSize) = long
    /\ factor # None => Factor = factor[1]
    /\ private # None => uid = private
    /\ \A i \in fixedSize + 1 .. FixedSize : fixed[i] = 0

\* The listing that the user agrees to leaves nothing of the fixed part, the uid
\* and the key out: they can be told from it, in every mode.  But with the bit of
\* OATH_HOTP a fixed part that is longer than a token identifier is cut off, and
\* a firmware without a moving factor keeps two bytes to itself when the key is a
\* long one.
ListingIsWhole ==
    LET listing == LegacyListing
        tail == SubSeq(listing.key, KeySize + 1, Len(listing.key)) IN
    /\ fixedSize <= OathIdSize \/ ~HasNamed(flags, "OATH_HOTP") =>
          SubSeq(listing.fixed, 1, fixedSize) = SubSeq(fixed, 1, fixedSize)
    /\ SubSeq(listing.key, 1, KeySize) = secret
    /\ CASE listing.uid # None -> listing.uid = uid
         [] listing.uid = None /\ listing.imf # None ->
              LET imf == listing.imf[1] \div 16 IN uid = tail \o <<imf \div 256, imf % 256>>
         [] listing.uid = None /\ listing.imf = None ->
              /\ tail = SubSeq(uid, 1, TailSize)
              /\ ~Has(flags.version, "oath_imf")
=============================================================================
