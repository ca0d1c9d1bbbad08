----------------------------- MODULE KeyConfig -----------------------------
(***************************************************************************)
(* YKP_CONFIG, the configuration that libykpers puts together before it is *)
(* written: its flags, what each firmware takes of them, the mode they     *)
(* amount to, and what is saved of it in a file.  From ykpers.c,           *)
(* ykpers_lcl.c and ykpers-json.c.                                         *)
(*                                                                         *)
(* A flag word is the set of the numbers of its bits.  Several flags share *)
(* a bit, and some are two bits: which flag a bit stands for depends on    *)
(* the mode, and that on other bits.                                       *)
(***************************************************************************)
EXTENDS Integers, Sequences, FiniteSets, SequencesExt

Version(major, minor, build) ==
    [major |-> major, minor |-> minor, build |-> build]

Commands == {"none", "CONFIG", "CONFIG2", "UPDATE1", "UPDATE2", "SWAP",
             "NDEF", "NDEF2", "DEVICE_CONFIG", "SCAN_MAP",
             "YK4_SET_DEVICE_INFO"}

-----------------------------------------------------------------------------
(* What a firmware can do.                                                 *)

\* major.minor or later.
AtLeast(v, major, minor) ==
    v.major > major \/ (v.major = major /\ v.minor >= minor)

\* The NEO Beta is versioned from 2.1.4.
IsNeo(v) == v.major = 2 /\ v.minor = 1 /\ v.build >= 4

\* vcheck_v21_or_greater: the NEO Beta is none.
IsV21OrGreater(v) == AtLeast(v, 2, 1) /\ ~IsNeo(v)

\* The capability_has functions.
Has(v, capability) ==
    CASE capability = "ticket_mods"   -> TRUE
      [] capability = "hidtrig"       -> v.major = 1
      [] capability = "ticket_first"  -> v.major = 1
      [] capability = "static"        -> ~(IsNeo(v) /\ v.build < 5)
      [] capability = "static_extras" -> v.major > 1 /\ ~(IsNeo(v) /\ v.build < 5)
      [] capability = "slot_two"      -> v.major > 1 /\ ~IsNeo(v)
      [] capability = "chal_resp"     -> AtLeast(v, 2, 2)
      [] capability = "oath_imf"      -> AtLeast(v, 2, 2) \/ (IsNeo(v) /\ v.build > 6)
      [] capability = "serial_api"    -> AtLeast(v, 2, 2) \/ IsNeo(v)
      [] capability = "serial"        -> AtLeast(v, 2, 2)
      [] capability = "oath"          -> IsV21OrGreater(v) \/ IsNeo(v)
      [] capability = "update"        -> AtLeast(v, 2, 3)
      [] capability = "led_inv"       -> AtLeast(v, 2, 4) /\ ~(v.major = 3 /\ v.minor = 0)

\* The commands that ykp_configure_command lets a firmware have.
Supported(v, command) ==
    CASE command = "CONFIG" -> TRUE
      [] command = "CONFIG2" -> v.major >= 2 /\ ~IsNeo(v)
      [] command \in {"UPDATE1", "UPDATE2", "SWAP"} -> AtLeast(v, 2, 3)
      [] command = "DEVICE_CONFIG" -> v.major \in 3 .. 5
      [] command = "SCAN_MAP" -> v.major >= 3
      [] command = "YK4_SET_DEVICE_INFO" -> v.major >= 5
      [] command = "NDEF2" -> v.major \in {3, 5}
      [] command = "NDEF" -> IsNeo(v) \/ v.major = 3 \/ v.major >= 5
      [] OTHER -> FALSE

-----------------------------------------------------------------------------
(* The flags: _ticket_flags_map, _config_flags_map, _extended_flags_map,   *)
(* with the bits of ykdef.h.  The setters check the capability of the map. *)

Modes == {"OTP_YUBICO", "STATIC_TICKET", "OATH_HOTP", "CHAL_HMAC",
          "CHAL_YUBICO"}
ChalResp == {"CHAL_YUBICO", "CHAL_HMAC"}
Output == {"STATIC_TICKET", "OTP_YUBICO", "OATH_HOTP"}

Flag(word, name, bits, needs, modes, json) ==
    [word |-> word, name |-> name, bits |-> bits, needs |-> needs,
     modes |-> modes, json |-> json]

\* A flag of an output mode that every firmware has.
Ticket(word, name, bit) == Flag(word, name, {bit}, "ticket_mods", Output, TRUE)

TicketFlags == <<
    Ticket("tkt", "TAB_FIRST", 0),
    Ticket("tkt", "APPEND_TAB1", 1),
    Ticket("tkt", "APPEND_TAB2", 2),
    Ticket("tkt", "APPEND_DELAY1", 3),
    Ticket("tkt", "APPEND_DELAY2", 4),
    Ticket("tkt", "APPEND_CR", 5),
    Flag("tkt", "PROTECT_CFG2", {7}, "slot_two", Modes, TRUE),
    Flag("tkt", "OATH_HOTP", {6}, "oath", {"OATH_HOTP"}, FALSE),
    Flag("tkt", "CHAL_RESP", {6}, "chal_resp", ChalResp, FALSE) >>

ConfigFlags == <<
    Flag("cfg", "CHAL_YUBICO", {5}, "chal_resp", {"CHAL_YUBICO"}, FALSE),
    Flag("cfg", "CHAL_HMAC", {1, 5}, "chal_resp", {"CHAL_HMAC"}, FALSE),
    Flag("cfg", "HMAC_LT64", {2}, "chal_resp", {"CHAL_HMAC"}, TRUE),
    Flag("cfg", "CHAL_BTN_TRIG", {3}, "chal_resp", ChalResp, TRUE),
    Flag("cfg", "OATH_HOTP8", {1}, "oath", {"OATH_HOTP"}, FALSE),
    Flag("cfg", "OATH_FIXED_MODHEX1", {4}, "oath", {"OATH_HOTP"}, FALSE),
    Flag("cfg", "OATH_FIXED_MODHEX2", {6}, "oath", {"OATH_HOTP"}, FALSE),
    Flag("cfg", "OATH_FIXED_MODHEX", {4, 6}, "oath", {"OATH_HOTP"}, FALSE),
    Ticket("cfg", "SEND_REF", 0),
    Flag("cfg", "TICKET_FIRST", {1}, "ticket_first", Output, FALSE),
    Ticket("cfg", "PACING_10MS", 2),
    Ticket("cfg", "PACING_20MS", 3),
    Flag("cfg", "ALLOW_HIDTRIG", {4}, "hidtrig", Output, FALSE),
    Flag("cfg", "STATIC_TICKET", {5}, "static", {"STATIC_TICKET"}, TRUE),
    Flag("cfg", "SHORT_TICKET", {1}, "static_extras", Output, TRUE),
    Flag("cfg", "STRONG_PW1", {4}, "static_extras", {"STATIC_TICKET"}, TRUE),
    Flag("cfg", "STRONG_PW2", {6}, "static_extras", {"STATIC_TICKET"}, TRUE),
    Flag("cfg", "MAN_UPDATE", {7}, "static_extras", {"STATIC_TICKET"}, TRUE) >>

ExtendedFlags == <<
    Flag("ext", "SERIAL_BTN_VISIBLE", {0}, "serial", Modes, TRUE),
    Flag("ext", "SERIAL_USB_VISIBLE", {1}, "serial", Modes, TRUE),
    Flag("ext", "SERIAL_API_VISIBLE", {2}, "serial_api", Modes, TRUE),
    Flag("ext", "USE_NUMERIC_KEYPAD", {3}, "update", Modes, TRUE),
    Flag("ext", "FAST_TRIG", {4}, "update", Modes, TRUE),
    Flag("ext", "ALLOW_UPDATE", {5}, "update", Modes, TRUE),
    Flag("ext", "DORMANT", {6}, "update", Modes, TRUE),
    Flag("ext", "LED_INV", {7}, "led_inv", Modes, TRUE) >>

Flags == ToSet(TicketFlags) \cup ToSet(ConfigFlags) \cup ToSet(ExtendedFlags)
FlagNamed == [name \in {f.name : f \in Flags} |->
                CHOOSE f \in Flags : f.name = name]

-----------------------------------------------------------------------------
(* The configuration.  imf: the moving factor's seed over 16, in the last  *)
(* two bytes of the uid.  Keys and identities are left out.                *)

EmptyConfig(v, command) ==
    [tkt |-> {}, cfg |-> {}, ext |-> {}, imf |-> 0,
     command |-> command, version |-> v]

\* The setters: the flag is set or cleared if the firmware has it.
CanSet(c, f) == Has(c.version, f.needs)
Put(c, f, state) ==
    [c EXCEPT ![f.word] = IF state THEN @ \cup f.bits ELSE @ \ f.bits]
SetIfCan(c, f) == IF CanSet(c, f) THEN Put(c, f, TRUE) ELSE c
IsSet(c, f) == f.bits \subseteq c[f.word]

SetNamed(c, name) == SetIfCan(c, FlagNamed[name])
HasNamed(c, name) == IsSet(c, FlagNamed[name])

\* ykp_clear_config.
ClearConfig(c) == [c EXCEPT !.tkt = {}, !.cfg = {}, !.ext = {}]

\* The mode that the flags amount to, as both exports work it out.
ModeOf(c) ==
    IF HasNamed(c, "OATH_HOTP")
    THEN CASE HasNamed(c, "CHAL_HMAC") -> "CHAL_HMAC"
           [] ~HasNamed(c, "CHAL_HMAC") /\ HasNamed(c, "CHAL_YUBICO")
                -> "CHAL_YUBICO"
           [] OTHER -> "OATH_HOTP"
    ELSE IF HasNamed(c, "STATIC_TICKET") THEN "STATIC_TICKET" ELSE "OTP_YUBICO"

\* Mutant of KeyLength: challenge-response takes no 20 bytes.
KeyLengthOfHotp(c) ==
    IF HasNamed(c, "OATH_HOTP") /\ ~HasNamed(c, "CHAL_YUBICO") THEN 20 ELSE 16

\* ykp_get_supported_key_length.
KeyLength(c) ==
    IF \/ HasNamed(c, "OATH_HOTP") /\ ~HasNamed(c, "CHAL_YUBICO")
       \/ HasNamed(c, "CHAL_RESP") /\ HasNamed(c, "CHAL_HMAC")
    THEN 20 ELSE 16

\* TKTFLAG_UPDATE_MASK, CFGFLAG_UPDATE_MASK and EXTFLAG_UPDATE_MASK.
AllowedInUpdate(c) ==
    c.tkt \subseteq 0 .. 5 /\ c.cfg \subseteq {2, 3} /\ c.ext \subseteq 0 .. 7

-----------------------------------------------------------------------------
(* Saving and loading.                                                     *)

\* _ykp_legacy_export_config: the config flags shown.  A bit that was shown
\* is not shown again under another name.
Shown(c, f) == /\ Has(c.version, f.needs)
               /\ ModeOf(c) \in f.modes

\* Mutant of Listing: bits that were shown are not taken off.
ListingAgain(c) ==
    SelectSeq(ConfigFlags, LAMBDA f : Shown(c, f) /\ IsSet(c, f))

Listing(c) ==
    LET n == Len(ConfigFlags)
        loop[i \in 0 .. n] ==
            IF i = 0 THEN [flags |-> <<>>, left |-> c.cfg]
            ELSE LET shown == loop[i - 1]
                     f == ConfigFlags[i] IN
                 IF Shown(c, f) /\ f.bits \subseteq shown.left
                 THEN [flags |-> Append(shown.flags, f), left |-> shown.left \ f.bits]
                 ELSE shown
    IN loop[n].flags

\* What is saved of a flag: json_text and a boolean, in the modes of the flag.
Options(c) ==
    {f \in Flags : f.json /\ ModeOf(c) \in f.modes /\ IsSet(c, f)}

\* Mutant of ExportJson: six digits whatever the configuration says.
ExportJsonSix(c) ==
    [mode    |-> ModeOf(c),
     target  |-> IF c.command \in {"CONFIG", "CONFIG2"} THEN c.command ELSE "none",
     options |-> {f \in Options(c) : f.bits # {1}},
     digits  |-> 6,
     random  |-> c.imf \notin {0, 1},
     seed    |-> IF c.imf \in {0, 1} THEN 16 * c.imf ELSE 0]

\* _ykp_json_export_cfg, without what no import reads (scope, prefix,
\* fixedModhex, protection).  digits, random and seed are there for OATH-HOTP.
ExportJson(c) ==
    [mode    |-> ModeOf(c),
     target  |-> IF c.command \in {"CONFIG", "CONFIG2"} THEN c.command ELSE "none",
     options |-> Options(c),
     digits  |-> IF HasNamed(c, "OATH_HOTP8") THEN 8 ELSE 6,
     random  |-> c.imf \notin {0, 1},
     seed    |-> IF c.imf \in {0, 1} THEN 16 * c.imf ELSE 0]

\* ykp_set_oath_imf.
SetImf(c, seed) ==
    IF Has(c.version, "oath_imf") /\ seed <= 65535 * 16 /\ seed % 16 = 0
    THEN [c EXCEPT !.imf = seed \div 16] ELSE c

\* The flags that make the mode.
EnterMode(c, file) ==
    CASE file.mode = "OATH_HOTP" ->
            LET d == SetNamed(c, "OATH_HOTP")
                e == IF file.digits = 8 THEN SetNamed(d, "OATH_HOTP8") ELSE d
            IN IF file.random THEN e ELSE SetImf(e, file.seed)
      [] file.mode = "CHAL_HMAC" -> SetNamed(SetNamed(c, "CHAL_RESP"), "CHAL_HMAC")
      [] file.mode = "CHAL_YUBICO" -> SetNamed(SetNamed(c, "CHAL_RESP"), "CHAL_YUBICO")
      [] file.mode = "STATIC_TICKET" -> SetNamed(c, "STATIC_TICKET")
      [] file.mode = "OTP_YUBICO" -> c

\* set_json_value for each flag of the maps; a setter that fails is ignored.  An
\* option that is false is left alone, so that bits are only ever added.
Taken(c, file, word) ==
    UNION {f.bits : f \in {g \in Flags \cap file.options :
                            /\ g.word = word /\ g.json /\ file.mode \in g.modes
                            /\ CanSet(c, g)}}
TakeOptions(c, file) ==
    [c EXCEPT !.tkt = @ \cup Taken(c, file, "tkt"),
              !.cfg = @ \cup Taken(c, file, "cfg"),
              !.ext = @ \cup Taken(c, file, "ext")]

\* What an import reads of a file: an unknown mode is OTP_YUBICO, and a target
\* other than the two slots is refused before anything is changed.
Saves == [mode : Modes, target : {"none", "CONFIG", "CONFIG2"}, options : SUBSET Flags,
          digits : Int, random : BOOLEAN, seed : Nat]

\* The command of the file's target: taken over if there is none yet.
ImportTarget(c, file) ==
    IF c.command = "none" /\ Supported(c.version, file.target)
    THEN [c EXCEPT !.command = file.target] ELSE c

\* _ykp_json_import_cfg: the result and the configuration it leaves.  A
\* random seed ends it half way, with the mode entered.
ImportJson(c, file) ==
    LET d == ImportTarget(c, file)
        e == EnterMode(d, file) IN
    CASE file.target # "none" /\ c.command \notin {"none", file.target}
            -> [ok |-> FALSE, c |-> c]
      [] ~(file.target # "none" /\ c.command \notin {"none", file.target})
            /\ file.mode = "OATH_HOTP" /\ file.random
            -> [ok |-> FALSE, c |-> e]
      [] OTHER -> [ok |-> TRUE, c |-> TakeOptions(e, file)]
=============================================================================
