--------------------------- MODULE ConfigSession ---------------------------
(***************************************************************************)
(* An application that puts a configuration together with the calls of     *)
(* ykpers.h, in any order, saving and loading it: the states that          *)
(* YKP_CONFIG can come to for a key of a given firmware.                   *)
(***************************************************************************)
EXTENDS KeyConfig

CONSTANTS
    Versions,     \* the firmwares
    Targets,      \* the commands that the application asks for
    Names,        \* the flags that the application sets and clears
    Imfs,         \* the seeds that it gives to ykp_set_oath_imf
    Files         \* the files that it loads

ASSUME NamesAssumption ==
    /\ Versions \subseteq [major : Nat, minor : Nat, build : Nat]
    /\ Names \subseteq {f.name : f \in Flags}
    /\ Targets \subseteq Commands
    /\ Imfs \subseteq Nat
    /\ Files \subseteq Saves

VARIABLES c       \* the configuration

\* ykp_alloc, and ykp_configure_version with the status of the key.
Init == \E v \in Versions : c = EmptyConfig(v, "none")

\* ykp_configure_command.
ConfigureCommand(command) ==
    /\ Supported(c.version, command)
    /\ c' = [c EXCEPT !.command = command]

\* ykp_configure_for: the default flags come first, and stay when the command
\* is refused.
DefaultFlags(slot) ==
    IF slot = 1 THEN [tkt |-> {5}, cfg |-> {}, ext |-> {}]
                ELSE [tkt |-> {5}, cfg |-> {4, 5, 6, 7}, ext |-> {}]
ConfigureFor(slot) ==
    LET command == IF slot = 1 THEN "CONFIG" ELSE "CONFIG2"
        flags == DefaultFlags(slot) IN
    c' = [c EXCEPT !.tkt = flags.tkt, !.cfg = flags.cfg, !.ext = flags.ext,
                   !.imf = 0,
                   !.command = IF Supported(c.version, command)
                               THEN command ELSE @]

\* ykp_set_tktflag_X, ykp_set_cfgflag_X, ykp_set_extflag_X.
SetFlag(name, state) ==
    /\ CanSet(c, FlagNamed[name])
    /\ c' = Put(c, FlagNamed[name], state)

SetOathImf(seed) == c' = SetImf(c, seed)

Clear == c' = ClearConfig(c)

\* ykp_import_config in the YCFG format.
Import(file) == c' = ImportJson(c, file).c

Next ==
    \/ \E command \in Targets : ConfigureCommand(command)
    \/ \E slot \in {1, 2} : ConfigureFor(slot)
    \/ \E name \in Names, state \in BOOLEAN : SetFlag(name, state)
    \/ \E seed \in Imfs : SetOathImf(seed)
    \/ Clear
    \/ \E file \in Files : Import(file)

Spec == Init /\ [][Next]_c

-----------------------------------------------------------------------------
(* Properties.                                                             *)

\* ykp_get_supported_key_length and the mode are worked out by different
\* tests on shared bits, and agree: 20 bytes for OATH-HOTP and HMAC
\* challenge-response, 16 for the others.
KeyFitsMode == KeyLength(c) = 20 <=> ModeOf(c) \in {"OATH_HOTP", "CHAL_HMAC"}

\* "make sure we don't show more than one cfgFlag per value" (ykpers.c:1070):
\* the listing a user confirms names no bit twice.
ListedOnce ==
    \A i, j \in 1 .. Len(Listing(c)) :
        i # j => Listing(c)[i].bits \cap Listing(c)[j].bits = {}

\* The flags that ImportJson sets to enter the mode of c.
ModeFlags(d) ==
    CASE ModeOf(d) = "OATH_HOTP" ->
            {FlagNamed["OATH_HOTP"]}
            \cup (IF HasNamed(d, "OATH_HOTP8") THEN {FlagNamed["OATH_HOTP8"]} ELSE {})
      [] ModeOf(d) \in ChalResp -> {FlagNamed["CHAL_RESP"], FlagNamed[ModeOf(d)]}
      [] ModeOf(d) = "STATIC_TICKET" -> {FlagNamed["STATIC_TICKET"]}
      [] ModeOf(d) = "OTP_YUBICO" -> {}

\* What is saved can be loaded again into a cleared configuration for the
\* same key, with the same mode, key length, options, digits and seed, so
\* that saving it again gives the same file: ykp_export_config and
\* ykp_import_config in the YCFG format.  Not so for an OATH-HOTP seed other
\* than 0 and 16, which is saved as random, nor where the flags amount to a
\* mode or an option that the firmware lacks: the setters refuse each flag by
\* its name, and shared bits can still add up to it.
SavedIsLoaded ==
    LET file == ExportJson(c)
        back == ImportJson(EmptyConfig(c.version, c.command), file)
        legal == \A f \in Options(c) \cup ModeFlags(c) : CanSet(c, f) IN
    /\ file.mode = "OATH_HOTP" /\ c.imf > 1 <=> ~back.ok
    /\ back.ok /\ legal => /\ ModeOf(back.c) = ModeOf(c)
                           /\ KeyLength(back.c) = KeyLength(c)
                           /\ Options(back.c) = Options(c)
                           /\ file.mode = "OATH_HOTP" => ExportJson(back.c) = file
=============================================================================
