--------------------------- MODULE MCPersonalize ---------------------------
(***************************************************************************)
(* Personalize for one firmware that has every command, with files of      *)
(* every mode, one of them random, which no import takes.                  *)
(***************************************************************************)
EXTENDS Personalize

MCVersions == {Version(5, 1, 0)}
MCNames == {"APPEND_CR", "OATH_HOTP"}
File(mode, target, options, random) ==
    [mode |-> mode, target |-> target, options |-> {FlagNamed[n] : n \in options},
     digits |-> 6, random |-> random, seed |-> 0]
MCFiles == {File("OTP_YUBICO", "CONFIG", {"APPEND_CR"}, FALSE),
            File("CHAL_HMAC", "none", {"HMAC_LT64"}, FALSE),
            File("STATIC_TICKET", "CONFIG2", {"STRONG_PW1"}, FALSE),
            File("OATH_HOTP", "none", {}, TRUE)}
=============================================================================
