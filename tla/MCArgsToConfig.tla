--------------------------- MODULE MCArgsToConfig ---------------------------
(***************************************************************************)
(* ArgsToConfig for a firmware without a second slot, one with NDEF and    *)
(* everything but device information, and one with all of it.              *)
(***************************************************************************)
EXTENDS ArgsToConfig

MCVersions == {Version(2, 1, 4), Version(3, 0, 1), Version(5, 1, 0)}
MCNames == {"APPEND_CR", "OATH_HOTP", "CHAL_RESP", "CHAL_HMAC", "CHAL_YUBICO",
            "MAN_UPDATE"}
=============================================================================
