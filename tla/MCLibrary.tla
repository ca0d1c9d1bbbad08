----------------------------- MODULE MCLibrary -----------------------------
(* The parts of the repository that no key, file or thread comes into: the   *)
(* NDEF record, the derived key, the order of versions, the bytes of a       *)
(* configuration, and the two programs that read.  They share no state, so a *)
(* behaviour is one of one of them, with the others at rest where they began. *)
EXTENDS NdefRecord, Pbkdf2, VersionCompare, ConfigFields, Tools

VARIABLE part        \* the part that moves

libraryVars == <<part, ndefVars, pbkdf2Vars, versionVars, fieldVars, toolVars>>

\* An abbreviation, the beginnings of it behind it and, as urn: is before
\* urn:epc:, in front of another.
MCIdentifiers == << <<1, 2>>, <<1>>, <<2>>, <<2, 1>> >>
MCTexts == {<<>>, <<1>>, <<2>>, <<2, 1>>, <<1, 2, 2>>, <<3, 1, 2>>, <<1, 2, 1, 2>>,
            <<1, 2, 1, 2, 1>>, <<3, 1, 1, 2, 2>>}
MCLangs == {<<>>, <<3>>, <<3, 1>>}
MCCodes == {[i \in 1 .. CodeSize |-> v] : v \in {8, 9}}

\* Every string of up to four of ".", "0", "1", "9", and three releases.
MCVersions == UNION {[1 .. n -> {46, 48, 49, 57}] : n \in 0 .. 4}
              \cup {<<49, 46, 57, 46, 48>>, <<49, 46, 50, 48, 46, 48>>, <<49, 46, 50, 48>>}

\* n different bytes, the first of them told by v.
Numbered(v, n) == [i \in 1 .. n |-> 10 * v + i]
MCFirmwares == {Version(2, 1, 4), Version(5, 1, 0)}
MCModeNames == {"OATH_HOTP", "CHAL_RESP", "CHAL_HMAC", "CHAL_YUBICO"}
MCInputs == {Numbered(1, 1), Numbered(2, 2), Numbered(2, 3), Numbered(2, 4)}
MCKeys == {Numbered(v, n) : v \in {3, 4}, n \in {2, 3}}
MCFactors == {16 * 258, 65536 * 16}

Upto(n) == UNION {[1 .. k -> {Nul, Hex, Other}] : k \in 0 .. n}
Row(n) == [i \in 1 .. n |-> Hex]
MCContents == Upto(3)
MCArguments == {string \in Upto(2) : Nul \notin ToSet(string)} \cup {Row(n) : n \in 3 .. 6}
MCTimeText == <<Nul, Other>>
MCInfos == {"serial_dec", "serial_modhex", "serial_hex", "version", "pid", "capa"}
MCSerials == {0, 7, 16, 255, 256, 2748, 4096, 32767, 32768, 65535}

LibraryInit ==
    /\ part \in {"ndef", "pbkdf2", "version", "fields", "tools"}
    /\ NdefInit
    /\ Pbkdf2Init /\ (part # "pbkdf2" =>
          asked = [salt |-> 0, iterations |-> 1, length |-> 1])
    /\ IF part = "version" THEN VersionInit
       ELSE pair = <<<<>>, <<>>>> /\ rest = pair /\ order = Open
    /\ FieldsInit /\ (part # "fields" => flags.version = Version(5, 1, 0))
    /\ ToolsInit /\ (part # "tools" => tool = "ykinfo" /\ serial = 0)

LibraryNext ==
    \/ part = "ndef" /\ NdefNext
       /\ UNCHANGED <<part, pbkdf2Vars, versionVars, fieldVars, toolVars>>
    \/ part = "pbkdf2" /\ Pbkdf2Next
       /\ UNCHANGED <<part, ndefVars, versionVars, fieldVars, toolVars>>
    \/ part = "version" /\ VersionNext
       /\ UNCHANGED <<part, ndefVars, pbkdf2Vars, fieldVars, toolVars>>
    \/ part = "fields" /\ FieldsNext
       /\ UNCHANGED <<part, ndefVars, pbkdf2Vars, versionVars, toolVars>>
    \/ part = "tools" /\ ToolsNext
       /\ UNCHANGED <<part, ndefVars, pbkdf2Vars, versionVars, fieldVars>>

LibrarySpec == LibraryInit /\ [][LibraryNext]_libraryVars
=============================================================================
