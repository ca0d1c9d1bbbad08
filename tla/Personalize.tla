---------------------------- MODULE Personalize ----------------------------
(***************************************************************************)
(* ykpersonalize: the command line (ArgsToConfig), the files, the question *)
(* to the user and the one write to the key, with every step that may      *)
(* fail and the status that the program ends with.                         *)
(***************************************************************************)
EXTENDS ArgsToConfig

CONSTANTS
    Files,        \* the files of -i that can be read, as ExportJson shows them
    None          \* nothing shown, nothing written

ASSUME FilesAssumption == Files \subseteq Saves

VARIABLES
    stage,        \* how far main is
    shown,        \* what the user is told before the question
    consent,      \* the questions that were answered with yes
    dangerous,    \* the USB mode of -m takes the OTP interface away
    written,      \* what the key was sent and took
    saved,        \* the configuration went to the file of -s
    failure       \* the step that failed

main == <<stage, shown, consent, dangerous, written, saved, failure>>
vars == <<args, main>>

MainInit ==
    /\ Init
    /\ stage = "open" /\ shown = None /\ consent = {}
    /\ dangerous \in BOOLEAN
    /\ written = None /\ saved = FALSE /\ failure = "none"

-----------------------------------------------------------------------------
(* Steps.                                                                  *)

Unread == UNCHANGED <<seen, wishes, typed, key, parse, given, slot, ndefs, asked>>
ArgsKept == UNCHANGED args
Quietly == UNCHANGED <<shown, consent, dangerous, written, saved>>

At(s) == stage = s
GoTo(s) == stage' = s /\ failure' = failure
Works(s) == GoTo(s) /\ Quietly

\* goto err, with the exit code as it stands or as it is set.
Stop(step) == stage' = "close" /\ failure' = step /\ Quietly
Fails(step) == Stop(step) /\ ArgsKept
FailsWith(step, code) == Stop(step) /\ exit_code' = code /\ UNCHANGED c /\ Unread

\* exit_code = 0; error = false.
Succeeds == stage' = "close" /\ failure' = failure /\ exit_code' = 0
            /\ UNCHANGED c /\ Unread

\* yk_init, yk_open_key, yk_get_status.
Open ==
    /\ At("open")
    /\ \/ Works("args") /\ ArgsKept
       \/ FailsWith("open", 1)

Args ==
    /\ At("args")
    /\ \/ parse = "reading" /\ Next /\ UNCHANGED main
       \/ parse = "accepted" /\ Works("ids") /\ ArgsKept
       \/ parse = "rejected" /\ Fails("args")

\* set_oath_id, whose result main ignores.  The identifier may not be one, and
\* the serial number may not be had.
SetOathId(d) ==
    LET e == SetNamed(d, "OATH_FIXED_MODHEX2") IN
    IF HasNamed(d, "OATH_HOTP") THEN SetNamed(e, "SERIAL_API_VISIBLE") ELSE d
Ids ==
    /\ At("ids")
    /\ \/ /\ {"access", "new_access"} \cap wishes # {}
          /\ FailsWith("access", 1)
       \/ /\ GoTo("files")
          /\ c' = IF "oath_id" \in wishes THEN SetOathId(c) ELSE c
          /\ exit_code' = exit_code /\ Unread
          /\ UNCHANGED <<shown, consent, dangerous, written, saved>>

\* -i and -s are opened before anything is read.  When the file of -s cannot
\* be opened the program ends there, with the key still open.
OpenFiles ==
    /\ At("files")
    /\ \/ Works("import") /\ ArgsKept
       \/ "in" \in wishes /\ FailsWith("files", 1)
       \/ /\ "out" \in wishes
          /\ stage' = "done" /\ failure' = "files" /\ exit_code' = 1
          /\ Quietly /\ UNCHANGED c /\ Unread

\* Mutant of Import: over the flags of the line.
ImportOver ==
    /\ At("import")
    /\ \/ "in" \notin wishes /\ Works("save") /\ ArgsKept
       \/ "in" \in wishes /\ Fails("import")
       \/ /\ "in" \in wishes /\ "ycfg" \in wishes
          /\ \E file \in Files : LET result == ImportJson(c, file) IN
               /\ result.ok
               /\ c' = result.c
          /\ exit_code' = exit_code /\ Unread /\ Works("save")

\* What fread left in the buffer may be no configuration, and is not
\* terminated; a file in the legacy format is never one.
Import ==
    /\ At("import")
    /\ \/ "in" \notin wishes /\ Works("save") /\ ArgsKept
       \/ "in" \in wishes /\ Fails("import")
       \/ /\ "in" \in wishes /\ "ycfg" \in wishes
          /\ \E file \in Files : LET result == ImportJson(ClearConfig(c), file) IN
               /\ result.ok
               /\ c' = result.c
          /\ exit_code' = exit_code /\ Unread /\ Works("save")

Save ==
    /\ At("save")
    /\ \/ "out" \notin wishes /\ Works("show") /\ ArgsKept
       \/ "out" \in wishes /\ Fails("save")
       \/ /\ "out" \in wishes /\ saved' = TRUE /\ Succeeds
          /\ UNCHANGED <<shown, consent, dangerous, written>>

-----------------------------------------------------------------------------
(* The question and the write.                                             *)

\* ykp_config_num: 0 for a command that configures no slot.
ConfigNum == CASE c.command = "CONFIG" -> 1
               [] c.command = "CONFIG2" -> 2
               [] c.command \notin SlotCommands -> 0

\* The slot that a command configures, updates or deletes; 0 for the others.
SlotOf(command) == CASE command \in {"CONFIG", "UPDATE1"} -> 1
                     [] command \in {"CONFIG2", "UPDATE2"} -> 2
                     [] command \notin SlotCommands \cup {"UPDATE1", "UPDATE2"} -> 0

\* Mutant of Message: the slot and its flags, also for what is no slot.
MessageOfSlot == [what |-> "configured", slot |-> ConfigNum, flags |-> Listing(c)]

\* What the message before the question says of the key.  The same is said of
\* both NDEF records, and a deletion asks ykp_config_num for its slot also when it
\* goes by an update.
Message ==
    LET Of(what, n, flags) == [what |-> what, slot |-> n, flags |-> flags] IN
    CASE c.command \in {"NDEF", "NDEF2"} -> Of("NDEF", 0, <<>>)
      [] c.command \notin {"NDEF", "NDEF2"} /\ SlotOf(c.command) = 0
            -> Of(c.command, 0, <<>>)
      [] SlotOf(c.command) # 0 /\ "zap" \in seen -> Of("deleted", ConfigNum, <<>>)
      [] c.command \in SlotCommands /\ "zap" \notin seen
            -> Of("configured", ConfigNum, Listing(c))
      [] c.command \in {"UPDATE1", "UPDATE2"} /\ "zap" \notin seen
            -> Of("updated", SlotOf(c.command), Listing(c))

Show ==
    /\ At("show") /\ shown' = Message /\ GoTo("ask") /\ ArgsKept
    /\ UNCHANGED <<consent, dangerous, written, saved>>

Agreed == exit_code' = 2

Ask ==
    /\ At("ask")
    /\ \/ "yes" \notin wishes /\ Fails("ask")
       \/ "yes" \notin wishes /\ Succeeds /\ Quietly
       \/ /\ consent' = consent \cup {"commit"} /\ GoTo("write")
          /\ Agreed /\ UNCHANGED c /\ Unread
          /\ UNCHANGED <<shown, dangerous, written, saved>>

\* Mutant of NoWrite: -d is not looked at.
NoWriteNot == FALSE
NoWrite == "dry_run" \in wishes

\* The NDEF record is put together and given the access code.  That call
\* returns 0 for success, and main takes 0 for a failure.
Construct ==
    \/ Fails("ndef")
    \/ "access" \in wishes /\ Fails("ndef_access")
    \/ "access" \notin wishes /\ Works("send") /\ ArgsKept

Warned == c.command = "DEVICE_CONFIG" /\ dangerous

Write ==
    /\ At("write")
    /\ \/ NoWrite /\ Succeeds /\ Quietly
       \/ ~NoWrite /\ c.command \in {"NDEF", "NDEF2"} /\ Construct
       \/ ~NoWrite /\ Warned /\ Works("warn") /\ ArgsKept
       \/ /\ ~NoWrite /\ ~Warned /\ c.command \notin {"NDEF", "NDEF2"}
          /\ Works("send") /\ ArgsKept

\* "really commit?", for a mode without OTP.
Warn ==
    /\ At("warn")
    /\ \/ "yes" \notin wishes /\ Fails("warn")
       \/ "yes" \notin wishes /\ Succeeds /\ Quietly
       \/ /\ consent' = consent \cup {"warning"} /\ GoTo("send") /\ ArgsKept
          /\ UNCHANGED <<shown, dangerous, written, saved>>

\* Mutant of Refusal: a write that fails goes unnoticed.
RefusalIgnored == Succeeds /\ Quietly
Refusal == Fails("send")

\* yk_write_command, yk_write_ndef2, yk_write_device_config, yk_write_scan_map,
\* yk_write_device_info: whether they tell the truth is KeyProtocol's affair.
Send ==
    /\ At("send")
    /\ \/ Refusal
       \/ /\ written' = [command |-> c.command, zap |-> "zap" \in seen, c |-> c]
          /\ Succeeds
          /\ UNCHANGED <<shown, consent, dangerous, saved>>

\* err: yk_close_key and yk_release, which may fail too.
Close ==
    /\ At("close") /\ GoTo("done") /\ Quietly
    /\ exit_code' \in {exit_code, 2} /\ UNCHANGED c /\ Unread

MainNext ==
    \/ Open \/ Args \/ Ids \/ OpenFiles \/ Import \/ Save \/ Show \/ Ask
    \/ Write \/ Warn \/ Send \/ Close

MainSpec == MainInit /\ [][MainNext]_vars

-----------------------------------------------------------------------------
(* Properties.                                                             *)

\* The key is written once the user agreed to it, twice for a USB mode that
\* shuts ykpersonalize out, never on a dry run, and never when a file was to be
\* written "instead of key" (ykpersonalize.1.adoc:37).
WrittenWithConsent ==
    written # None => /\ "commit" \in consent
                      /\ written.command = "DEVICE_CONFIG" /\ dangerous
                            => "warning" \in consent
                      /\ {"dry_run", "out"} \cap wishes = {}
                      /\ ~saved

\* What the user agreed to is what was sent, with a file read in between or not:
\* the slot that is configured or updated, with the flags as they were listed,
\* the slot that is deleted, or the other command.  Two commands are not told by
\* the message: which slot's NDEF record is written (so that -2 -n A -n B, which
\* writes the first slot's, is not noticed), and, with -z -u, which slot is
\* deleted, for it then speaks of slot 0.
ShownIsWritten ==
    LET n == SlotOf(written.command)
        What == IF written.command \in SlotCommands THEN "configured" ELSE "updated" IN
    written # None =>
        /\ n = 0 => shown.what = IF written.command = "NDEF2" THEN "NDEF"
                                 ELSE written.command
        /\ n # 0 /\ ~written.zap =>
              shown = [what |-> What, slot |-> n, flags |-> Listing(written.c)]
        /\ written.command \in SlotCommands /\ written.zap =>
              shown = [what |-> "deleted", slot |-> n, flags |-> <<>>]

\* What became of the write is told: any step of it that failed by exit code 2,
\* and an end without a failure is the end the user asked for, a key written, a
\* dry run or a no.
OutcomeIsTold ==
    stage = "done" =>
        /\ failure \in {"ndef", "ndef_access", "warn", "send"} => exit_code = 2
        /\ failure = "none" /\ consent # {} =>
              \/ written # None \/ "dry_run" \in wishes
              \/ "commit" \in consent /\ Warned /\ "warning" \notin consent

\* A file takes the place of the line: the flags that are written are those of
\* a file loaded into a cleared configuration, and no flag of the line is left.
FileReplacesTheLine ==
    written # None /\ "in" \in wishes =>
        \E file \in Files : LET d == ImportJson(ClearConfig(written.c), file).c IN
            <<d.tkt, d.cfg, d.ext>> = <<written.c.tkt, written.c.cfg, written.c.ext>>

\* What args_to_config made sure of still holds of what is written -- the key
\* fits the mode, an update sets no flag that it may not -- unless a file was
\* imported in between: main imports after these checks, and an imported mode
\* may want a key of another length.
ChecksHoldWithoutFile ==
    written # None /\ "in" \notin wishes =>
        /\ key # 0 => key = KeyLength(written.c)
        /\ written.command \in {"UPDATE1", "UPDATE2"} => AllowedInUpdate(written.c)

\* "failure to set ndef accesscode" (ykpersonalize.c:334) is said when it is
\* one: an NDEF record with an access code that the user agreed to, that could
\* be put together and that no transfer failed for, is written.
NdefCodeIsWritten ==
    stage = "done" /\ "commit" \in consent /\ "dry_run" \notin wishes
    /\ shown.what = "NDEF" /\ failure \notin {"ndef", "send"}
        => written # None
=============================================================================
