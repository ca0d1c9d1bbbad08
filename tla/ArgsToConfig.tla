---------------------------- MODULE ArgsToConfig ----------------------------
(***************************************************************************)
(* args_to_config: the command line of ykpersonalize, one argument at a    *)
(* time, turned into a configuration.  Which arguments go together is      *)
(* decided by what was seen before each of them, and a few tests at the    *)
(* end of the line.                                                        *)
(***************************************************************************)
EXTENDS KeyConfig

\* What a line may ask for besides: -i, -s, -fycfg, -c, -oaccess, -ofixed,
\* -ooath-id, -ouid, -y, -d.
Wishes == {"in", "out", "ycfg", "access", "new_access", "fixed", "oath_id",
           "uid", "yes", "dry_run"}

CONSTANTS
    Versions,     \* the firmwares
    Names,        \* the flags of -o
    Imfs,         \* the seeds of -ooath-imf=
    Asks,         \* the other arguments that the line may have
    MaxArgs       \* bounds the length of a line

ASSUME ArgsAssumption ==
    /\ Versions \subseteq [major : Nat, minor : Nat, build : Nat]
    /\ Names \subseteq DOMAIN FlagNamed
    /\ Imfs \subseteq Nat
    /\ Asks \subseteq Wishes
    /\ MaxArgs \in Nat

VARIABLES
    c,            \* cfg
    seen,         \* the locals slot_chosen, mode_chosen, ... and *zap
    wishes,       \* what else the line asks of the caller or of the key
    typed,        \* -a: the length of the key given, 0 without
    key,          \* the length of the key put into cfg, 0 before
    parse,        \* where args_to_config is
    exit_code,    \* *exit_code
    given,        \* the number of arguments taken
    slot,         \* history: the slot that -1 or -2 chose, 0 without
    ndefs,        \* history: how many -n and -t since then
    asked         \* history: the flags that -o set

args == <<c, seen, wishes, typed, key, parse, exit_code, given, slot, ndefs, asked>>

Seen == {"slot", "mode", "option", "swap", "update", "ndef", "usb_mode",
         "scan_map", "device_info", "zap"}
SlotCommands == {"CONFIG", "CONFIG2"}

\* ykp_alloc, then ykp_configure_version.
Init ==
    /\ \E v \in Versions : c = EmptyConfig(v, "none")
    /\ seen = {} /\ wishes = {} /\ typed = 0 /\ key = 0
    /\ parse = "reading" /\ exit_code = 0 /\ given = 0
    /\ slot = 0 /\ ndefs = 0 /\ asked = {}

-----------------------------------------------------------------------------
(* What an argument does: refused, or taken.                               *)

\* return 0: the caller drops the configuration.
Reject(code) ==
    /\ parse' = "rejected" /\ exit_code' = code
    /\ UNCHANGED <<c, seen, wishes, typed, key, slot, ndefs, asked>>

Take(d, now) ==
    /\ c' = d /\ seen' = seen \cup now
    /\ UNCHANGED <<typed, key, parse, exit_code>>
NothingElse == UNCHANGED <<wishes, slot, ndefs, asked>>

\* Mutant of SlotConflicts: a slot after a swap.
SlotConflictsNoSwap == {"slot", "option"}
SlotConflicts == {"slot", "option", "swap"}

\* What must not have been seen before an option.  -x refuses all but itself;
\* -S without a map does not look for the device information.
Conflicts(option) ==
    CASE option = "u"     -> {"slot", "swap", "ndef"}
      [] option = "slot"  -> SlotConflicts
      [] option = "x"     -> Seen \ {"mode", "swap"}
      [] option = "z"     -> {"swap", "update", "ndef", "usb_mode", "scan_map",
                                 "device_info"}
      [] option = "n"     -> Seen \ {"slot", "mode", "ndef"}
      [] option = "m"     -> Seen \ {"mode", "usb_mode"}
      [] option = "S"     -> Seen \ {"mode", "scan_map"}
      [] option = "S alone" -> Seen \ {"mode", "scan_map", "device_info"}
      [] option = "D"     -> Seen \ {"mode", "device_info"}

Refused(option) == Conflicts(option) \cap seen # {} /\ Reject(1)
Fits(option) == Conflicts(option) \cap seen = {}

\* ykp_configure_command: a command that the firmware lacks ends the line too,
\* with *exit_code left at 0.
Lacks(command) == ~Supported(c.version, command) /\ Reject(0)
Command(d, command, now) == /\ Supported(d.version, command)
                            /\ Take([d EXCEPT !.command = command], now)

-----------------------------------------------------------------------------
(* The arguments.                                                          *)

Update ==
    \/ Refused("u")
    \/ Fits("u") /\ Take(c, {"update"}) /\ NothingElse

\* The default flags of a slot.
SlotFlags(n) ==
    LET cr == SetNamed(c, "APPEND_CR")
        static == SetNamed(SetNamed(cr, "STATIC_TICKET"), "STRONG_PW1") IN
    CASE "update" \in seen -> SetNamed(cr, "ALLOW_UPDATE")
      [] "update" \notin seen /\ n = 1 -> cr
      [] "update" \notin seen /\ n = 2 ->
            SetNamed(SetNamed(static, "STRONG_PW2"), "MAN_UPDATE")

SlotCommand(n) ==
    IF "update" \in seen THEN <<"UPDATE1", "UPDATE2">>[n] ELSE <<"CONFIG", "CONFIG2">>[n]

ChooseSlot(n) ==
    \/ Refused("slot")
    \/ Fits("slot") /\ Lacks(SlotCommand(n))
    \/ /\ Fits("slot") /\ Command(SlotFlags(n), SlotCommand(n), {"slot"})
       /\ slot' = n /\ ndefs' = 0 /\ UNCHANGED <<wishes, asked>>

Zap ==
    \/ Refused("z")
    \/ Fits("z") /\ Take(c, {"zap"}) /\ NothingElse

\* The options that are a command of their own.
OwnCommand(option, command, now) ==
    \/ Refused(option)
    \/ Fits(option) /\ Lacks(command)
    \/ /\ Fits(option) /\ Command(c, command, {now})
       /\ ndefs' = IF now = "ndef" THEN ndefs + 1 ELSE ndefs
       /\ UNCHANGED <<wishes, slot, asked>>

Swap == OwnCommand("x", "SWAP", "swap")

Record(n) == <<"NDEF", "NDEF2">>[n]

\* -n and -t: the second slot's record only right behind the command of it.
Ndef == OwnCommand("n", Record(IF c.command = "CONFIG2" THEN 2 ELSE 1), "ndef")

\* -m, -S and -D, whose argument is decoded first.
BadDevice == \E option \in {"m", "S", "D"} : Fits(option) /\ Reject(1)
UsbMode == OwnCommand("m", "DEVICE_CONFIG", "usb_mode")
ScanMap == OwnCommand("S", "SCAN_MAP", "scan_map")
ScanMapAlone == OwnCommand("S alone", "SCAN_MAP", "scan_map")
DeviceInfo == OwnCommand("D", "YK4_SET_DEVICE_INFO", "device_info")

\* Mutant of ModeCleared: the default flags stay.
ModeKept(d) == d

\* A mode-choosing -o drops what the slot options set.
ModeCleared(d) == ClearConfig(d)

\* Mutant of RefusesOption: a mode after other options.
RefusesOptionNot(choosing) == "zap" \in seen \/ (choosing /\ "mode" \in seen)

RefusesOption(choosing) ==
    "zap" \in seen \/ (choosing /\ seen \cap {"mode", "option"} # {})

\* -oflag and -o-flag.
Option(name, state) ==
    LET choosing == state /\ name \in {"OATH_HOTP", "CHAL_RESP"}
        d == IF choosing THEN ModeCleared(c) ELSE c IN
    \/ RefusesOption(choosing) /\ Reject(1)
    \/ ~RefusesOption(choosing) /\ ~CanSet(d, FlagNamed[name]) /\ Reject(1)
    \/ /\ ~RefusesOption(choosing) /\ CanSet(d, FlagNamed[name])
       /\ Take(Put(d, FlagNamed[name], state),
               {"option"} \cup IF choosing THEN {"mode"} ELSE {})
       /\ asked' = IF state THEN asked \cup {name} ELSE asked
       /\ UNCHANGED <<wishes, slot, ndefs>>

\* -ouid: the last two of its bytes hold the moving factor.
UidTail == 50115
Uid ==
    \/ Reject(1)
    \/ /\ ~RefusesOption(FALSE)
       /\ ~HasNamed(c, "OATH_HOTP") /\ ~HasNamed(c, "CHAL_RESP")
       /\ Take([c EXCEPT !.imf = UidTail], {"option"})
       /\ wishes' = wishes \cup {"uid"} /\ UNCHANGED <<slot, ndefs, asked>>

GoodSeed(seed) ==
    /\ ~RefusesOption(FALSE) /\ HasNamed(c, "OATH_HOTP")
    /\ seed <= 65535 * 16 /\ seed % 16 = 0 /\ Has(c.version, "oath_imf")

OathImf(seed) ==
    \/ ~GoodSeed(seed) /\ Reject(1)
    \/ GoodSeed(seed) /\ Take(SetImf(c, seed), {"option"}) /\ NothingElse

\* -ofixed=, -oaccess and -ooath-id; the last is decoded by the caller.
OptionWithData(wish) ==
    \/ (RefusesOption(FALSE) \/ wish # "oath_id") /\ Reject(1)
    \/ /\ ~RefusesOption(FALSE) /\ Take(c, {"option"})
       /\ wishes' = wishes \cup {wish} /\ UNCHANGED <<slot, ndefs, asked>>

\* -i, -s, -f, -c, -y, -d; a wrong format or no code ends the line, and the
\* last -f counts.
Wish(wish) ==
    \/ wish \in {"ycfg", "access"} /\ Reject(1)
    \/ /\ \/ wishes' = wishes \cup {wish}
          \/ wish = "ycfg" /\ wishes' = wishes \ {wish}
       /\ UNCHANGED <<c, seen, typed, key, parse, exit_code, slot, ndefs, asked>>

\* -a with a key of n bytes.
TypeKey(n) ==
    /\ typed' = n
    /\ UNCHANGED <<c, seen, wishes, key, parse, exit_code, slot, ndefs, asked>>

\* An unknown argument.
Usage == Reject(0)

-----------------------------------------------------------------------------
(* The end of the line.                                                    *)

Chosen == {"slot", "ndef", "swap", "usb_mode", "scan_map", "device_info"}

\* Mutant of Unallowed: the configuration and the extended flags only.
UnallowedLess ==
    "update" \in seen /\ ~AllowedInUpdate([c EXCEPT !.tkt = {}])

Unallowed == "update" \in seen /\ ~AllowedInUpdate(c)

NeedsKey == "zap" \notin seen /\ c.command \in SlotCommands

\* A typed key must have the length of the mode and be one, and there may be no
\* random one.
Complete == Chosen \cap seen # {} /\ ~Unallowed
EndLine ==
    /\ parse = "reading"
    /\ \/ ~Complete /\ Reject(1)
       \/ Complete /\ NeedsKey /\ Reject(1)
       \/ /\ Complete
          /\ NeedsKey => typed \in {0, KeyLength(c)}
          /\ parse' = "accepted"
          /\ key' = IF NeedsKey THEN KeyLength(c) ELSE 0
          /\ UNCHANGED <<c, seen, wishes, typed, exit_code, slot, ndefs, asked>>
    /\ UNCHANGED given

\* The end of the line is what tells getopt that -S has no map.
Argument ==
    /\ parse = "reading" /\ given < MaxArgs
    /\ \/ given' = MaxArgs /\ ScanMapAlone
       \/ /\ given' = given + 1
          /\ \/ Update \/ (\E n \in {1, 2} : ChooseSlot(n)) \/ Zap \/ Swap \/ Ndef
             \/ BadDevice \/ UsbMode \/ ScanMap \/ DeviceInfo
             \/ \E name \in Names, state \in BOOLEAN : Option(name, state)
             \/ \E seed \in Imfs : OathImf(seed)
             \/ "uid" \in Asks /\ Uid
             \/ \E wish \in Asks \cap {"fixed", "new_access", "oath_id"} :
                   OptionWithData(wish)
             \/ \E wish \in Asks \cap {"in", "out", "ycfg", "access", "yes", "dry_run"} :
                   Wish(wish)
             \/ \E n \in {16, 20} : TypeKey(n)
             \/ Usage

Next == Argument \/ EndLine

Spec == Init /\ [][Next]_args

-----------------------------------------------------------------------------
(* Properties.                                                             *)

Accepted == parse = "accepted"

\* "The default flags (particularly for slot 2) does not apply to these new
\* modes of operation" (ykpers-args.c:296): with a mode chosen, every flag of
\* the configuration was asked for.
ModeDropsDefaults ==
    Accepted /\ "mode" \in seen =>
        \A word \in {"tkt", "cfg", "ext"} :
            c[word] \subseteq UNION {FlagNamed[name].bits : name \in
                                       {n \in asked : FlagNamed[n].word = word}}

\* "for OATH-HOTP and CHAL-RESP, uid is not applicable" (ykpers-args.c:577):
\* four bytes of a 20-byte key lie in the uid, so that a line never gives both.
UidIsNoKey == Accepted /\ key = 20 => "uid" \notin wishes

\* What a line is for is what it does, whatever stands between, before and
\* behind: without a slot, -n and -t write the first slot's record, and -m, -S
\* and -D end in their commands.  With one, the line configures that slot, or
\* updates it behind -u, and one -n or -t behind it makes it the slot's record.  A
\* swap, in whatever place of the line, is a swap and nothing else: no slot is
\* configured by it, and no key made up.  In three cases the code does otherwise
\* than its messages and help say, and the property states what it does: an -S
\* without a map takes the place of -D (ykpers-args.c:728); -m, -S, -D, -n and -t
\* before a slot are forgotten (ykpers-args.c:328); and behind -2 a second -n or
\* -t, and any after it, goes to the first slot's record (ykpers-args.c:438).
CommandIsKept ==
    Accepted =>
        /\ slot = 0 =>
              /\ "ndef" \in seen => c.command = "NDEF"
              /\ "usb_mode" \in seen => c.command = "DEVICE_CONFIG"
              /\ "scan_map" \in seen => c.command = "SCAN_MAP"
              /\ "device_info" \in seen /\ "scan_map" \notin seen
                    => c.command = "YK4_SET_DEVICE_INFO"
        /\ slot # 0 /\ ndefs = 0 => c.command = SlotCommand(slot)
        /\ slot # 0 /\ ndefs > 0
              => c.command = Record(IF slot = 2 /\ ndefs = 1 THEN 2 ELSE 1)
        /\ "swap" \in seen => /\ c.command = "SWAP" /\ key = 0
                              /\ slot = 0 /\ "update" \notin seen

\* "USB mode (-m) can not be combined with other options." (ykpers-args.c:457)
UsbModeIsAlone == Accepted /\ "usb_mode" \in seen => c.command = "DEVICE_CONFIG"
=============================================================================
