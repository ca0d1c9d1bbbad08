------------------------- MODULE PersonalizeProofs -------------------------
(***************************************************************************)
(* ykpersonalize for all firmwares, lines of any length and any files.     *)
(*                                                                         *)
(* First args_to_config (Spec of ArgsToConfig): the command that an        *)
(* argument chose is the command at the end of the line.  The argument has *)
(* two halves: no flag touches the command, and an argument with a command *)
(* of its own is refused where it would replace another.  Then the flags:  *)
(* once a mode or a private identity was given, nothing but a flag that is *)
(* asked for comes in.                                                     *)
(*                                                                         *)
(* Then main (MainSpec): what is written was agreed to, is what was shown, *)
(* was checked, or came from a file.  None of these is inductive: each     *)
(* rests on what main has made sure of at the stages before the write,     *)
(* which the parts of IInv say stage by stage.  EndInv follows the exit    *)
(* code to the end, CheckedInv and FromFile the configuration.             *)
(***************************************************************************)
EXTENDS Personalize, KeyConfigProofs


LEMMA SlotNames ==
    {"APPEND_CR", "ALLOW_UPDATE", "STATIC_TICKET", "STRONG_PW1", "STRONG_PW2",
     "MAN_UPDATE"} \subseteq DOMAIN FlagNamed
<1>1. /\ TicketFlags[6].name = "APPEND_CR" /\ 6 \in DOMAIN TicketFlags
      /\ ExtendedFlags[6].name = "ALLOW_UPDATE" /\ 6 \in DOMAIN ExtendedFlags
  BY DEF TicketFlags, ExtendedFlags, Ticket, Flag
<1>2. /\ ConfigFlags[14].name = "STATIC_TICKET" /\ 14 \in DOMAIN ConfigFlags
      /\ ConfigFlags[16].name = "STRONG_PW1" /\ 16 \in DOMAIN ConfigFlags
      /\ ConfigFlags[17].name = "STRONG_PW2" /\ 17 \in DOMAIN ConfigFlags
      /\ ConfigFlags[18].name = "MAN_UPDATE" /\ 18 \in DOMAIN ConfigFlags
  BY SMTT(60) DEF ConfigFlags, Ticket, Flag
<1> QED
  BY <1>1, <1>2 DEF FlagNamed, Flags, ToSet

LEMMA SlotFlagsKeep ==
    ASSUME IsConfig(c), NEW n \in {1, 2} PROVE IsConfig(SlotFlags(n))
<1> DEFINE cr == SetNamed(c, "APPEND_CR")
           static == SetNamed(SetNamed(cr, "STATIC_TICKET"), "STRONG_PW1")
<1>1. IsConfig(cr)
  BY SlotNames, SetNamedKeeps DEF Keeps
<1>2. IsConfig(SetNamed(cr, "ALLOW_UPDATE"))
  BY <1>1, SlotNames, SetNamedKeeps DEF Keeps
<1>3. IsConfig(static)
  <2>1. IsConfig(SetNamed(cr, "STATIC_TICKET"))
    BY <1>1, SlotNames, SetNamedKeeps DEF Keeps
  <2> QED
    BY <2>1, SlotNames, SetNamedKeeps DEF Keeps
<1>4. IsConfig(SetNamed(SetNamed(static, "STRONG_PW2"), "MAN_UPDATE"))
  <2>1. IsConfig(SetNamed(static, "STRONG_PW2"))
    BY <1>3, SlotNames, SetNamedKeeps DEF Keeps
  <2> QED
    BY <2>1, SlotNames, SetNamedKeeps DEF Keeps
<1> QED
  BY <1>1, <1>2, <1>4 DEF SlotFlags
-----------------------------------------------------------------------------
(* Where the command comes from.                                           *)

\* What the line has seen and the command that is there for it: without a slot,
\* and with one.
OwnKept ==
    slot = 0 =>
        /\ c.command # "CONFIG2"
        /\ "ndef" \in seen => c.command = "NDEF"
        /\ "usb_mode" \in seen => c.command = "DEVICE_CONFIG"
        /\ "scan_map" \in seen => c.command = "SCAN_MAP"
        /\ "device_info" \in seen /\ "scan_map" \notin seen
              => c.command = "YK4_SET_DEVICE_INFO"
Behind ==
    /\ ndefs = 0 => c.command = SlotCommand(slot)
    /\ ndefs > 0 => c.command = Record(IF slot = 2 /\ ndefs = 1 THEN 2 ELSE 1)
SlotKept ==
    /\ slot \in {0, 1, 2} /\ ndefs \in Nat
    /\ slot # 0 <=> "slot" \in seen
    /\ slot # 0 => Behind
SwapKept ==
    "swap" \in seen => c.command = "SWAP" /\ slot = 0 /\ "update" \notin seen
KeyKept ==
    /\ parse # "accepted" => key = 0
    /\ "swap" \in seen => key = 0

LineInv == IsConfig(c) /\ OwnKept /\ SlotKept /\ SwapKept /\ KeyKept

LEMMA LineStarts == Init => LineInv
BY DEF Init, EmptyConfig, LineInv, IsConfig, Fields, OwnKept, SlotKept, SwapKept, KeyKept,
       Behind

\* An argument that leaves the command as it is, and is noted as one of now.
Quiet(now) ==
    /\ Keeps(c', c) /\ seen' = seen \cup now
    /\ UNCHANGED <<slot, ndefs, key>> /\ parse' # "accepted"

LEMMA QuietStep ==
    ASSUME LineInv, parse = "reading",
           NEW now \in SUBSET {"update", "option", "mode", "zap"}, Quiet(now),
           "update" \in now => {"swap", "slot"} \cap seen = {}
    PROVE  LineInv'
<1>1. c'.command = c.command /\ IsConfig(c') /\ seen' = seen \cup now
  BY DEF Quiet, Keeps
<1>2. OwnKept' /\ SwapKept' /\ KeyKept'
  BY <1>1 DEF Quiet, LineInv, OwnKept, SwapKept, KeyKept
<1>3. slot # 0 => SlotCommand(slot)' = SlotCommand(slot)
  BY <1>1 DEF Quiet, LineInv, SlotKept, SlotCommand
<1>4. SlotKept'
  BY <1>1, <1>3 DEF Quiet, LineInv, SlotKept, Behind, Record
<1> QED
  BY <1>1, <1>2, <1>4 DEF LineInv

LEMMA RejectStep ==
    ASSUME LineInv, parse = "reading", NEW code, Reject(code) PROVE LineInv'
<1>1. Quiet({})
  BY DEF Reject, Quiet, Keeps, LineInv
<1> QED
  BY <1>1, QuietStep

\* An argument that takes d and notes now.
LEMMA TakeQuietly ==
    ASSUME LineInv, parse = "reading", NEW d, Keeps(d, c),
           NEW now \in SUBSET {"update", "option", "mode", "zap"},
           "update" \in now => {"swap", "slot"} \cap seen = {},
           Take(d, now), UNCHANGED <<slot, ndefs>>
    PROVE  LineInv'
<1>1. Quiet(now)
  BY DEF Take, Quiet, Keeps
<1> QED
  BY <1>1, QuietStep

LEMMA Same == LineInv => Keeps(c, c)
BY DEF LineInv, Keeps

\* An option with a command of its own, and what it lets be seen before it.
Own(option, command, now) ==
    /\ \/ now = "swap" /\ command = "SWAP"
       \/ now = "ndef" /\ command = Record(IF c.command = "CONFIG2" THEN 2 ELSE 1)
       \/ now = "usb_mode" /\ command = "DEVICE_CONFIG"
       \/ now = "scan_map" /\ command = "SCAN_MAP"
       \/ now = "device_info" /\ command = "YK4_SET_DEVICE_INFO"
    /\ {"ndef", "usb_mode", "scan_map", "swap", "update"} \ {now} \subseteq Conflicts(option)
    /\ now # "scan_map" => {"device_info"} \ {now} \subseteq Conflicts(option)
    /\ now # "ndef" => "slot" \in Conflicts(option)

LEMMA OwnStep ==
    ASSUME LineInv, parse = "reading", NEW option, NEW command, NEW now,
           OwnCommand(option, command, now), Own(option, command, now)
    PROVE  LineInv'
<1>1. CASE Refused(option) \/ Lacks(command)
  BY <1>1, RejectStep DEF Refused, Lacks
<1>2. CASE /\ Fits(option) /\ Command(c, command, {now})
           /\ ndefs' = IF now = "ndef" THEN ndefs + 1 ELSE ndefs
           /\ UNCHANGED <<wishes, slot, asked>>
  <2>1. /\ c' = [c EXCEPT !.command = command] /\ seen' = seen \cup {now}
        /\ UNCHANGED <<key, parse, slot>>
    BY <1>2 DEF Command, Take
  <2>2. IsConfig(c') /\ c'.command = command
    BY <2>1 DEF LineInv, IsConfig, Fields
  <2>3. /\ {"ndef", "usb_mode", "scan_map", "swap", "update"} \cap seen \subseteq {now}
        /\ now # "scan_map" => {"device_info"} \cap seen \subseteq {now}
        /\ now # "ndef" => "slot" \notin seen
    BY <1>2 DEF Fits, Own
  <2>4. now \in {"swap", "ndef", "usb_mode", "scan_map", "device_info"}
    BY DEF Own
  <2>5. SwapKept' /\ KeyKept'
    BY <2>1, <2>2, <2>3, <2>4 DEF Own, LineInv, SlotKept, SwapKept, KeyKept
  <2>6. Record(1) = "NDEF" /\ Record(2) = "NDEF2"
    BY DEF Record
  <2>7. OwnKept'
    BY <2>1, <2>2, <2>3, <2>4, <2>6 DEF Own, LineInv, OwnKept
  <2>8. CASE now # "ndef"
    <3>1. slot' = 0 /\ "slot" \notin seen' /\ ndefs' = ndefs
      BY <1>2, <2>1, <2>3, <2>4, <2>8 DEF LineInv, SlotKept
    <3> QED
      BY <2>5, <2>7, <2>2, <3>1 DEF LineInv, SlotKept
  <2>9. CASE now = "ndef"
    <3>1. ndefs' = ndefs + 1 /\ ndefs \in Nat /\ slot \in {0, 1, 2}
      BY <1>2, <2>9 DEF LineInv, SlotKept
    <3>2. ASSUME slot # 0
          PROVE  c'.command = Record(IF slot = 2 /\ ndefs = 0 THEN 2 ELSE 1)
      <4>1. SlotCommand(1) = "CONFIG" /\ SlotCommand(2) = "CONFIG2"
        BY <2>3, <2>9 DEF SlotCommand
      <4>2. c.command = "CONFIG2" <=> slot = 2 /\ ndefs = 0
        <5>1. CASE ndefs = 0
          BY <3>1, <3>2, <4>1, <5>1 DEF LineInv, SlotKept, Behind
        <5>2. CASE ndefs # 0
          BY <2>6, <3>1, <3>2, <5>2 DEF LineInv, SlotKept, Behind
        <5> QED
          BY <5>1, <5>2
      <4>3. command = Record(IF c.command = "CONFIG2" THEN 2 ELSE 1)
        BY <2>9 DEF Own
      <4> QED
        BY <2>2, <3>1, <3>2, <4>2, <4>3
    <3>3. slot' # 0 => Behind'
      BY <2>1, <3>1, <3>2 DEF Behind, Record
    <3>4. slot' # 0 <=> "slot" \in seen'
      BY <2>1, <2>9 DEF LineInv, SlotKept
    <3>5. SlotKept'
      BY <2>1, <3>1, <3>3, <3>4 DEF SlotKept
    <3> QED
      BY <2>2, <2>5, <2>7, <3>5 DEF LineInv
  <2> QED
    BY <2>8, <2>9
<1> QED
  BY <1>1, <1>2 DEF OwnCommand

LEMMA OwnSteps ==
    ASSUME LineInv, parse = "reading",
           Swap \/ Ndef \/ UsbMode \/ ScanMap \/ ScanMapAlone \/ DeviceInfo
    PROVE  LineInv'
<1>1. CASE Swap
  <2>1. Own("x", "SWAP", "swap")
    BY DEF Own, Conflicts, Seen
  <2> QED
    BY <1>1, <2>1, OwnStep DEF Swap
<1>2. CASE Ndef
  <2> DEFINE command == Record(IF c.command = "CONFIG2" THEN 2 ELSE 1)
  <2>1. Own("n", command, "ndef")
    BY DEF Own, Conflicts, Seen
  <2> QED
    BY <1>2, <2>1, OwnStep DEF Ndef
<1>3. CASE UsbMode
  <2>1. Own("m", "DEVICE_CONFIG", "usb_mode")
    BY DEF Own, Conflicts, Seen
  <2> QED
    BY <1>3, <2>1, OwnStep DEF UsbMode
<1>4. CASE ScanMap \/ ScanMapAlone
  <2>1. ASSUME NEW option \in {"S", "S alone"} PROVE Own(option, "SCAN_MAP", "scan_map")
    BY DEF Own, Conflicts, Seen
  <2> QED
    BY <1>4, <2>1, OwnStep DEF ScanMap, ScanMapAlone
<1>5. CASE DeviceInfo
  <2>1. Own("D", "YK4_SET_DEVICE_INFO", "device_info")
    BY DEF Own, Conflicts, Seen
  <2> QED
    BY <1>5, <2>1, OwnStep DEF DeviceInfo
<1> QED
  BY <1>1, <1>2, <1>3, <1>4, <1>5

LEMMA UpdateStep == ASSUME LineInv, parse = "reading", Update PROVE LineInv'
<1>1. CASE Refused("u")
  BY <1>1, RejectStep DEF Refused
<1>2. CASE Fits("u") /\ Take(c, {"update"}) /\ NothingElse
  <2>1. {"swap", "slot"} \cap seen = {}
    BY <1>2 DEF Fits, Conflicts
  <2> QED
    BY <1>2, <2>1, Same, TakeQuietly DEF NothingElse
<1> QED
  BY <1>1, <1>2 DEF Update

LEMMA ZapStep == ASSUME LineInv, parse = "reading", Zap PROVE LineInv'
<1>1. CASE Refused("z")
  BY <1>1, RejectStep DEF Refused
<1>2. CASE Take(c, {"zap"}) /\ NothingElse
  BY <1>2, Same, TakeQuietly DEF NothingElse
<1> QED
  BY <1>1, <1>2 DEF Zap

LEMMA SlotStep ==
    ASSUME LineInv, parse = "reading", NEW n \in {1, 2}, ChooseSlot(n) PROVE LineInv'
<1>1. CASE Refused("slot") \/ Lacks(SlotCommand(n))
  BY <1>1, RejectStep DEF Refused, Lacks
<1>2. CASE /\ Fits("slot") /\ Command(SlotFlags(n), SlotCommand(n), {"slot"})
           /\ slot' = n /\ ndefs' = 0
  <2> DEFINE d == SlotFlags(n)
  <2>1. IsConfig(d)
    BY SlotFlagsKeep DEF LineInv
  <2>2. /\ c' = [d EXCEPT !.command = SlotCommand(n)] /\ seen' = seen \cup {"slot"}
        /\ UNCHANGED <<key, parse>>
    BY <1>2 DEF Command, Take
  <2> HIDE DEF d
  <2>3. IsConfig(c') /\ c'.command = SlotCommand(n)
    BY <2>1, <2>2 DEF IsConfig, Fields
  <2>4. "swap" \notin seen
    BY <1>2 DEF Fits, Conflicts, SlotConflicts
  <2>5. SlotCommand(n)' = SlotCommand(n)
    BY <2>2 DEF SlotCommand
  <2>6. SlotKept'
    BY <1>2, <2>2, <2>3, <2>5 DEF SlotKept, Behind
  <2> QED
    BY <1>2, <2>2, <2>3, <2>4, <2>6 DEF LineInv, OwnKept, SwapKept, KeyKept
<1> QED
  BY <1>1, <1>2 DEF ChooseSlot

LEMMA OptionStep ==
    ASSUME LineInv, parse = "reading", NEW name \in Names, NEW state \in BOOLEAN,
           Option(name, state)
    PROVE  LineInv'
<1> DEFINE choosing == state /\ name \in {"OATH_HOTP", "CHAL_RESP"}
           d == IF choosing THEN ModeCleared(c) ELSE c
           e == Put(d, FlagNamed[name], state)
           now == {"option"} \cup IF choosing THEN {"mode"} ELSE {}
<1>1. CASE Reject(1)
  BY <1>1, RejectStep
<1>2. CASE Take(e, now) /\ UNCHANGED <<slot, ndefs>>
  <2>1. Keeps(d, c)
    BY Same, ClearKeeps DEF LineInv, ModeCleared
  <2>2. Keeps(e, c)
    BY <2>1, ArgsAssumption, NamedRows, PutKeeps DEF Keeps
  <2>3. now \in SUBSET {"update", "option", "mode", "zap"} /\ "update" \notin now
    OBVIOUS
  <2> HIDE DEF e, now
  <2> QED
    BY <1>2, <2>2, <2>3, TakeQuietly
<1> QED
  BY <1>1, <1>2 DEF Option

\* The other options, and the arguments that do not touch the configuration.
LEMMA DataStep ==
    ASSUME LineInv, parse = "reading",
           \/ Uid
           \/ \E seed \in Imfs : OathImf(seed)
           \/ \E wish \in Asks : OptionWithData(wish)
    PROVE  LineInv'
<1>1. CASE Reject(1)
  BY <1>1, RejectStep
<1>2. CASE Uid /\ ~Reject(1)
  <2>1. Keeps([c EXCEPT !.imf = UidTail], c)
    BY DEF LineInv, IsConfig, Fields, Keeps
  <2> QED
    BY <1>2, <2>1, TakeQuietly DEF Uid
<1>3. ASSUME NEW seed \in Imfs, OathImf(seed), ~Reject(1) PROVE LineInv'
  <2>1. Keeps(SetImf(c, seed), c)
    BY SetImfKeeps DEF LineInv
  <2>2. Take(SetImf(c, seed), {"option"}) /\ NothingElse
    BY <1>3 DEF OathImf
  <2>3. Take(SetImf(c, seed), {"option"}) /\ UNCHANGED <<slot, ndefs>>
    BY <1>3, <2>2 DEF NothingElse
  <2> QED
    BY <2>1, <2>3, TakeQuietly
<1>4. ASSUME NEW wish \in Asks, OptionWithData(wish), ~Reject(1) PROVE LineInv'
  BY <1>4, Same, TakeQuietly DEF OptionWithData
<1> QED
  BY <1>1, <1>2, <1>3, <1>4

LEMMA OtherStep ==
    ASSUME LineInv, parse = "reading",
           \/ BadDevice \/ Usage
           \/ \E wish \in Asks : Wish(wish)
           \/ \E n \in {16, 20} : TypeKey(n)
    PROVE  LineInv'
<1>1. CASE Reject(0) \/ Reject(1)
  BY <1>1, RejectStep
<1>2. CASE UNCHANGED <<c, seen, key, parse, slot, ndefs>>
  <2>1. Quiet({})
    BY <1>2, Same DEF Quiet, Keeps
  <2> QED
    BY <2>1, QuietStep
<1> QED
  BY <1>1, <1>2 DEF BadDevice, Usage, Wish, TypeKey

\* No key is made up for what is no slot.
LEMMA EndStep == ASSUME LineInv, EndLine PROVE LineInv'
<1>1. CASE Reject(1)
  BY <1>1, RejectStep DEF EndLine
<1>2. CASE /\ parse' = "accepted" /\ UNCHANGED <<c, seen, slot, ndefs>>
           /\ key' = IF NeedsKey THEN KeyLength(c) ELSE 0
  <2>1. "swap" \in seen => key' = 0
    BY <1>2 DEF LineInv, SwapKept, NeedsKey, SlotCommands
  <2> QED
    BY <1>2, <2>1 DEF LineInv, OwnKept, SlotKept, SwapKept, KeyKept, Behind, SlotCommand,
           Record
<1> QED
  BY <1>1, <1>2 DEF EndLine

LEMMA StepLine == LineInv /\ [Next]_args => LineInv'
<1> SUFFICES ASSUME LineInv, [Next]_args PROVE LineInv'
  OBVIOUS
<1>1. CASE UNCHANGED args
  BY <1>1 DEF args, LineInv, OwnKept, SlotKept, SwapKept, KeyKept, Behind, SlotCommand,
         Record
<1>2. CASE Argument
  BY <1>2, UpdateStep, SlotStep, ZapStep, OwnSteps, OptionStep, DataStep, OtherStep
  DEF Argument
<1>3. CASE EndLine
  BY <1>3, EndStep
<1> QED
  BY <1>1, <1>2, <1>3 DEF Next

\* On a line of any length, whatever comes between, before and behind it: without
\* a slot an argument with a command of its own has that command when the line is
\* accepted, but that -S without a map replaces -D; with a slot the command is
\* that slot's, its record's behind one -n or -t (behind any number of them for
\* the first slot); and a swap is nothing but a swap.
THEOREM LineKeepsCommand == Spec => []CommandIsKept
<1>1. LineInv => CommandIsKept
  BY DEF LineInv, OwnKept, SlotKept, SwapKept, KeyKept, Behind, CommandIsKept, Accepted
<1> QED
  BY <1>1, LineStarts, StepLine, PTL DEF Spec

-----------------------------------------------------------------------------
(* Where the flags come from.                                              *)

BitsOf(names, word) ==
    UNION {FlagNamed[name].bits : name \in {n \in names : FlagNamed[n].word = word}}

SameFlags(d, e) == \A word \in Words : d[word] = e[word]

\* Every flag was asked for, once there is a mode.
ModeAsked ==
    "mode" \in seen =>
        /\ "option" \in seen
        /\ \A word \in Words : c[word] \subseteq BitsOf(asked, word)
\* A private identity was given where no mode has its place, and none comes later.
UidAlone ==
    "uid" \in wishes => "option" \in seen /\ 6 \notin c.tkt /\ key # 20

FlagsInv == LineInv /\ ModeAsked /\ UidAlone

\* An argument that sets no flag.
LEMMA FlaglessStep ==
    ASSUME FlagsInv, LineInv', SameFlags(c', c), asked' = asked, key' # 20,
           seen \subseteq seen', "mode" \in seen' => "mode" \in seen,
           "uid" \in wishes' => "uid" \in wishes \/ ("option" \in seen' /\ 6 \notin c.tkt)
    PROVE  FlagsInv'
<1>1. c'.tkt = c.tkt
  BY DEF SameFlags, Words
<1> QED
  BY <1>1 DEF FlagsInv, ModeAsked, UidAlone, SameFlags

LEMMA NoKeyYet == ASSUME FlagsInv, parse = "reading" PROVE key = 0
BY DEF FlagsInv, LineInv, KeyKept

LEMMA RejectFlags ==
    ASSUME FlagsInv, LineInv', parse = "reading", NEW code, Reject(code) PROVE FlagsInv'
BY NoKeyYet, FlaglessStep DEF Reject, SameFlags

LEMMA OwnFlags ==
    ASSUME FlagsInv, LineInv', parse = "reading", NEW option, NEW command, NEW now,
           now # "mode", OwnCommand(option, command, now)
    PROVE  FlagsInv'
<1>1. CASE Refused(option) \/ Lacks(command)
  BY <1>1, RejectFlags DEF Refused, Lacks
<1>2. CASE Command(c, command, {now}) /\ UNCHANGED <<wishes, asked>>
  <2>1. /\ c' = [c EXCEPT !.command = command] /\ seen' = seen \cup {now}
        /\ UNCHANGED <<key, wishes, asked>>
    BY <1>2 DEF Command, Take
  <2>2. SameFlags(c', c)
    BY <2>1 DEF FlagsInv, LineInv, IsConfig, Fields, SameFlags, Words
  <2> QED
    BY <2>1, <2>2, NoKeyYet, FlaglessStep
<1> QED
  BY <1>1, <1>2 DEF OwnCommand

LEMMA SlotFlagsStep ==
    ASSUME FlagsInv, LineInv', parse = "reading", NEW n \in {1, 2}, ChooseSlot(n)
    PROVE  FlagsInv'
<1>1. CASE Refused("slot") \/ Lacks(SlotCommand(n))
  BY <1>1, RejectFlags DEF Refused, Lacks
<1>2. CASE /\ Fits("slot") /\ Command(SlotFlags(n), SlotCommand(n), {"slot"})
           /\ UNCHANGED <<wishes, asked>>
  <2>1. "option" \notin seen
    BY <1>2 DEF Fits, Conflicts, SlotConflicts
  <2>2. seen' = seen \cup {"slot"} /\ UNCHANGED wishes
    BY <1>2 DEF Command, Take
  <2> QED
    BY <2>1, <2>2 DEF FlagsInv, ModeAsked, UidAlone
<1> QED
  BY <1>1, <1>2 DEF ChooseSlot

LEMMA OptionFlags ==
    ASSUME FlagsInv, LineInv', parse = "reading", NEW name \in Names, NEW state \in BOOLEAN,
           Option(name, state)
    PROVE  FlagsInv'
<1> DEFINE choosing == state /\ name \in {"OATH_HOTP", "CHAL_RESP"}
           d == IF choosing THEN ModeCleared(c) ELSE c
           f == FlagNamed[name]
<1>1. CASE Reject(1)
  BY <1>1, RejectFlags
<1>2. CASE ~Reject(1)
  <2>1. /\ ~RefusesOption(choosing) /\ c' = Put(d, f, state)
        /\ seen' = seen \cup {"option"} \cup IF choosing THEN {"mode"} ELSE {}
        /\ asked' = IF state THEN asked \cup {name} ELSE asked
        /\ UNCHANGED <<wishes, key>>
    BY <1>2 DEF Option, Take
  <2>2. /\ name \in DOMAIN FlagNamed /\ Row(f) /\ f.name = name /\ ModeRow(f)
        /\ IsConfig(c) /\ key = 0
    BY ArgsAssumption, NamedRows, NamedModes, NoKeyYet DEF FlagsInv, LineInv
  <2>3. (name \in asked' /\ f.bits \subseteq BitsOf(asked', f.word)) \/ ~state
    BY <2>1 DEF BitsOf
  <2>4. CASE choosing
    <3>1. "option" \notin seen
      BY <2>1, <2>4 DEF RefusesOption
    <3>2. d = ClearConfig(c) /\ IsConfig(d)
      BY <2>2, <2>4, ClearKeeps DEF ModeCleared, Keeps
    <3>3. ASSUME NEW word \in Words PROVE d[word] = {}
      BY <2>2, <3>2 DEF ClearConfig, IsConfig, Fields, Words
    <3> HIDE DEF f, d
    <3>4. ASSUME NEW word \in Words PROVE c'[word] \subseteq BitsOf(asked', word)
      <4>1. c'[word] \subseteq IF state /\ word = f.word THEN d[word] \cup f.bits ELSE d[word]
        BY <2>1, <2>2, <3>2, PutFlags
      <4> QED
        BY <2>3, <2>4, <3>3, <4>1
    <3> QED
      BY <2>1, <2>4, <3>1, <3>4 DEF FlagsInv, ModeAsked, UidAlone
  <2>5. CASE ~choosing
    <3>1. d = c /\ ("mode" \in seen' => "mode" \in seen)
      BY <2>1, <2>5
    <3>2. state /\ f.word = "tkt" => 6 \notin f.bits
      BY <2>2, <2>5 DEF ModeRow, TicketRow
    <3>3. \A word \in Words : BitsOf(asked, word) \subseteq BitsOf(asked', word)
      <4>1. asked \subseteq asked'
        BY <2>1
      <4> QED
        BY <4>1 DEF BitsOf
    <3> HIDE DEF f, d
    <3>4. ASSUME NEW word \in Words
          PROVE  c'[word] \subseteq IF state /\ word = f.word THEN c[word] \cup f.bits
                                    ELSE c[word]
      BY <2>1, <2>2, <3>1, PutFlags
    <3>5. "mode" \in seen => \A word \in Words : c'[word] \subseteq BitsOf(asked', word)
      BY <2>3, <3>3, <3>4 DEF FlagsInv, ModeAsked
    <3>6. 6 \notin c.tkt => 6 \notin c'.tkt
      BY <3>2, <3>4 DEF Words
    <3> QED
      BY <2>1, <2>2, <3>1, <3>5, <3>6 DEF FlagsInv, ModeAsked, UidAlone
  <2> QED
    BY <2>4, <2>5
<1> QED
  BY <1>1, <1>2

LEMMA DataFlags ==
    ASSUME FlagsInv, LineInv', parse = "reading",
           \/ Uid
           \/ \E seed \in Imfs : OathImf(seed)
           \/ \E wish \in {"fixed", "new_access", "oath_id"} : OptionWithData(wish)
           \/ \E wish \in {"in", "out", "ycfg", "access", "yes", "dry_run"} : Wish(wish)
           \/ \E n \in {16, 20} : TypeKey(n)
           \/ Update \/ Zap \/ BadDevice \/ Usage
    PROVE  FlagsInv'
<1> key = 0 /\ IsConfig(c)
  BY NoKeyYet DEF FlagsInv, LineInv
<1>1. CASE Reject(0) \/ Reject(1)
  BY <1>1, RejectFlags
<1>2. CASE Uid /\ ~Reject(1)
  <2>1. /\ c' = [c EXCEPT !.imf = UidTail] /\ seen' = seen \cup {"option"} /\ key' = key
        /\ asked' = asked /\ 6 \notin c.tkt
    BY <1>2, HasMode DEF Uid, Take
  <2>2. SameFlags(c', c)
    BY <2>1 DEF IsConfig, Fields, SameFlags, Words
  <2> QED
    BY <2>1, <2>2, FlaglessStep
<1>3. ASSUME NEW seed \in Imfs, OathImf(seed), ~Reject(1) PROVE FlagsInv'
  <2>1. /\ c' = SetImf(c, seed) /\ seen' = seen \cup {"option"} /\ key' = key
        /\ UNCHANGED <<wishes, asked>>
    BY <1>3 DEF OathImf, Take, NothingElse
  <2>2. SameFlags(c', c)
    BY <2>1 DEF SetImf, IsConfig, Fields, SameFlags, Words
  <2> QED
    BY <2>1, <2>2, FlaglessStep
<1>4. CASE /\ c' = c /\ asked' = asked /\ key' = key
           /\ seen' \in {seen, seen \cup {"option"}, seen \cup {"update"}, seen \cup {"zap"}}
           /\ "uid" \in wishes' => "uid" \in wishes
  BY <1>4, FlaglessStep DEF SameFlags
<1>5. CASE Update \/ Zap
  BY <1>1, <1>4, <1>5 DEF Update, Zap, Refused, Take, NothingElse
<1>6. ASSUME NEW wish \in {"fixed", "new_access", "oath_id"}, OptionWithData(wish)
      PROVE  FlagsInv'
  <2>1. CASE Take(c, {"option"}) /\ wishes' = wishes \cup {wish} /\ UNCHANGED asked
    BY <1>4, <1>6, <2>1 DEF Take
  <2> QED
    BY <1>1, <1>6, <2>1 DEF OptionWithData
<1>7. ASSUME NEW wish \in {"in", "out", "ycfg", "access", "yes", "dry_run"}, Wish(wish)
      PROVE  FlagsInv'
  BY <1>1, <1>4, <1>7 DEF Wish
<1>8. ASSUME NEW n \in {16, 20}, TypeKey(n) PROVE FlagsInv'
  BY <1>4, <1>8 DEF TypeKey
<1> QED
  BY <1>1, <1>2, <1>3, <1>5, <1>6, <1>7, <1>8 DEF BadDevice, Usage

LEMMA EndFlags == ASSUME FlagsInv, LineInv', EndLine PROVE FlagsInv'
<1>1. CASE Reject(1)
  BY <1>1, RejectFlags DEF EndLine
<1>2. CASE /\ UNCHANGED <<c, seen, wishes, asked>>
           /\ key' = IF NeedsKey THEN KeyLength(c) ELSE 0
  <2>1. "uid" \in wishes => KeyLength(c) = 16
    BY NoMode DEF FlagsInv, UidAlone, KeyLength
  <2> QED
    BY <1>2, <2>1 DEF FlagsInv, ModeAsked, UidAlone
<1> QED
  BY <1>1, <1>2 DEF EndLine

LEMMA StepFlags == FlagsInv /\ [Next]_args => FlagsInv'
<1> SUFFICES ASSUME FlagsInv, [Next]_args PROVE FlagsInv'
  OBVIOUS
<1>1. LineInv'
  BY StepLine DEF FlagsInv
<1>2. CASE UNCHANGED args
  BY <1>1, <1>2 DEF args, FlagsInv, ModeAsked, UidAlone
<1>3. ASSUME parse = "reading", Swap \/ Ndef \/ UsbMode \/ ScanMap \/ ScanMapAlone \/ DeviceInfo
      PROVE  FlagsInv'
  BY <1>1, <1>3, OwnFlags DEF Swap, Ndef, UsbMode, ScanMap, ScanMapAlone, DeviceInfo
<1>4. CASE Argument
  BY <1>1, <1>3, <1>4, SlotFlagsStep, OptionFlags, DataFlags DEF Argument
<1>5. CASE EndLine
  BY <1>1, <1>5, EndFlags
<1> QED
  BY <1>2, <1>4, <1>5 DEF Next

LEMMA FlagsHold == Spec => []FlagsInv
<1>1. Init => FlagsInv
  BY LineStarts DEF Init, FlagsInv, ModeAsked, UidAlone
<1> QED
  BY <1>1, StepFlags, PTL DEF Spec

\* On a line of any length: with a mode chosen, no flag is set that was not asked
\* for, whatever a slot option had put there by default.
THEOREM ModeIsPure == Spec => []ModeDropsDefaults
<1>1. FlagsInv => ModeDropsDefaults
  BY DEF FlagsInv, ModeAsked, ModeDropsDefaults, Words, BitsOf
<1> QED
  BY <1>1, FlagsHold, PTL

\* On a line of any length: a key of 20 bytes, four of which take the place of the
\* private identity, never comes with a private identity.
THEOREM UidIsSafe == Spec => []UidIsNoKey
<1>1. FlagsInv => UidIsNoKey
  BY DEF FlagsInv, UidAlone, UidIsNoKey
<1> QED
  BY <1>1, FlagsHold, PTL

-----------------------------------------------------------------------------
(* main, stage by stage.                                                   *)


Asking == {"open", "args", "ids", "files", "import", "save", "show", "ask"}
Writing == {"write", "warn", "send"}

\* Nothing is written, and nothing agreed to, before the question.
NothingYet ==
    /\ stage \in Asking => written = None /\ consent = {} /\ ~saved
    /\ stage \in {"show", "ask"} => "out" \notin wishes

\* The message is of the configuration as it stands.
Told == stage \in {"ask"} \cup Writing => shown = Message

\* From the question on, what the way to the write has passed.
OnTheWay ==
    /\ stage \in Writing => /\ written = None /\ "commit" \in consent
                            /\ ~saved /\ "out" \notin wishes
    /\ stage \in {"warn", "send"} => "dry_run" \notin wishes
    /\ stage = "send" /\ Warned => "warning" \in consent

\* What was written is the configuration that is still there.
WrittenIsHere ==
    stage \in {"close", "done"} /\ written # None =>
        /\ written = [command |-> c.command, zap |-> "zap" \in seen, c |-> c]
        /\ shown = Message /\ "commit" \in consent
        /\ Warned => "warning" \in consent
        /\ ~saved /\ {"dry_run", "out"} \cap wishes = {}

Stages == Asking \cup Writing \cup {"close", "done"}

IInv == stage \in Stages /\ NothingYet /\ Told /\ OnTheWay /\ WrittenIsHere

LEMMA InitIInv == MainInit => IInv
BY DEF MainInit, IInv, Stages, Asking, Writing, NothingYet, Told, OnTheWay, WrittenIsHere

\* A step that fails or ends early leaves nothing written.
LEMMA StopStep ==
    ASSUME IInv, stage \notin {"close", "done"}, stage' \in {"close", "done"},
           written' = written
    PROVE  IInv'
BY DEF IInv, Stages, Asking, Writing, NothingYet, Told, OnTheWay, WrittenIsHere

\* One before the message, which may change the configuration and the wishes.
LEMMA EarlyStep ==
    ASSUME IInv, stage \in Asking \ {"show", "ask"},
           stage' \in Asking \ {"show", "ask"}, UNCHANGED <<written, consent, saved>>
    PROVE  IInv'
BY DEF IInv, Stages, Asking, Writing, NothingYet, Told, OnTheWay, WrittenIsHere

LEMMA OpenStep == ASSUME IInv, Open PROVE IInv'
<1>1. CASE Works("args") /\ ArgsKept
  BY <1>1, EarlyStep DEF Open, At, Asking, Works, GoTo, Quietly
<1>2. CASE FailsWith("open", 1)
  BY <1>2, StopStep DEF Open, At, FailsWith, Stop, Quietly
<1> QED
  BY <1>1, <1>2 DEF Open

LEMMA ArgsStep == ASSUME IInv, Args PROVE IInv'
<1>1. CASE UNCHANGED main
  BY <1>1, EarlyStep DEF Args, At, Asking, main
<1>2. CASE Works("ids")
  BY <1>2, EarlyStep DEF Args, At, Asking, Works, GoTo, Quietly
<1>3. CASE Fails("args")
  BY <1>3, StopStep DEF Args, At, Fails, Stop, Quietly
<1> QED
  BY <1>1, <1>2, <1>3 DEF Args

LEMMA IdsStep == ASSUME IInv, Ids PROVE IInv'
<1>1. CASE FailsWith("access", 1)
  BY <1>1, StopStep DEF Ids, At, FailsWith, Stop, Quietly
<1>2. CASE GoTo("files") /\ UNCHANGED <<shown, consent, dangerous, written, saved>>
  BY <1>2, EarlyStep DEF Ids, At, Asking, GoTo
<1> QED
  BY <1>1, <1>2 DEF Ids

LEMMA OpenFilesStep == ASSUME IInv, OpenFiles PROVE IInv'
<1>1. CASE Works("import")
  BY <1>1, EarlyStep DEF OpenFiles, At, Asking, Works, GoTo, Quietly
<1>2. CASE FailsWith("files", 1) \/ (stage' = "done" /\ Quietly)
  BY <1>2, StopStep DEF OpenFiles, At, FailsWith, Stop, Quietly
<1> QED
  BY <1>1, <1>2 DEF OpenFiles

LEMMA ImportStep == ASSUME IInv, Import PROVE IInv'
<1>1. CASE Works("save")
  BY <1>1, EarlyStep DEF Import, At, Asking, Works, GoTo, Quietly
<1>2. CASE Fails("import")
  BY <1>2, StopStep DEF Import, At, Fails, Stop, Quietly
<1> QED
  BY <1>1, <1>2 DEF Import

LEMMA SaveStep == ASSUME IInv, Save PROVE IInv'
<1>1. CASE "out" \notin wishes /\ Works("show") /\ ArgsKept
  BY <1>1 DEF IInv, Save, At, Works, GoTo, Quietly, ArgsKept, args, Stages, Asking,
              Writing, NothingYet, Told, OnTheWay, WrittenIsHere
<1>2. CASE \/ Fails("save")
           \/ Succeeds /\ UNCHANGED <<shown, consent, dangerous, written>>
  BY <1>2, StopStep DEF Save, At, Fails, Stop, Succeeds, Quietly
<1> QED
  BY <1>1, <1>2 DEF Save

\* The message depends on the configuration and -z alone.
LEMMA SameMessage ==
    ASSUME UNCHANGED args PROVE Message' = Message
BY DEF args, Message, SlotOf, ConfigNum

LEMMA ShowStep == ASSUME IInv, Show PROVE IInv'
<1>1. /\ stage = "show" /\ stage' = "ask" /\ shown' = Message
      /\ UNCHANGED args /\ UNCHANGED <<consent, dangerous, written, saved>>
  BY DEF Show, At, GoTo, ArgsKept
<1>2. Message' = Message
  BY <1>1, SameMessage
<1> QED
  BY <1>1, <1>2 DEF IInv, args, Stages, Asking, Writing, NothingYet, Told, OnTheWay,
                    WrittenIsHere

LEMMA AskStep == ASSUME IInv, Ask PROVE IInv'
<1>1. CASE Fails("ask") \/ (Succeeds /\ Quietly)
  BY <1>1, StopStep DEF Ask, At, Fails, Stop, Succeeds, Quietly
<1>2. CASE /\ consent' = consent \cup {"commit"} /\ GoTo("write")
           /\ Agreed /\ UNCHANGED c /\ Unread
           /\ UNCHANGED <<shown, dangerous, written, saved>>
  <2>1. stage = "ask" /\ stage' = "write"
    BY <1>2 DEF Ask, At, GoTo
  <2>2. Message' = Message
    BY <1>2 DEF Unread, Message, SlotOf, ConfigNum
  <2> QED
    BY <1>2, <2>1, <2>2 DEF IInv, Unread, Stages, Asking, Writing, NothingYet, Told,
                            OnTheWay, WrittenIsHere
<1> QED
  BY <1>1, <1>2 DEF Ask

LEMMA WriteStep == ASSUME IInv, Write PROVE IInv'
<1>1. CASE (Succeeds /\ Quietly) \/ Fails("ndef") \/ Fails("ndef_access")
  BY <1>1, StopStep DEF Write, At, Fails, Stop, Succeeds, Quietly
<1>2. CASE ~NoWrite /\ Works("send") /\ ArgsKept /\ ~Warned
  <2>1. Message' = Message /\ ~Warned'
    BY <1>2, SameMessage DEF ArgsKept, args, Works, Quietly, Warned
  <2> QED
    BY <1>2, <2>1 DEF IInv, Write, At, Works, GoTo, Quietly, ArgsKept, args, NoWrite,
                      Stages, Asking, Writing, NothingYet, Told, OnTheWay, WrittenIsHere
<1>3. CASE ~NoWrite /\ Works("warn") /\ ArgsKept
  <2>1. Message' = Message
    BY <1>3, SameMessage DEF ArgsKept
  <2> QED
    BY <1>3, <2>1 DEF IInv, Write, At, Works, GoTo, Quietly, ArgsKept, args, NoWrite,
                      Stages, Asking, Writing, NothingYet, Told, OnTheWay, WrittenIsHere
<1> QED
  BY <1>1, <1>2, <1>3 DEF Write, Construct, Warned

LEMMA WarnStep == ASSUME IInv, Warn PROVE IInv'
<1>1. CASE Fails("warn") \/ (Succeeds /\ Quietly)
  BY <1>1, StopStep DEF Warn, At, Fails, Stop, Succeeds, Quietly
<1>2. CASE /\ consent' = consent \cup {"warning"} /\ GoTo("send") /\ ArgsKept
           /\ UNCHANGED <<shown, dangerous, written, saved>>
  <2>1. Message' = Message
    BY <1>2, SameMessage DEF ArgsKept
  <2> QED
    BY <1>2, <2>1 DEF IInv, Warn, At, GoTo, ArgsKept, args, Stages, Asking, Writing,
                      NothingYet, Told, OnTheWay, WrittenIsHere
<1> QED
  BY <1>1, <1>2 DEF Warn

LEMMA SendStep == ASSUME IInv, Send PROVE IInv'
<1>1. CASE Refusal
  BY <1>1, StopStep DEF Send, At, Refusal, Fails, Stop, Quietly
<1>2. CASE /\ written' = [command |-> c.command, zap |-> "zap" \in seen, c |-> c]
           /\ Succeeds
           /\ UNCHANGED <<shown, consent, dangerous, saved>>
  <2>1. /\ stage = "send" /\ stage' = "close"
        /\ UNCHANGED <<c, seen, wishes>>
    BY <1>2 DEF Send, At, Succeeds, Unread
  <2>2. Message' = Message /\ Warned' = Warned
    BY <1>2, <2>1 DEF Message, SlotOf, ConfigNum, Warned
  <2> QED
    BY <1>2, <2>1, <2>2 DEF IInv, Stages, Asking, Writing, NothingYet, Told, OnTheWay,
                            WrittenIsHere
<1> QED
  BY <1>1, <1>2 DEF Send

LEMMA CloseStep == ASSUME IInv, Close PROVE IInv'
<1>1. /\ stage = "close" /\ stage' = "done" /\ UNCHANGED <<c, seen, wishes>>
      /\ UNCHANGED <<shown, consent, dangerous, written, saved>>
  BY DEF Close, At, GoTo, Quietly, Unread
<1>2. Message' = Message /\ Warned' = Warned
  BY <1>1 DEF Message, SlotOf, ConfigNum, Warned
<1> QED
  BY <1>1, <1>2 DEF IInv, Stages, Asking, Writing, NothingYet, Told, OnTheWay,
                    WrittenIsHere

-----------------------------------------------------------------------------
LEMMA StepIInv == IInv /\ [MainNext]_vars => IInv'
<1> SUFFICES ASSUME IInv, [MainNext]_vars PROVE IInv'
  OBVIOUS
<1>1. CASE UNCHANGED vars
  <2>1. UNCHANGED args /\ UNCHANGED main
    BY <1>1 DEF vars
  <2>2. Message' = Message /\ Warned' = Warned
    BY <2>1 DEF args, main, Message, SlotOf, ConfigNum, Warned
  <2> QED
    BY <2>1, <2>2 DEF args, main, IInv, NothingYet, Told, OnTheWay, WrittenIsHere
<1>2. CASE MainNext
  BY <1>2, OpenStep, ArgsStep, IdsStep, OpenFilesStep, ImportStep, SaveStep, ShowStep,
     AskStep, WriteStep, WarnStep, SendStep, CloseStep DEF MainNext
<1> QED
  BY <1>1, <1>2

\* No run of the program writes the key without the user's yes, without the second
\* one where a USB mode takes the OTP interface away, on a dry run, or after a file
\* was written instead.
THEOREM NothingWithoutConsent == MainSpec => []WrittenWithConsent
<1>1. IInv => WrittenWithConsent
  <2> SUFFICES ASSUME IInv, written # None PROVE WrittenWithConsent
    BY DEF WrittenWithConsent
  <2>1. stage \in {"close", "done"}
    BY DEF IInv, Stages, NothingYet, OnTheWay
  <2> QED
    BY <2>1 DEF IInv, WrittenIsHere, WrittenWithConsent, Warned
<1> QED
  BY <1>1, InitIInv, StepIInv, PTL DEF MainSpec

\* The message before the question names what is written: the slot configured or
\* updated and its flags, the slot that a configuring command deletes, the kind of
\* any other command; not which NDEF record, nor the slot of a deletion by -z -u.
THEOREM MessageIsTrue == MainSpec => []ShownIsWritten
<1>1. IInv => ShownIsWritten
  <2> SUFFICES ASSUME IInv, written # None PROVE ShownIsWritten
    BY DEF ShownIsWritten
  <2>1. stage \in {"close", "done"}
    BY DEF IInv, Stages, NothingYet, OnTheWay
  <2>2. /\ written.command = c.command /\ written.zap = ("zap" \in seen) /\ written.c = c
        /\ shown = Message
    BY <2>1 DEF IInv, WrittenIsHere
  <2> DEFINE n == SlotOf(c.command)
             what == IF c.command \in SlotCommands THEN "configured" ELSE "updated"
  <2>3. n = 0 => Message.what = IF c.command = "NDEF2" THEN "NDEF" ELSE c.command
    BY DEF Message, SlotOf, SlotCommands
  <2>4. ASSUME n # 0, "zap" \notin seen
        PROVE  Message = [what |-> what, slot |-> n, flags |-> Listing(c)]
    <3>1. CASE c.command \in SlotCommands
      BY <2>4, <3>1 DEF Message, SlotOf, ConfigNum, SlotCommands
    <3>2. CASE c.command \in {"UPDATE1", "UPDATE2"}
      BY <2>4, <3>2 DEF Message, SlotOf, SlotCommands
    <3> QED
      BY <2>4, <3>1, <3>2 DEF SlotOf, SlotCommands
  <2>5. ASSUME c.command \in SlotCommands, "zap" \in seen
        PROVE  Message = [what |-> "deleted", slot |-> n, flags |-> <<>>]
    BY <2>5 DEF Message, SlotOf, ConfigNum, SlotCommands
  <2> HIDE DEF n, what
  <2> QED
    BY <2>2, <2>3, <2>4, <2>5 DEF ShownIsWritten, n, what
<1> QED
  BY <1>1, InitIInv, StepIInv, PTL DEF MainSpec

-----------------------------------------------------------------------------
(* What the exit code and the end tell.                                    *)

\* What is written is something.
NoneIsNoWrite ==
    \A command, zap, d : None # [command |-> command, zap |-> zap, c |-> d]

Declined == "commit" \in consent /\ Warned /\ "warning" \notin consent

\* No step has failed so far, and from the yes on the exit code is that of a failure.
OnCourse ==
    /\ stage \in Asking \cup Writing => failure = "none"
    /\ stage \in Writing => exit_code = 2
    /\ stage \in {"write", "warn"} => "warning" \notin consent
    /\ stage = "warn" => Warned

\* How the program can have come to its end.
Outcome ==
    stage \in {"close", "done"} =>
        /\ failure \in {"ndef", "ndef_access", "warn", "send"} => exit_code = 2
        /\ failure = "none" /\ consent # {} =>
              written # None \/ "dry_run" \in wishes \/ Declined

EndInv == IInv /\ OnCourse /\ Outcome

\* One step of main, whose part of IInv has been shown.
LEMMA EarlyOutcome ==
    ASSUME EndInv, IInv', Open \/ Args \/ Ids \/ OpenFiles \/ Import \/ Save \/ Show
    PROVE  EndInv'
<1>1. stage \in Asking /\ stage # "ask" /\ failure = "none" /\ consent = {} /\ consent' = {}
  BY DEF EndInv, IInv, NothingYet, OnCourse, Asking, Open, Args, Ids, OpenFiles, Import,
         Save, Show, At, Works, GoTo, Quietly, Fails, FailsWith, Stop, Succeeds, main
<1>2. \/ stage' \in Asking /\ failure' = "none"
      \/ stage' \in {"close", "done"}
         /\ failure' \in {"none", "open", "args", "access", "files", "import", "save"}
  BY <1>1 DEF Asking, Open, Args, Ids, OpenFiles, Import, Save, Show, At, Works, GoTo,
              Fails, FailsWith, Stop, Succeeds, main
<1> QED
  BY <1>1, <1>2 DEF EndInv, OnCourse, Outcome, Asking, Writing

LEMMA AskOutcome == ASSUME EndInv, IInv', Ask PROVE EndInv'
<1>1. stage = "ask" /\ failure = "none" /\ consent = {}
  BY DEF EndInv, IInv, NothingYet, OnCourse, Asking, Ask, At
<1>2. CASE Fails("ask") \/ (Succeeds /\ Quietly)
  BY <1>1, <1>2 DEF Fails, Stop, Succeeds, Quietly, EndInv, OnCourse, Outcome, Asking, Writing
<1>3. CASE consent' = consent \cup {"commit"} /\ GoTo("write") /\ Agreed
  BY <1>1, <1>3 DEF GoTo, Agreed, EndInv, OnCourse, Outcome, Asking, Writing
<1> QED
  BY <1>2, <1>3 DEF Ask

LEMMA WriteOutcome == ASSUME EndInv, IInv', Write PROVE EndInv'
<1>1. stage = "write" /\ failure = "none" /\ exit_code = 2 /\ "warning" \notin consent
  BY DEF EndInv, OnCourse, Writing, Write, At
<1>2. CASE NoWrite /\ Succeeds /\ Quietly
  BY <1>1, <1>2 DEF NoWrite, Succeeds, Unread, EndInv, OnCourse, Outcome, Asking, Writing
<1>3. CASE Fails("ndef") \/ Fails("ndef_access")
  BY <1>1, <1>3 DEF Fails, Stop, ArgsKept, args, EndInv, OnCourse, Outcome, Asking, Writing
<1>4. CASE Works("send") /\ ArgsKept
  BY <1>1, <1>4 DEF Works, GoTo, ArgsKept, args, EndInv, OnCourse, Outcome, Asking, Writing
<1>5. CASE Warned /\ Works("warn") /\ ArgsKept
  BY <1>1, <1>5 DEF Works, GoTo, Quietly, ArgsKept, args, Warned, EndInv, OnCourse, Outcome,
                    Asking, Writing
<1> QED
  BY <1>2, <1>3, <1>4, <1>5 DEF Write, Construct

LEMMA WarnOutcome == ASSUME EndInv, IInv', Warn PROVE EndInv'
<1>1. /\ stage = "warn" /\ failure = "none" /\ exit_code = 2
      /\ "warning" \notin consent /\ Warned /\ "commit" \in consent
  BY DEF EndInv, IInv, OnTheWay, OnCourse, Writing, Warn, At
<1>2. CASE Fails("warn")
  BY <1>1, <1>2 DEF Fails, Stop, ArgsKept, args, EndInv, OnCourse, Outcome, Asking, Writing
<1>3. CASE Succeeds /\ Quietly
  <2>1. Declined'
    BY <1>1, <1>3 DEF Succeeds, Quietly, Declined, Warned
  <2> QED
    BY <1>1, <1>3, <2>1 DEF Succeeds, EndInv, OnCourse, Outcome, Asking, Writing
<1>4. CASE GoTo("send") /\ ArgsKept
  BY <1>1, <1>4 DEF GoTo, ArgsKept, args, EndInv, OnCourse, Outcome, Asking, Writing
<1> QED
  BY <1>2, <1>3, <1>4 DEF Warn

LEMMA SendOutcome == ASSUME NoneIsNoWrite, EndInv, IInv', Send PROVE EndInv'
<1>1. stage = "send" /\ failure = "none" /\ exit_code = 2
  BY DEF EndInv, OnCourse, Writing, Send, At
<1>2. CASE Refusal
  BY <1>1, <1>2 DEF Refusal, Fails, Stop, ArgsKept, args, EndInv, OnCourse, Outcome, Asking,
                    Writing
<1>3. CASE /\ written' = [command |-> c.command, zap |-> "zap" \in seen, c |-> c]
           /\ Succeeds
  <2>1. written' # None
    <3> DEFINE command == c.command
               zap == "zap" \in seen
    <3>1. None # [command |-> command, zap |-> zap, c |-> c]
      <4> HIDE DEF command, zap
      <4> QED
        BY DEF NoneIsNoWrite
    <3> QED
      BY <1>3, <3>1
  <2> QED
    BY <1>1, <1>3, <2>1 DEF Succeeds, EndInv, OnCourse, Outcome, Asking, Writing
<1> QED
  BY <1>2, <1>3 DEF Send

LEMMA CloseOutcome == ASSUME EndInv, IInv', Close PROVE EndInv'
<1>1. /\ stage = "close" /\ stage' = "done" /\ failure' = failure
      /\ exit_code' \in {exit_code, 2}
      /\ UNCHANGED <<c, wishes, consent, dangerous, written>>
  BY DEF Close, At, GoTo, Quietly, Unread
<1>2. Declined' = Declined
  BY <1>1 DEF Declined, Warned
<1> QED
  BY <1>1, <1>2 DEF EndInv, OnCourse, Outcome, Asking, Writing

LEMMA StepEndInv == ASSUME NoneIsNoWrite PROVE EndInv /\ [MainNext]_vars => EndInv'
<1> SUFFICES ASSUME EndInv, [MainNext]_vars PROVE EndInv'
  OBVIOUS
<1>1. IInv'
  BY StepIInv DEF EndInv
<1>2. CASE UNCHANGED vars
  <2>1. UNCHANGED args /\ UNCHANGED main
    BY <1>2 DEF vars
  <2> QED
    BY <1>1, <2>1 DEF args, main, EndInv, OnCourse, Outcome, Declined, Warned
<1>3. CASE MainNext
  BY <1>1, <1>3, EarlyOutcome, AskOutcome, WriteOutcome, WarnOutcome, SendOutcome,
     CloseOutcome DEF MainNext
<1> QED
  BY <1>2, <1>3

\* A step that fails after the user agreed ends with exit code 2, and an end without
\* a failure is a write, a dry run, or a no to the second question.
THEOREM OutcomeIsKnown == ASSUME NoneIsNoWrite PROVE MainSpec => []OutcomeIsTold
<1>1. MainInit => EndInv
  BY InitIInv DEF MainInit, EndInv, OnCourse, Outcome, Asking, Writing
<1>2. EndInv => OutcomeIsTold
  BY DEF EndInv, Outcome, OutcomeIsTold, Declined
<1> QED
  BY <1>1, <1>2, StepEndInv, PTL DEF MainSpec

-----------------------------------------------------------------------------
(* What args_to_config made sure of, and what a file puts in its place.    *)

Updates == {"UPDATE1", "UPDATE2"}

UpdateSeen == c.command \in Updates => "update" \in seen
Sound == /\ key # 0 => key = KeyLength(c)
         /\ c.command \in Updates => AllowedInUpdate(c)

\* An update has been asked for by -u.
LEMMA UpdateIsSeen ==
    ASSUME LineInv, UpdateSeen, Next
    PROVE  UpdateSeen'
<1>1. CASE UNCHANGED <<c, seen>>
  BY <1>1 DEF UpdateSeen
<1>2. ASSUME NEW d, NEW now, Take(d, now), d.command \in Updates => "update" \in seen
      PROVE  UpdateSeen'
  BY <1>2 DEF Take, UpdateSeen
<1>3. ASSUME NEW d, NEW command, NEW now, Command(d, command, now), IsConfig(d),
             command \in Updates => "update" \in seen
      PROVE  UpdateSeen'
  <2>1. c'.command = command /\ seen \subseteq seen'
    BY <1>3 DEF Command, Take, IsConfig, Fields
  <2> QED
    BY <1>3, <2>1 DEF UpdateSeen
<1>4. ASSUME NEW d, NEW now, Take(d, now), Keeps(d, c) PROVE UpdateSeen'
  BY <1>2, <1>4 DEF Keeps, UpdateSeen
<1>5. CASE EndLine \/ BadDevice \/ Usage \/ (\E wish \in Asks : Wish(wish))
           \/ (\E n \in {16, 20} : TypeKey(n))
  <2>1. UNCHANGED <<c, seen>>
    BY <1>5 DEF EndLine, BadDevice, Usage, Wish, TypeKey, Reject
  <2> QED
    BY <1>1, <2>1
<1>6. CASE Update \/ Zap
  BY <1>1, <1>4, <1>6, Same DEF Update, Zap, Refused, Reject
<1>7. ASSUME NEW n \in {1, 2}, ChooseSlot(n) PROVE UpdateSeen'
  <2>1. IsConfig(SlotFlags(n))
    BY SlotFlagsKeep DEF LineInv
  <2>2. SlotCommand(n) \in Updates => "update" \in seen
    BY DEF SlotCommand, Updates
  <2>3. \/ UNCHANGED <<c, seen>>
        \/ Command(SlotFlags(n), SlotCommand(n), {"slot"})
    BY <1>7 DEF ChooseSlot, Refused, Lacks, Reject
  <2> QED
    BY <1>1, <1>3, <2>1, <2>2, <2>3
<1>8. ASSUME NEW option, NEW command, NEW now, OwnCommand(option, command, now),
             command \notin Updates
      PROVE  UpdateSeen'
  <2>1. UNCHANGED <<c, seen>> \/ Command(c, command, {now})
    BY <1>8 DEF OwnCommand, Refused, Lacks, Reject
  <2> QED
    BY <1>1, <1>3, <1>8, <2>1 DEF LineInv
<1>9. CASE Swap \/ Ndef \/ UsbMode \/ ScanMap \/ ScanMapAlone \/ DeviceInfo
  <2>1. \E option : \E now : \E command \in {"SWAP", "NDEF", "NDEF2", "DEVICE_CONFIG", "SCAN_MAP",
                                           "YK4_SET_DEVICE_INFO"} :
            OwnCommand(option, command, now)
    <3>1. CASE Ndef
      BY <3>1 DEF Ndef, Record
    <3>2. CASE ScanMap \/ ScanMapAlone
      BY <3>2 DEF ScanMap, ScanMapAlone
    <3>3. CASE Swap \/ UsbMode \/ DeviceInfo
      BY <3>3 DEF Swap, UsbMode, DeviceInfo
    <3> QED
      BY <1>9, <3>1, <3>2, <3>3
  <2> QED
    BY <1>8, <2>1 DEF Updates
<1>10. ASSUME NEW name \in Names, NEW state \in BOOLEAN, Option(name, state) PROVE UpdateSeen'
  <2> DEFINE choosing == state /\ name \in {"OATH_HOTP", "CHAL_RESP"}
             d == IF choosing THEN ModeCleared(c) ELSE c
             e == Put(d, FlagNamed[name], state)
  <2>1. Keeps(d, c)
    BY Same, ClearKeeps DEF LineInv, ModeCleared
  <2>2. Keeps(e, c)
    BY <2>1, ArgsAssumption, NamedRows, PutKeeps DEF Keeps
  <2>3. UNCHANGED <<c, seen>> \/ \E now : Take(e, now)
    BY <1>10 DEF Option, Reject
  <2> HIDE DEF e
  <2> QED
    BY <1>1, <1>4, <2>2, <2>3
<1>11. CASE Uid \/ (\E seed \in Imfs : OathImf(seed))
            \/ (\E wish \in Asks : OptionWithData(wish))
  <2>1. /\ Keeps([c EXCEPT !.imf = UidTail], c) /\ Keeps(c, c)
        /\ \A seed : Keeps(SetImf(c, seed), c)
    BY SetImfKeeps DEF LineInv, IsConfig, Fields, Keeps
  <2>2. \/ UNCHANGED <<c, seen>>
        \/ Take([c EXCEPT !.imf = UidTail], {"option"})
        \/ \E seed \in Imfs : Take(SetImf(c, seed), {"option"})
        \/ Take(c, {"option"})
    BY <1>11 DEF Uid, OathImf, OptionWithData, Reject
  <2> QED
    BY <1>1, <1>4, <2>1, <2>2
<1> QED
  BY <1>5, <1>6, <1>7, <1>9, <1>10, <1>11 DEF Next, Argument

\* The tests at the end of the line.
LEMMA EndIsSound ==
    ASSUME LineInv, UpdateSeen, parse = "reading", Next, parse' = "accepted"
    PROVE  Sound'
<1>1. EndLine
  <2>1. CASE Argument
    <3>1. parse' = parse \/ parse' = "rejected"
      BY <2>1 DEF Argument, Update, ChooseSlot, Zap, Swap, Ndef, BadDevice, UsbMode, ScanMap,
                  ScanMapAlone,
                  DeviceInfo, Option, OathImf, Uid, OptionWithData, Wish, TypeKey, Usage,
                  OwnCommand, Refused, Lacks, Command, Reject, Take
    <3> QED
      BY <3>1
  <2> QED
    BY <2>1 DEF Next
<1>2. /\ Complete /\ UNCHANGED <<c, seen>>
      /\ key' = IF NeedsKey THEN KeyLength(c) ELSE 0
  BY <1>1 DEF EndLine, Reject
<1> QED
  BY <1>2 DEF Sound, Complete, Unallowed, UpdateSeen

-----------------------------------------------------------------------------
Early == {"open", "args", "ids", "files", "import"}
Parsed == (Asking \cup Writing) \ {"open", "args"}

CheckedInv ==
    /\ IsConfig(c) /\ (parse # "accepted" => key = 0)
    /\ stage \in {"open", "args"} => LineInv /\ UpdateSeen
    /\ stage \in Parsed \/ written # None => parse = "accepted"
    /\ parse = "accepted" /\ (stage \in Early \/ "in" \notin wishes) => Sound

LEMMA InitChecked == MainInit => CheckedInv
<1> SUFFICES ASSUME MainInit PROVE CheckedInv
  OBVIOUS
<1>1. Init /\ stage = "open" /\ written = None
  BY DEF MainInit
<1>2. LineInv
  BY <1>1, LineStarts
<1> QED
  BY <1>1, <1>2 DEF Init, EmptyConfig, LineInv, UpdateSeen, Updates, CheckedInv, Parsed, Asking,
                    Writing

\* A step of main that leaves the configuration alone, of which there are many.
LEMMA KeptChecked ==
    ASSUME CheckedInv, UNCHANGED <<c, seen, wishes, key, parse>>,
           stage \notin {"open", "args"} => stage' \notin {"open", "args"},
           stage \notin Early => stage' \notin Early,
           stage' \in Parsed \/ written' # None => parse = "accepted",
           stage' \in {"open", "args"} => LineInv'
    PROVE  CheckedInv'
BY DEF CheckedInv, UpdateSeen, Sound

\* The flags that -ooath-id sets: in no word that a mode or an update looks at.
LEMMA OathIdFlags ==
    /\ {"OATH_FIXED_MODHEX2", "SERIAL_API_VISIBLE"} \subseteq DOMAIN FlagNamed
    /\ FlagNamed["OATH_FIXED_MODHEX2"].word = "cfg" /\ FlagNamed["OATH_FIXED_MODHEX2"].bits = {6}
    /\ FlagNamed["SERIAL_API_VISIBLE"].word = "ext"
<1> DEFINE IdRow(f) ==
        /\ f.name = "OATH_FIXED_MODHEX2" => f.word = "cfg" /\ f.bits = {6}
        /\ f.name = "SERIAL_API_VISIBLE" => f.word = "ext"
<1>1. ASSUME NEW i \in DOMAIN TicketFlags PROVE IdRow(TicketFlags[i])
  BY SMTT(30) DEF TicketFlags, Ticket, Flag
<1>2. ASSUME NEW i \in DOMAIN ConfigFlags PROVE IdRow(ConfigFlags[i])
  <2>1. ConfigFlags[i].name # "SERIAL_API_VISIBLE"
    BY SMTT(60) DEF ConfigFlags, Ticket, Flag
  <2>2. i # 7 => ConfigFlags[i].name # "OATH_FIXED_MODHEX2"
    BY SMTT(60) DEF ConfigFlags, Ticket, Flag
  <2>3. ConfigFlags[7].word = "cfg" /\ ConfigFlags[7].bits = {6}
    BY SMTT(60) DEF ConfigFlags, Ticket, Flag
  <2> QED
    BY <2>1, <2>2, <2>3
<1>3. ASSUME NEW i \in DOMAIN ExtendedFlags PROVE IdRow(ExtendedFlags[i])
  BY SMTT(30) DEF ExtendedFlags, Flag
<1>4. \A f \in Flags : IdRow(f)
  BY <1>1, <1>2, <1>3 DEF Flags, ToSet
<1>5. /\ ConfigFlags[7].name = "OATH_FIXED_MODHEX2" /\ 7 \in DOMAIN ConfigFlags
      /\ ExtendedFlags[3].name = "SERIAL_API_VISIBLE" /\ 3 \in DOMAIN ExtendedFlags
  <2>1. ConfigFlags[7].name = "OATH_FIXED_MODHEX2" /\ 7 \in DOMAIN ConfigFlags
    BY SMTT(60) DEF ConfigFlags, Ticket, Flag
  <2> QED
    BY <2>1 DEF ExtendedFlags, Flag
<1> HIDE DEF IdRow
<1>6. {"OATH_FIXED_MODHEX2", "SERIAL_API_VISIBLE"} \subseteq DOMAIN FlagNamed
  BY <1>5 DEF FlagNamed, Flags, ToSet
<1>7. ASSUME NEW name \in DOMAIN FlagNamed PROVE FlagNamed[name].name = name /\ IdRow(FlagNamed[name])
  <2>1. \E f \in Flags : f.name = name
    BY <1>7 DEF FlagNamed
  <2>2. FlagNamed[name] = CHOOSE f \in Flags : f.name = name
    BY <1>7 DEF FlagNamed
  <2> QED
    BY <1>4, <2>1, <2>2
<1> QED
  BY <1>6, <1>7 DEF IdRow

LEMMA SetOathIdIs ==
    ASSUME NEW d, IsConfig(d)
    PROVE  /\ Keeps(SetOathId(d), d) /\ KeyLength(SetOathId(d)) = KeyLength(d)
           /\ AllowedInUpdate(d) => SetOathId(d) = d
<1> DEFINE e == SetNamed(d, "OATH_FIXED_MODHEX2")
           f == SetNamed(e, "SERIAL_API_VISIBLE")
           S == IF CanSet(d, FlagNamed["OATH_FIXED_MODHEX2"]) THEN {FlagNamed["OATH_FIXED_MODHEX2"]} ELSE {}
           T == IF CanSet(e, FlagNamed["SERIAL_API_VISIBLE"]) THEN {FlagNamed["SERIAL_API_VISIBLE"]} ELSE {}
<1>1. Adds(e, d, S) /\ Keeps(e, d)
  BY OathIdFlags, SetNamedAdds, SetNamedKeeps
<1>2. Adds(f, e, T) /\ Keeps(f, e)
  <2> HIDE DEF e
  <2> QED
    BY <1>1, OathIdFlags, SetNamedAdds, SetNamedKeeps DEF Keeps
<1>3. /\ Bits(S, "tkt") = {} /\ Bits(S, "cfg") \subseteq {6}
      /\ Bits(T, "tkt") = {} /\ Bits(T, "cfg") = {}
  <2> HIDE DEF e
  <2> QED
    BY OathIdFlags DEF Bits
<1>4. SetOathId(d) = IF HasNamed(d, "OATH_HOTP") THEN f ELSE d
  BY DEF SetOathId
<1> HIDE DEF e, f, S, T
<1>5. f.tkt = d.tkt /\ d.cfg \subseteq f.cfg /\ f.cfg \subseteq d.cfg \cup {6} /\ Keeps(f, d)
  BY <1>1, <1>2, <1>3 DEF Adds, Keeps, Words
<1>6. \A g : KeyLength(g) = IF 6 \in g.tkt /\ ({1, 5} \subseteq g.cfg \/ 5 \notin g.cfg) THEN 20 ELSE 16
  BY KeyLengthIs
<1>7. KeyLength(f) = KeyLength(d)
  BY <1>5, <1>6
<1>8. AllowedInUpdate(d) => ~HasNamed(d, "OATH_HOTP")
  BY NoMode DEF AllowedInUpdate
<1> QED
  BY <1>4, <1>5, <1>7, <1>8 DEF Keeps

LEMMA OpenChecked == ASSUME CheckedInv, Open PROVE CheckedInv'
<1>1. /\ stage = "open" /\ stage' \in {"args", "close"}
      /\ UNCHANGED <<c, seen, wishes, key, parse, slot, ndefs, written>>
  BY DEF Open, At, Works, GoTo, Quietly, ArgsKept, args, FailsWith, Stop, Unread
<1>2. LineInv'
  BY <1>1 DEF CheckedInv, LineInv, OwnKept, SlotKept, SwapKept, KeyKept, Behind,
              SlotCommand, Record
<1> QED
  BY <1>1, <1>2 DEF CheckedInv, Parsed, Asking, Writing, Early, UpdateSeen, Sound

LEMMA ArgsChecked == ASSUME CheckedInv, written = None, Args PROVE CheckedInv'
<1>1. stage = "args" /\ LineInv /\ UpdateSeen /\ written' = None
  BY DEF Args, At, CheckedInv, main, Works, Quietly, Fails, Stop
<1>2. CASE parse = "reading" /\ Next /\ UNCHANGED main
  <2>1. LineInv' /\ UpdateSeen'
    BY <1>1, <1>2, StepLine, UpdateIsSeen
  <2>2. parse' = "accepted" => Sound'
    BY <1>1, <1>2, EndIsSound
  <2>3. stage' = "args"
    BY <1>1, <1>2 DEF main
  <2> QED
    BY <1>1, <2>1, <2>2, <2>3 DEF CheckedInv, LineInv, KeyKept, Parsed
<1>3. CASE \/ parse = "accepted" /\ Works("ids") /\ ArgsKept
           \/ parse = "rejected" /\ Fails("args")
  BY <1>1, <1>3 DEF Works, GoTo, Quietly, ArgsKept, args, Fails, Stop, CheckedInv, Parsed,
                    Asking, Writing, Early, Sound
<1> QED
  BY <1>2, <1>3 DEF Args

LEMMA IdsChecked == ASSUME CheckedInv, written = None, Ids PROVE CheckedInv'
<1>1. stage = "ids" /\ parse = "accepted" /\ IsConfig(c) /\ Sound /\ written' = None
  BY DEF Ids, At, CheckedInv, Parsed, Asking, Writing, Early, FailsWith, Stop, Quietly
<1>2. CASE FailsWith("access", 1)
  <2>1. stage' = "close" /\ UNCHANGED <<c, seen, wishes, key, parse>>
    BY <1>2 DEF FailsWith, Stop, Unread
  <2> QED
    BY <1>1, <2>1, KeptChecked DEF Early, Parsed, Asking, Writing
<1>3. CASE /\ GoTo("files") /\ c' = IF "oath_id" \in wishes THEN SetOathId(c) ELSE c
           /\ Unread
  <2>1. stage' = "files" /\ UNCHANGED <<seen, wishes, key, parse>>
    BY <1>3 DEF GoTo, Unread
  <2>2. /\ IsConfig(c') /\ c'.command = c.command /\ KeyLength(c') = KeyLength(c)
        /\ AllowedInUpdate(c) => c' = c
    BY <1>1, <1>3, SetOathIdIs DEF Keeps
  <2> QED
    BY <1>1, <2>1, <2>2 DEF CheckedInv, Sound
<1> QED
  BY <1>2, <1>3 DEF Ids

\* After an import, which only a line with -i comes to, nothing is said any more.
LEMMA ImportChecked == ASSUME CheckedInv, written = None, Import PROVE CheckedInv'
<1>1. stage = "import" /\ parse = "accepted" /\ IsConfig(c) /\ written' = None
  BY DEF Import, At, CheckedInv, Parsed, Asking, Writing, Works, Fails, Stop, Quietly
<1>2. CASE (Works("save") /\ ArgsKept) \/ Fails("import")
  <2>1. stage' \in {"save", "close"} /\ UNCHANGED <<c, seen, wishes, key, parse>>
    BY <1>2 DEF Works, GoTo, Fails, Stop, ArgsKept, args
  <2> QED
    BY <1>1, <2>1, KeptChecked DEF Early, Parsed, Asking, Writing
<1>3. ASSUME "in" \in wishes, NEW file \in Files, c' = ImportJson(ClearConfig(c), file).c,
             Unread, Works("save")
      PROVE  CheckedInv'
  <2>1. stage' = "save" /\ UNCHANGED <<seen, wishes, key, parse>>
    BY <1>3 DEF Works, GoTo, Unread
  <2>2. IsConfig(c')
    BY <1>1, <1>3, FilesAssumption, ClearKeeps, ImportKeeps DEF Keeps
  <2> QED
    BY <1>1, <1>3, <2>1, <2>2 DEF CheckedInv, Early
<1> QED
  BY <1>2, <1>3 DEF Import

\* The other steps come after the line, and leave the configuration alone.
LEMMA LateChecked ==
    ASSUME CheckedInv,
           OpenFiles \/ Save \/ Show \/ Ask \/ Write \/ Warn \/ Send \/ Close
    PROVE  CheckedInv'
<1>1. UNCHANGED <<c, seen, wishes, key, parse>>
  BY DEF OpenFiles, Save, Show, Ask, Write, Construct, Warn, Send, Close, Refusal, Works, Fails,
         FailsWith, Succeeds, ArgsKept, args, Unread
<1>2. CASE OpenFiles
  <2>1. /\ stage = "files" /\ stage' \in {"import", "close", "done"} /\ written' = written
    BY <1>2 DEF OpenFiles, At, Works, GoTo, FailsWith, Stop, Quietly
  <2> QED
    BY <1>1, <2>1, KeptChecked DEF CheckedInv, Early, Parsed, Asking, Writing
<1>3. CASE Save \/ Show \/ Ask \/ Write \/ Warn \/ Send
  <2>1. /\ stage \in Parsed \ Early
        /\ stage' \in (Parsed \ Early) \cup {"close"}
    BY <1>3 DEF Save, Show, Ask, Write, Construct, Warn, Send, Refusal, At, Works, GoTo, Fails,
                Stop, Succeeds, Early, Parsed, Asking, Writing
  <2>2. parse = "accepted"
    BY <2>1 DEF CheckedInv
  <2> QED
    BY <1>1, <2>1, <2>2, KeptChecked DEF Early, Parsed
<1>4. CASE Close
  <2>1. stage = "close" /\ stage' = "done" /\ written' = written
    BY <1>4 DEF Close, At, GoTo, Quietly
  <2> QED
    BY <1>1, <2>1, KeptChecked DEF CheckedInv, Early, Parsed, Asking, Writing
<1> QED
  BY <1>2, <1>3, <1>4

LEMMA StepChecked == IInv /\ CheckedInv /\ [MainNext]_vars => CheckedInv'
<1> SUFFICES ASSUME IInv, CheckedInv, [MainNext]_vars PROVE CheckedInv'
  OBVIOUS
<1>1. CASE UNCHANGED vars
  BY <1>1 DEF vars, args, main, CheckedInv, LineInv, OwnKept, SlotKept, SwapKept, KeyKept,
              Behind, SlotCommand, Record, UpdateSeen, Sound
<1>2. Args \/ Ids \/ Import => written = None
  BY DEF IInv, NothingYet, Asking, Args, Ids, Import, At
<1> QED
  BY <1>1, <1>2, OpenChecked, ArgsChecked, IdsChecked, ImportChecked, LateChecked DEF MainNext

\* For all firmwares and lines: the key that was made up is as long as the mode that
\* is written wants it, and an update sets no flag that it may not, where no file was
\* read in between; what -ooath-id adds after the checks does no harm to either.
THEOREM ChecksSurvive == MainSpec => []ChecksHoldWithoutFile
<1>1. IInv /\ CheckedInv => ChecksHoldWithoutFile
  <2> SUFFICES ASSUME IInv, CheckedInv, written # None, "in" \notin wishes
               PROVE  ChecksHoldWithoutFile
    BY DEF ChecksHoldWithoutFile
  <2>1. stage \in {"close", "done"}
    BY DEF IInv, Stages, NothingYet, OnTheWay
  <2>2. written.command = c.command /\ written.c = c
    BY <2>1 DEF IInv, WrittenIsHere
  <2>3. Sound
    BY DEF CheckedInv
  <2> QED
    BY <2>2, <2>3 DEF ChecksHoldWithoutFile, Sound, Updates
<1> QED
  BY <1>1, InitIInv, StepIInv, InitChecked, StepChecked, PTL DEF MainSpec

-----------------------------------------------------------------------------
(* The file.                                                               *)

\* A file that the configuration is the import of.
Replaced == \E file \in Files : Matches(ImportJson(ClearConfig(c), file).c, c)

FromFile == (stage \in (Asking \cup Writing) \ Early \/ written # None) /\ "in" \in wishes
                => Replaced

\* A step that leaves the configuration alone and comes from behind the import.
LEMMA KeptFromFile ==
    ASSUME FromFile, UNCHANGED <<c, wishes>>,
           \/ stage \in (Asking \cup Writing) \ Early
           \/ stage' \notin (Asking \cup Writing) \ Early /\ written' = written
    PROVE  FromFile'
BY DEF FromFile, Replaced

LEMMA ImportFromFile == ASSUME CheckedInv, IInv, Import PROVE FromFile'
<1>1. stage = "import" /\ IsConfig(c) /\ written = None
  BY DEF Import, At, CheckedInv, IInv, NothingYet, Asking
<1>2. CASE "in" \notin wishes /\ ArgsKept
  BY <1>2 DEF ArgsKept, args, FromFile
<1>3. CASE Fails("import")
  BY <1>1, <1>3 DEF Fails, Stop, Quietly, FromFile, Asking, Writing
<1>4. ASSUME NEW file \in Files, ImportJson(ClearConfig(c), file).ok,
             c' = ImportJson(ClearConfig(c), file).c
      PROVE  FromFile'
  <2>1. Matches(ImportJson(ClearConfig(c'), file).c, c')
    BY <1>1, <1>4, FilesAssumption, ImportAgain
  <2> QED
    BY <2>1 DEF FromFile, Replaced
<1> QED
  BY <1>2, <1>3, <1>4 DEF Import

LEMMA StepFromFile == IInv /\ CheckedInv /\ FromFile /\ [MainNext]_vars => FromFile'
<1> SUFFICES ASSUME IInv, CheckedInv, FromFile, [MainNext]_vars PROVE FromFile'
  OBVIOUS
<1>1. CASE UNCHANGED vars
  BY <1>1 DEF vars, args, main, FromFile, Replaced
<1>2. CASE Open \/ Args \/ Ids \/ OpenFiles
  <2>1. written' = written /\ stage' \in Early \cup {"close", "done"}
    BY <1>2 DEF Open, Args, Ids, OpenFiles, At, main, Early, Works, GoTo, Fails, FailsWith, Stop,
                Quietly
  <2>2. written = None
    BY <1>2 DEF IInv, NothingYet, Asking, Open, Args, Ids, OpenFiles, At
  <2> QED
    BY <2>1, <2>2 DEF FromFile, Early, Asking, Writing
<1>3. CASE Save \/ Show \/ Ask \/ Write \/ Warn \/ Send \/ Close
  <2>1. UNCHANGED <<c, wishes>>
    BY <1>3 DEF Save, Show, Ask, Write, Construct, Warn, Send, Close, Refusal, Works, Fails,
                Succeeds, ArgsKept, args, Unread
  <2>2. \/ stage \in (Asking \cup Writing) \ Early
        \/ stage' = "done" /\ written' = written
    BY <1>3 DEF Save, Show, Ask, Write, Warn, Send, Close, At, GoTo, Quietly, Asking, Writing,
                Early
  <2> QED
    BY <2>1, <2>2, KeptFromFile DEF Asking, Writing
<1>4. CASE Import
  BY <1>4, ImportFromFile
<1> QED
  BY <1>1, <1>2, <1>3, <1>4 DEF MainNext

\* For all files and lines: where a file was read, no flag of the line is left in what
\* is written, and the default flags of its slot neither: it has the flags that the
\* file loads into a cleared configuration.
THEOREM FileWins == MainSpec => []FileReplacesTheLine
<1>1. MainInit => FromFile
  BY DEF MainInit, FromFile, Early, Asking, Writing
<1>2. IInv /\ FromFile => FileReplacesTheLine
  <2> SUFFICES ASSUME IInv, FromFile, written # None, "in" \in wishes
               PROVE  FileReplacesTheLine
    BY DEF FileReplacesTheLine
  <2>1. stage \in {"close", "done"}
    BY DEF IInv, Stages, NothingYet, OnTheWay
  <2>2. written.c = c
    BY <2>1 DEF IInv, WrittenIsHere
  <2>3. PICK file \in Files : Matches(ImportJson(ClearConfig(c), file).c, c)
    BY DEF FromFile, Replaced
  <2> DEFINE d == ImportJson(ClearConfig(c), file).c
  <2>4. d.tkt = c.tkt /\ d.cfg = c.cfg /\ d.ext = c.ext
    BY <2>3, MatchesIs DEF Words
  <2> QED
    BY <2>2, <2>4 DEF FileReplacesTheLine
<1> QED
  BY <1>1, <1>2, InitIInv, StepIInv, InitChecked, StepChecked, StepFromFile, PTL DEF MainSpec
=============================================================================
