------------------------------- MODULE Tools -------------------------------
(***************************************************************************)
(* The two programs that read from a key: ykchalresp, which sends a        *)
(* challenge and prints the answer, and ykinfo, which prints what the key  *)
(* tells of itself.  Both take a line of options one by one, open the key, *)
(* and end through the same last steps.  From ykchalresp.c and ykinfo.c.   *)
(*                                                                         *)
(* The text of a challenge is a sequence of characters that are a hex      *)
(* digit, another one, or the terminator.                                  *)
(***************************************************************************)
EXTENDS Integers, Sequences, SequencesExt, FiniteSetsExt

CONSTANTS
    Contents,        \* what the file of -i may hold
    Arguments,       \* the challenges that a line may give
    TimeText,        \* the time of -t, which begins with a zero byte
    BlockSize,       \* SHA1_MAX_BLOCK_SIZE, and the room for a file
    Infos,           \* the options of ykinfo that the line may have
    Serials,         \* the serial numbers
    SerialLimit,     \* the first number that an int has no place for
    MaxOptions       \* bounds the options of a line

Hex == 1
Nul == 0
Other == 2

VARIABLES
    tool,            \* which program it is
    stage,           \* how far main is
    options,         \* the locals that the options set
    given,           \* the number of options taken
    challenge,       \* *challenge and *challenge_len, decoded or not
    printed,         \* the kinds of information that were printed
    shown,           \* the serial number as it was printed
    serial,          \* the key's serial number
    key,             \* the key: "closed", "open", or "left" when close failed
    code             \* exit_code

toolVars == <<tool, stage, options, given, challenge, printed, shown,
              serial, key, code>>

\* What ykinfo can be asked for, by the call that reads it.
Groups == [serial |-> {"serial_dec", "serial_modhex", "serial_hex"},
           status |-> {"version", "touch_level", "pgm_seq", "slot1", "slot2"},
           ids |-> {"vid", "pid"},
           capa |-> {"capa"}]
Kinds == UNION {Groups[group] : group \in DOMAIN Groups}
ASSUME ToolsAssumption ==
    /\ Contents \cup Arguments \cup {TimeText} \subseteq Seq({Nul, Hex, Other})
    /\ \A text \in Arguments : Nul \notin ToSet(text)
    /\ BlockSize \in Nat \ {0} /\ MaxOptions \in Nat
    /\ SerialLimit \in Nat \ {0} /\ Serials \subseteq 0 .. 2 * SerialLimit - 1
    /\ Infos \subseteq Kinds

NoFile == [readable |-> FALSE, text |-> <<>>]
NoChallenge == [from |-> "nothing", text |-> <<>>, decoded |-> 0, length |-> 0]

ToolsInit ==
    /\ tool \in {"ykchalresp", "ykinfo"} /\ stage = "options"
    /\ options = [slot |-> 1, hmac |-> TRUE, may_block |-> TRUE, totp |-> FALSE,
                  digits |-> 0, hex |-> FALSE, input |-> NoFile, wants |-> {}]
    /\ given = 0 /\ challenge = NoChallenge /\ printed = {}
    /\ shown = [dec |-> 0, hex |-> <<>>, modhex |-> <<>>]
    /\ serial \in Serials /\ key = "closed" /\ code = 0

-----------------------------------------------------------------------------
(* The options.                                                            *)

\* parse_args returns 0: the program is over, with exit code 0 whatever the
\* reason.
Quits == stage' = "over" /\ UNCHANGED <<options, challenge, code>>
Sets(o) == options' = o /\ UNCHANGED <<stage, challenge, code>>
SetsFile(file) == Sets([options EXCEPT !.input = file])

\* The options of ykchalresp.  A file that cannot be opened is as good as none.
ChalRespOption ==
    \/ \E n \in {1, 2} : Sets([options EXCEPT !.slot = n])
    \/ Sets([options EXCEPT !.hmac = TRUE])
    \/ Sets([options EXCEPT !.may_block = FALSE])
    \/ Sets([options EXCEPT !.totp = TRUE, !.hmac = TRUE])
    \/ \E n \in {6, 8} : Sets([options EXCEPT !.digits = n])
    \/ Sets([options EXCEPT !.hmac = FALSE, !.totp = FALSE])
    \/ Sets([options EXCEPT !.hex = TRUE])
    \/ \E text \in Contents : SetsFile([readable |-> TRUE, text |-> text])
    \/ SetsFile(NoFile)
    \/ Quits

All == Kinds \ {"capa"}

\* The options of ykinfo: -a is all but the capabilities.
InfoOption ==
    \/ \E kind \in Infos : Sets([options EXCEPT !.wants = @ \cup {kind}])
    \/ Sets([options EXCEPT !.wants = @ \cup All])
    \/ Quits

Option ==
    /\ stage = "options" /\ given < MaxOptions /\ given' = given + 1
    /\ \/ tool = "ykchalresp" /\ ChalRespOption
       \/ tool = "ykinfo" /\ InfoOption
    /\ UNCHANGED <<tool, printed, shown, serial, key>>

-----------------------------------------------------------------------------
(* The challenge.                                                          *)

Plain(from, text) ==
    [from |-> from, text |-> text, decoded |-> 0, length |-> Len(text)]

Cut(text) == SubSeq(text, 1, Min({BlockSize, Len(text)}))

\* The string that begins a text: up to its first terminator.
StringOf(text) ==
    LET nuls == {i \in DOMAIN text : text[i] = Nul} IN
    SubSeq(text, 1, Min({i - 1 : i \in nuls} \cup {Len(text)}))

\* Mutant of IsHex: an odd number of digits will do.
IsHexOrOdd(text) == Len(text) <= 2 * BlockSize /\ Other \notin ToSet(StringOf(text))

\* A challenge in hex must be of even length and fit, and the string that it
\* begins with must be hex.
IsHex(text) ==
    /\ Len(text) <= 2 * BlockSize /\ Len(text) % 2 = 0
    /\ Other \notin ToSet(StringOf(text))

\* The digits of the string are decoded, for half the length.
Decoded(c) ==
    [c EXCEPT !.decoded = Len(StringOf(c.text)), !.length = Len(c.text) \div 2]

\* The first of the time, the file and the argument that there is.
Source(argument) ==
    CASE options.totp -> Plain("time", TimeText)
      [] ~options.totp /\ options.input.readable -> Plain("file", Cut(options.input.text))
      [] ~options.totp /\ ~options.input.readable -> Plain("argument", argument[1])

\* The end of ykchalresp's options, with an argument behind them or not.  The
\* ends of this kind leave the exit code at 0.
Missing(argument) ==
    \/ argument = <<>> /\ ~options.totp /\ ~options.input.readable
    \/ argument # <<>> /\ options.totp /\ options.input.readable
EmptyFile == ~options.totp /\ options.input.readable /\ options.input.text = <<>>

EndChalResp ==
    \E argument \in {<<>>} \cup {<<text>> : text \in Arguments} :
        \/ (Missing(argument) \/ EmptyFile) /\ Quits
        \/ /\ ~Missing(argument) /\ ~EmptyFile
           /\ LET c == Source(argument) IN
              \/ options.hex /\ ~IsHex(c.text) /\ Quits
              \/ /\ options.hex => IsHex(c.text)
                 /\ challenge' = IF options.hex THEN Decoded(c) ELSE c
                 /\ stage' = "init" /\ UNCHANGED <<options, code>>

EndInfo ==
    \/ options.wants = {} /\ Quits
    \/ options.wants # {} /\ stage' = "init" /\ UNCHANGED <<options, challenge, code>>

EndOptions ==
    /\ stage = "options"
    /\ \/ tool = "ykchalresp" /\ EndChalResp
       \/ tool = "ykinfo" /\ EndInfo
    /\ UNCHANGED <<tool, given, printed, shown, serial, key>>

-----------------------------------------------------------------------------
(* The key.                                                                *)

\* Mutant of Fails: the exit code is left alone.
FailsUntold == stage' = "close" /\ UNCHANGED code
Fails == stage' = "close" /\ code' = 1

Onto(next) == stage' = next /\ UNCHANGED code

\* yk_init.
Initialise ==
    /\ stage = "init"
    /\ Onto("open") \/ Fails
    /\ UNCHANGED <<tool, options, given, challenge, printed, shown, serial, key>>

\* yk_open_key.
OpenKey ==
    /\ stage = "open"
    /\ \/ key' = "open" /\ Onto(IF tool = "ykinfo" THEN "serial" ELSE "check")
       \/ key' = key /\ Fails
    /\ UNCHANGED <<tool, options, given, challenge, printed, shown, serial>>

\* check_firmware: yk_get_status fails, or the firmware is too old.
CheckFirmware ==
    /\ stage = "check"
    /\ Onto("respond") \/ Fails
    /\ UNCHANGED <<tool, options, given, challenge, printed, shown, serial, key>>

\* How the answer is printed: digits are for HMAC only.
Form == IF options.hmac /\ options.digits # 0 THEN "digits"
        ELSE IF options.hmac THEN "hex" ELSE "modhex"

\* challenge_response.  A challenge that does not fit is refused by
\* yk_write_to_key.
Respond ==
    /\ stage = "respond"
    /\ \/ challenge.length <= BlockSize /\ printed' = {Form} /\ Onto("close")
       \/ printed' = printed /\ Fails
    /\ UNCHANGED <<tool, options, given, challenge, shown, serial, key>>

-----------------------------------------------------------------------------
(* What ykinfo prints.                                                     *)

\* %x.
HexDigits(n) ==
    LET digits[m \in 0 .. n] ==
            IF m < 16 THEN <<m>> ELSE Append(digits[m \div 16], m % 16)
    IN digits[n]

\* Mutant of Padded: the digits as they are.
PaddedNot(digits) == digits
Padded(digits) == IF Len(digits) % 2 = 1 THEN <<0>> \o digits ELSE digits

\* yubikey_hex_decode, and the two digits of every byte in modhex.
Bytes(digits) ==
    [i \in 1 .. Len(digits) \div 2 |-> 16 * digits[2 * i - 1] + digits[2 * i]]
Modhex(bytes) ==
    [i \in 1 .. 2 * Len(bytes) |-> IF i % 2 = 1 THEN bytes[(i + 1) \div 2] \div 16
                                    ELSE bytes[i \div 2] % 16]

\* The serial number in all its forms: %d takes it for signed.
Forms == LET digits == Padded(HexDigits(serial)) IN
    [dec |-> IF serial < SerialLimit THEN serial ELSE serial - 2 * SerialLimit,
     hex |-> digits, modhex |-> Modhex(Bytes(digits))]

Following == [serial |-> "status", status |-> "ids", ids |-> "capa", capa |-> "close"]

\* One of the four calls of ykinfo, which prints what was asked for of its
\* group; there is none when nothing was.
Inform ==
    /\ stage \in DOMAIN Groups
    /\ LET wanted == options.wants \cap Groups[stage] IN
       \/ /\ printed' = printed \cup wanted /\ Onto(Following[stage])
          /\ shown' = IF stage = "serial" /\ wanted # {} THEN Forms ELSE shown
       \/ wanted # {} /\ Fails /\ UNCHANGED <<printed, shown>>
    /\ UNCHANGED <<tool, options, given, challenge, serial, key>>

-----------------------------------------------------------------------------
(* The end of both.                                                        *)

\* yk_close_key, if there is a key.
CloseKey ==
    /\ stage = "close" /\ stage' = "release"
    /\ \/ key' = "closed" /\ UNCHANGED code
       \/ key = "open" /\ key' = "left" /\ code' = 2
    /\ UNCHANGED <<tool, options, given, challenge, printed, shown, serial>>

\* yk_release.
Release ==
    /\ stage = "release" /\ stage' = "done" /\ code' \in {code, 2}
    /\ UNCHANGED <<tool, options, given, challenge, printed, shown, serial, key>>

ToolsNext ==
    \/ Option \/ EndOptions \/ Initialise \/ OpenKey
    \/ CheckFirmware \/ Respond \/ Inform \/ CloseKey \/ Release

ToolsSpec == ToolsInit /\ [][ToolsNext]_toolVars

-----------------------------------------------------------------------------
(* Properties.                                                             *)

\* An answer that is printed is the answer to the whole challenge: to all the
\* bytes of a text, or to all the bytes that its digits stand for and no others.
\* In hex, a text with a zero byte in it is left out, the time of -t above all:
\* its string ends there, and zeros are sent in its place.  A file is whole if
\* a block holds it.
ChallengeIsWhole ==
    LET text == challenge.text IN
    /\ tool = "ykchalresp" /\ printed # {}
    /\ options.hex => Nul \notin ToSet(text)
    =>
    /\ IF options.hex THEN challenge.decoded = Len(text) /\ 2 * challenge.length = Len(text)
       ELSE challenge.length = Len(text)
    /\ challenge.from = "file" /\ Len(options.input.text) <= BlockSize =>
          text = options.input.text
    /\ challenge.from = "argument" => text \in Arguments

\* The exit code of a program that came as far as the key tells what happened:
\* 0 says that all that was asked for was printed and the key was closed, 1 that
\* something is missing.  No way out leaves the key open.
ExitCodeTells ==
    stage = "done" =>
        LET all == IF tool = "ykchalresp" THEN printed # {}
                   ELSE printed = options.wants IN
        /\ key # "open"
        /\ code = 0 => all /\ key = "closed"
        /\ code = 1 => ~all

\* What hex digits stand for.
ValueOf(digits) ==
    LET sum[i \in 0 .. Len(digits)] == IF i = 0 THEN 0 ELSE 16 * sum[i - 1] + digits[i]
    IN sum[Len(digits)]

\* The serial number can be read from each form that is printed: the hex digits
\* and the modhex digits are those of all its bytes, and the decimal is it as
\* long as an int holds it.
SerialIsShown ==
    /\ "serial_hex" \in printed => ValueOf(shown.hex) = serial
    /\ "serial_modhex" \in printed => ValueOf(shown.modhex) = serial
    /\ "serial_dec" \in printed /\ serial < SerialLimit => shown.dec = serial
=============================================================================
