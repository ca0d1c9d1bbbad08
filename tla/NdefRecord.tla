----------------------------- MODULE NdefRecord -----------------------------
(***************************************************************************)
(* YK_NDEF, the record that a key hands out over NFC: put together from a  *)
(* URI or from a text, read back, and given the access code of the key.    *)
(* From ykpers.c.  The payload and the code behind it are one stretch of   *)
(* memory, as in struct ndef_st, and so are the caller's buffer and what   *)
(* lies behind that.                                                       *)
(***************************************************************************)
EXTENDS Integers, Sequences, SequencesExt

CONSTANTS
    DataSize,        \* NDEF_DATA_SIZE
    CodeSize,        \* ACC_CODE_SIZE
    Identifiers,     \* ndef_identifiers, in the order of the table
    Texts,           \* the URIs and the texts
    Langs,           \* the languages of a text
    Codes,           \* the access codes
    MaxBuffer        \* bounds the buffer that a record is read into

\* The first byte of a text has seven bits for the length of its language.
ASSUME NdefAssumption ==
    /\ DataSize \in Nat \ {0} /\ DataSize <= 128
    /\ CodeSize \in Nat \ {0} /\ MaxBuffer \in Nat
    /\ Identifiers \in Seq(Seq(Nat \ {0}))
    /\ Texts \cup Langs \subseteq Seq(Nat \ {0})
    /\ Codes \subseteq [1 .. CodeSize -> Nat]

VARIABLES
    ndef,            \* the record: len, type, and the bytes of data and curAccCode
    text,            \* what ykp_ndef_as_text last returned and left in the buffer,
                     \* and history: what the record was made of then
    held,            \* history: what the record was last made of
    accessCode       \* history: the code it was last given

ndefVars == <<ndef, text, held, accessCode>>

Memory == 0 .. DataSize + CodeSize - 1

\* How much is looked at of what lies behind the buffer, and its contents.
Slack == 2
Untouched == -1

Nothing == [kind |-> "none", chars |-> <<>>, utf16 |-> FALSE]
Unread == [ok |-> FALSE, size |-> 0, bytes |-> <<>>, of |-> Nothing]

\* ykp_alloc_ndef.
NdefInit ==
    /\ ndef = [len |-> 0, type |-> "none", bytes |-> [i \in Memory |-> 0]]
    /\ text = Unread /\ held = Nothing /\ accessCode = [i \in 1 .. CodeSize |-> 0]

\* memcpy(to + at, chars, strlen(chars)).
Copy(to, at, chars) ==
    [i \in DOMAIN to |-> IF i - at \in 0 .. Len(chars) - 1
                         THEN chars[i - at + 1] ELSE to[i]]

-----------------------------------------------------------------------------
(* Putting a record together.                                              *)

\* The first identifier of the table that the URI begins with, 0 for none.
Abbreviation(uri) ==
    LET those == {k \in DOMAIN Identifiers : IsPrefix(Identifiers[k], uri)} IN
    IF those = {} THEN 0 ELSE CHOOSE k \in those : \A j \in those : k <= j

\* The URI without what an abbreviation stands for.
Rest(uri, k) ==
    IF k = 0 THEN uri ELSE SubSeq(uri, Len(Identifiers[k]) + 1, Len(uri))

\* Mutant of Fits: the status byte takes no room.
FitsWithoutStatus(length) == length <= DataSize
Fits(length) == length + 1 <= DataSize

\* ykp_construct_ndef_uri.
ConstructUri(uri) ==
    LET k == Abbreviation(uri)
        rest == Rest(uri, k) IN
    /\ Fits(Len(rest))
    /\ ndef' = [len |-> Len(rest) + 1, type |-> "U",
                bytes |-> Copy(Copy(ndef.bytes, 0, <<k>>), 1, rest)]
    /\ held' = [kind |-> "U", chars |-> uri, utf16 |-> FALSE]
    /\ UNCHANGED <<text, accessCode>>

\* The status byte, length of the language and all: for UTF-16 the code takes
\* bit 7 of the length, where it would have to set it.
Status(length, utf16) == IF utf16 THEN 128 * ((length \div 128) % 2) ELSE length

\* ykp_construct_ndef_text.
ConstructText(chars, lang, utf16) ==
    /\ Fits(Len(chars) + Len(lang))
    /\ ndef' = [len |-> Len(chars) + Len(lang) + 1, type |-> "T",
                bytes |-> Copy(Copy(ndef.bytes, 0, <<Status(Len(lang), utf16)>>),
                               1, lang \o chars)]
    /\ held' = [kind |-> "T", chars |-> chars, utf16 |-> utf16]
    /\ UNCHANGED <<text, accessCode>>

\* A URI or a text that does not fit is refused, and the record stays.
RefuseLong(chars, lang) ==
    /\ \/ lang = <<>> /\ ~Fits(Len(Rest(chars, Abbreviation(chars))))
       \/ ~Fits(Len(chars) + Len(lang))
    /\ UNCHANGED ndefVars

\* ykp_set_ndef_access_code.
SetAccessCode(new) ==
    /\ ndef' = [ndef EXCEPT !.bytes = Copy(@, DataSize, new)]
    /\ accessCode' = new /\ UNCHANGED <<text, held>>

-----------------------------------------------------------------------------
(* Reading it back.                                                        *)

\* The bytes of the payload from at on.
Payload(at) == [i \in 1 .. ndef.len - at |-> ndef.bytes[at + i - 1]]

\* The characters of the record, and where in the buffer the code puts the
\* terminator: one past the place behind them.
Readable ==
    LET status == ndef.bytes[0]
        language == IF status >= 128 THEN status - 128 ELSE status IN
    CASE ndef.type = "U" /\ status = 0 ->
            [chars |-> Payload(1), zero |-> ndef.len]
      [] ndef.type = "U" /\ status > 0 ->
            [chars |-> Identifiers[status] \o Payload(1),
             zero |-> ndef.len + Len(Identifiers[status])]
      [] ndef.type = "T" ->
            [chars |-> Payload(language + 1), zero |-> ndef.len - language]

\* Mutant of Room: the prefix of a URI takes no room.
RoomForPayload(size) == ndef.len - 1 <= size
Room(size) == Len(Readable.chars) <= size

\* ykp_ndef_as_text, into a buffer of size bytes and what lies behind it.
AsText(size) ==
    LET buffer == [i \in 0 .. size + Slack - 1 |-> Untouched] IN
    /\ text' = IF ndef.type # "none" /\ Room(size)
               THEN [ok |-> TRUE, size |-> size, of |-> held,
                     bytes |-> Copy(Copy(buffer, 0, Readable.chars), Readable.zero, <<0>>)]
               ELSE Unread
    /\ UNCHANGED <<ndef, held, accessCode>>

NdefNext ==
    \/ \E uri \in Texts : ConstructUri(uri) \/ RefuseLong(uri, <<>>)
    \/ \E chars \in Texts, lang \in Langs :
          \/ \E utf16 \in BOOLEAN : ConstructText(chars, lang, utf16)
          \/ RefuseLong(chars, lang)
    \/ \E new \in Codes : SetAccessCode(new)
    \/ \E size \in 0 .. MaxBuffer : AsText(size)

NdefSpec == NdefInit /\ [][NdefNext]_ndefVars

-----------------------------------------------------------------------------
(* Properties.                                                             *)

\* A record that is read back is what it was made of, whatever abbreviation
\* stood for its beginning and whatever it held before, and no byte is written
\* further than the second one behind the characters: the size test leaves the
\* terminator out, and the terminator goes one byte too far, so that a buffer
\* has to have two bytes to spare.  A text in UTF-16 is left out: its record
\* has lost the length of the language, which is read as part of the text.
ReadBack ==
    text.ok /\ ~text.of.utf16 =>
        LET n == Len(text.of.chars) IN
        /\ n <= text.size
        /\ \A i \in 1 .. n : text.bytes[i - 1] = text.of.chars[i]
        /\ \A i \in DOMAIN text.bytes : text.bytes[i] # Untouched => i <= n + 1

\* The access code lies right behind the payload: no URI and no text, however
\* long, and in whatever order the two are set, takes its place.
CodeIsKept == \A i \in 1 .. CodeSize : ndef.bytes[DataSize + i - 1] = accessCode[i]
=============================================================================
