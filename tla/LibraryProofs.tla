--------------------------- MODULE LibraryProofs ----------------------------
(***************************************************************************)
(* The parts of MCLibrary, each by itself, for every value of their        *)
(* constants.  Records: none takes the place of the access code behind it, *)
(* and what is read back is what was set.  The listing: the parts of the   *)
(* uid keep apart, and all that is set is shown.  The tools: exit codes    *)
(* tell what happened, the challenge is all that was given and the serial  *)
(* number is told in every form.  Passphrases: the key is that of the      *)
(* standard.  Versions: releases are told apart by their numbers.          *)
(***************************************************************************)
EXTENDS NdefRecord, ConfigFields, Tools, Pbkdf2, VersionCompare, KeyConfigProofs,
        SequenceTheorems, FiniteSetTheorems

-----------------------------------------------------------------------------
(* NdefRecord: what memcpy reaches.                                        *)

CodeBytes(bytes) == [i \in 1 .. CodeSize |-> bytes[DataSize + i - 1]]

NdefInv ==
    /\ ndef = [len |-> ndef.len, type |-> ndef.type, bytes |-> ndef.bytes]
    /\ ndef.bytes \in [Memory -> Int]
    /\ accessCode \in [1 .. CodeSize -> Nat]
    /\ CodeBytes(ndef.bytes) = accessCode

\* What is copied before the code leaves it alone.
LEMMA Below ==
    ASSUME NEW to \in [Memory -> Int], NEW place \in Nat, NEW chars \in Seq(Int),
           place + Len(chars) <= DataSize
    PROVE  /\ Copy(to, place, chars) \in [Memory -> Int]
           /\ CodeBytes(Copy(to, place, chars)) = CodeBytes(to)
<1> USE NdefAssumption
<1>1. Copy(to, place, chars) \in [Memory -> Int]
  BY DEF Copy, Memory
<1>2. ASSUME NEW i \in 1 .. CodeSize
      PROVE  Copy(to, place, chars)[DataSize + i - 1] = to[DataSize + i - 1]
  BY DEF Copy, Memory
<1> QED
  BY <1>1, <1>2 DEF CodeBytes

\* A code that is copied to its place is there.
LEMMA InPlace ==
    ASSUME NEW to \in [Memory -> Int], NEW new \in [1 .. CodeSize -> Nat]
    PROVE  /\ Copy(to, DataSize, new) \in [Memory -> Int]
           /\ CodeBytes(Copy(to, DataSize, new)) = new
<1> USE NdefAssumption
<1>1. new \in Seq(Int) /\ Len(new) = CodeSize
  OBVIOUS
<1>2. Copy(to, DataSize, new) \in [Memory -> Int]
  BY <1>1 DEF Copy, Memory
<1>3. ASSUME NEW i \in 1 .. CodeSize
      PROVE  Copy(to, DataSize, new)[DataSize + i - 1] = new[i]
  BY <1>1 DEF Copy, Memory
<1> QED
  BY <1>2, <1>3 DEF CodeBytes

LEMMA TextsAreSequences ==
    /\ \A chars \in Texts \cup Langs : chars \in Seq(Int)
    /\ \A k \in DOMAIN Identifiers : Identifiers[k] \in Seq(Int)
BY NdefAssumption

\* The bytes behind a status byte, in a record that has room for both.
LEMMA Written ==
    ASSUME NdefInv, NEW status \in Int, NEW chars \in Seq(Int), Fits(Len(chars)),
           ndef' = [len |-> Len(chars) + 1, type |-> ndef'.type,
                    bytes |-> Copy(Copy(ndef.bytes, 0, <<status>>), 1, chars)],
           UNCHANGED accessCode
    PROVE  NdefInv'
<1> USE NdefAssumption
<1> DEFINE first == Copy(ndef.bytes, 0, <<status>>)
<1>1. first \in [Memory -> Int] /\ CodeBytes(first) = CodeBytes(ndef.bytes)
  <2>1. <<status>> \in Seq(Int) /\ 0 + Len(<<status>>) <= DataSize
    OBVIOUS
  <2> QED
    BY <2>1, Below DEF NdefInv
<1>2. /\ Copy(first, 1, chars) \in [Memory -> Int]
      /\ CodeBytes(Copy(first, 1, chars)) = CodeBytes(first)
  <2>1. 1 + Len(chars) <= DataSize
    BY DEF Fits
  <2> HIDE DEF first
  <2> QED
    BY <1>1, <2>1, Below
<1>3. /\ ndef' = [len |-> ndef'.len, type |-> ndef'.type, bytes |-> ndef'.bytes]
      /\ ndef'.bytes = Copy(first, 1, chars)
  OBVIOUS
<1>4. CodeBytes(ndef'.bytes) = accessCode'
  BY <1>1, <1>2, <1>3 DEF NdefInv
<1> QED
  BY <1>2, <1>3, <1>4 DEF NdefInv, CodeBytes

-----------------------------------------------------------------------------
LEMMA InitNdefInv == NdefInit => NdefInv
BY NdefAssumption DEF NdefInit, NdefInv, Memory, CodeBytes

\* Each way to put a record together is of the form of lemma Written.
LEMMA UriStep ==
    ASSUME NdefInv, NEW uri \in Texts, ConstructUri(uri) PROVE NdefInv'
<1> DEFINE k == Abbreviation(uri)
           behind == Rest(uri, k)
<1>1. k \in Int /\ behind \in Seq(Int)
  <2>1. k = 0 \/ k \in DOMAIN Identifiers
    <3> DEFINE those == {n \in DOMAIN Identifiers : IsPrefix(Identifiers[n], uri)}
    <3>1. those \in SUBSET Nat
      BY NdefAssumption
    <3>2. those # {} => k \in those
      BY <3>1, Least DEF Abbreviation
    <3> QED
      BY <3>2 DEF Abbreviation
  <2>2. k \in Int /\ behind \in Seq(Int)
    BY <2>1, TextsAreSequences, NdefAssumption DEF Rest
  <2> QED
    BY <2>1, <2>2
<1>2. /\ Fits(Len(behind)) /\ UNCHANGED accessCode
      /\ ndef' = [len |-> Len(behind) + 1, type |-> "U",
                  bytes |-> Copy(Copy(ndef.bytes, 0, <<k>>), 1, behind)]
  BY DEF ConstructUri
<1> HIDE DEF k, behind
<1> QED
  BY <1>1, <1>2, Written

LEMMA TextStep ==
    ASSUME NdefInv, NEW chars \in Texts, NEW lang \in Langs,
           NEW utf16 \in BOOLEAN, ConstructText(chars, lang, utf16)
    PROVE  NdefInv'
<1> DEFINE status == Status(Len(lang), utf16)
           both == lang \o chars
<1>1. status \in Int /\ both \in Seq(Int) /\ Len(both) = Len(chars) + Len(lang)
  BY TextsAreSequences DEF Status
<1>2. /\ Fits(Len(both)) /\ UNCHANGED accessCode
      /\ ndef' = [len |-> Len(both) + 1, type |-> "T",
                  bytes |-> Copy(Copy(ndef.bytes, 0, <<status>>), 1, both)]
  BY <1>1 DEF ConstructText
<1> HIDE DEF status, both
<1> QED
  BY <1>1, <1>2, Written

LEMMA CodeStep ==
    ASSUME NdefInv, NEW new \in Codes, SetAccessCode(new) PROVE NdefInv'
<1>1. new \in [1 .. CodeSize -> Nat]
  BY NdefAssumption
<1>2. /\ ndef' = [len |-> ndef'.len, type |-> ndef'.type, bytes |-> ndef'.bytes]
      /\ ndef'.bytes = Copy(ndef.bytes, DataSize, new) /\ accessCode' = new
  BY DEF NdefInv, SetAccessCode
<1>3. CodeBytes(ndef'.bytes) = accessCode' /\ ndef'.bytes \in [Memory -> Int]
  BY <1>1, <1>2, InPlace DEF NdefInv
<1> QED
  BY <1>1, <1>2, <1>3 DEF NdefInv, CodeBytes

LEMMA StepNdefInv == NdefInv /\ [NdefNext]_ndefVars => NdefInv'
<1> SUFFICES ASSUME NdefInv, [NdefNext]_ndefVars PROVE NdefInv'
  OBVIOUS
<1>1. CASE UNCHANGED <<ndef, accessCode>>
  BY <1>1 DEF NdefInv, CodeBytes
<1>2. CASE ~UNCHANGED <<ndef, accessCode>>
  <2>1. \/ \E uri \in Texts : ConstructUri(uri)
        \/ \E chars \in Texts, lang \in Langs, utf16 \in BOOLEAN :
              ConstructText(chars, lang, utf16)
        \/ \E new \in Codes : SetAccessCode(new)
    BY <1>2 DEF NdefNext, ndefVars, RefuseLong, AsText
  <2> QED
    BY <2>1, UriStep, TextStep, CodeStep
<1> QED
  BY <1>1, <1>2

\* The access code is where it was put, behind a payload of any length that the
\* size check lets pass.
THEOREM CodeSurvives == NdefSpec => []CodeIsKept
<1>1. NdefInv => CodeIsKept
  BY NdefAssumption DEF NdefInv, CodeBytes, CodeIsKept
<1> QED
  BY <1>1, InitNdefInv, StepNdefInv, PTL DEF NdefSpec

-----------------------------------------------------------------------------
(* NdefRecord: what is read of a record.                                   *)

Chars == Seq(Nat \ {0})

\* What the bytes of the record are read as is what it was made of.
Reads ==
    /\ held.chars \in Chars /\ Readable.chars = held.chars
    /\ Readable.zero = Len(held.chars) + 1

\* The payload ends before the code, and its first byte tells how to read it.
Whole ==
    /\ ndef.len \in Nat /\ ndef.len <= DataSize
    /\ ndef.type \in {"none", "U", "T"} /\ held.utf16 \in BOOLEAN
    /\ ndef.type = "U" => ndef.bytes[0] \in Nat
    /\ ndef.type = "T" /\ ~held.utf16 => ndef.bytes[0] \in Nat /\ ndef.bytes[0] < 128
    /\ ndef.type # "none" /\ ~held.utf16 => Reads

\* A byte and characters behind it, in a record with room for both.
LEMMA PutTogether ==
    ASSUME NEW to \in [Memory -> Int], NEW status \in Int, NEW chars \in Seq(Int),
           Fits(Len(chars))
    PROVE  LET all == Copy(Copy(to, 0, <<status>>), 1, chars) IN
           all[0] = status /\ \A i \in 1 .. Len(chars) : all[i] = chars[i]
<1> USE NdefAssumption
<1> DEFINE first == Copy(to, 0, <<status>>)
           all == Copy(first, 1, chars)
<1>1. DOMAIN first = Memory /\ first[0] = status
  BY DEF Copy, Memory
<1>2. Len(chars) \in Nat /\ Len(chars) + 1 <= DataSize
  BY DEF Fits
<1> HIDE DEF first
<1>3. all = [i \in Memory |-> IF i - 1 \in 0 .. Len(chars) - 1 THEN chars[i - 1 + 1] ELSE first[i]]
  BY <1>1 DEF Copy
<1>4. 0 \in Memory /\ \A i \in 1 .. Len(chars) : i \in Memory /\ i - 1 \in 0 .. Len(chars) - 1 /\ i - 1 + 1 = i
  BY <1>2 DEF Memory
<1>5. 0 - 1 \notin 0 .. Len(chars) - 1
  BY <1>2
<1> HIDE DEF all
<1>6. all[0] = status
  BY <1>1, <1>3, <1>4, <1>5
<1>7. \A i \in 1 .. Len(chars) : all[i] = chars[i]
  BY <1>3, <1>4
<1> QED
  BY <1>6, <1>7 DEF all, first

\* A prefix and what is behind it.
LEMMA PrefixAndRest ==
    ASSUME NEW p \in Chars, NEW s \in Chars, IsPrefix(p, s)
    PROVE  /\ SubSeq(s, Len(p) + 1, Len(s)) \in Chars
           /\ p \o SubSeq(s, Len(p) + 1, Len(s)) = s
           /\ Len(SubSeq(s, Len(p) + 1, Len(s))) = Len(s) - Len(p)
<1> USE DEF Chars
<1>1. Len(p) \in Nat /\ Len(s) \in Nat /\ Len(p) <= Len(s) /\ p = SubSeq(s, 1, Len(p))
  BY DEF IsPrefix
<1>2. SubSeq(s, 1, Len(s)) = s
  BY SubSeqFull
<1>3. SubSeq(s, 1, Len(p)) \o SubSeq(s, Len(p) + 1, Len(s)) = SubSeq(s, 1, Len(s))
  <2>1. /\ 1 \in 1 .. Len(s) + 1 /\ Len(p) \in 1 - 1 .. Len(s)
        /\ Len(s) \in Len(p) .. Len(s)
    BY <1>1
  <2> DEFINE k == Len(p)
  <2> HIDE DEF k
  <2>2. k \in 1 - 1 .. Len(s) /\ Len(s) \in k .. Len(s)
    BY <2>1 DEF k
  <2>3. SubSeq(s, 1, k) \o SubSeq(s, k + 1, Len(s)) = SubSeq(s, 1, Len(s))
    BY <2>1, <2>2, ConcatAdjacentSubSeq
  <2> QED
    BY <2>3 DEF k
<1>4. \A i \in Len(p) + 1 .. Len(s) : s[i] \in Nat \ {0}
  BY <1>1
<1>5. /\ SubSeq(s, Len(p) + 1, Len(s)) \in Seq(Nat \ {0})
      /\ Len(SubSeq(s, Len(p) + 1, Len(s))) = Len(s) - Len(p)
  BY <1>1, <1>4, SubSeqProperties
<1> QED
  BY <1>1, <1>2, <1>3, <1>5

LEMMA AbbreviationIs ==
    ASSUME NEW uri \in Texts
    PROVE  LET k == Abbreviation(uri) behind == Rest(uri, k) IN
           /\ k \in Nat /\ behind \in Chars
           /\ k = 0 => behind = uri
           /\ k > 0 => /\ k \in DOMAIN Identifiers /\ Identifiers[k] \in Chars
                       /\ Identifiers[k] \o behind = uri
                       /\ Len(uri) = Len(Identifiers[k]) + Len(behind)
<1> DEFINE k == Abbreviation(uri)
           behind == Rest(uri, k)
<1>1. uri \in Chars
  BY NdefAssumption DEF Chars
<1>2. k = 0 \/ (k \in DOMAIN Identifiers /\ IsPrefix(Identifiers[k], uri))
  <2> DEFINE those == {n \in DOMAIN Identifiers : IsPrefix(Identifiers[n], uri)}
  <2>1. those \in SUBSET Nat
    BY NdefAssumption
  <2>2. those # {} => k \in those
    BY <2>1, Least DEF Abbreviation
  <2> QED
    BY <2>2 DEF Abbreviation
<1>3. k = 0 => behind = uri
  BY DEF Rest
<1>4. k \in DOMAIN Identifiers => k \in Nat /\ k > 0 /\ Identifiers[k] \in Chars
  BY NdefAssumption DEF Chars
<1>5. ASSUME k # 0
      PROVE  /\ behind \in Chars /\ Identifiers[k] \o behind = uri
             /\ Len(uri) = Len(Identifiers[k]) + Len(behind)
  <2>1. behind = SubSeq(uri, Len(Identifiers[k]) + 1, Len(uri))
    BY <1>5 DEF Rest
  <2> HIDE DEF k, behind
  <2> DEFINE p == Identifiers[k]
  <2>2. p \in Chars /\ IsPrefix(p, uri)
    BY <1>2, <1>4, <1>5
  <2> HIDE DEF p
  <2>3. /\ SubSeq(uri, Len(p) + 1, Len(uri)) \in Chars
        /\ p \o SubSeq(uri, Len(p) + 1, Len(uri)) = uri
        /\ Len(SubSeq(uri, Len(p) + 1, Len(uri))) = Len(uri) - Len(p)
    BY <1>1, <2>2, PrefixAndRest
  <2>4. Len(p) \in Nat /\ Len(uri) \in Nat
    BY <1>1, <2>2 DEF Chars
  <2>5. behind = SubSeq(uri, Len(p) + 1, Len(uri))
    BY <2>1 DEF p
  <2>6. behind \in Chars /\ p \o behind = uri /\ Len(behind) = Len(uri) - Len(p)
    BY <2>3, <2>5
  <2>7. Len(uri) = Len(p) + Len(behind)
    BY <2>4, <2>6
  <2> QED
    BY <2>6, <2>7 DEF p
<1> HIDE DEF k, behind
<1>6. k = 0 \/ k \in DOMAIN Identifiers
  BY <1>2
<1>7. k \in Nat /\ behind \in Chars
  BY <1>1, <1>3, <1>4, <1>5, <1>6
<1>8. k > 0 => k # 0
  BY <1>7
<1> QED
  BY <1>3, <1>4, <1>5, <1>6, <1>7, <1>8 DEF k, behind

LEMMA UriReads ==
    ASSUME NdefInv, NEW uri \in Texts, ConstructUri(uri) PROVE Whole'
<1> USE NdefAssumption
<1> DEFINE k == Abbreviation(uri)
           behind == Rest(uri, k)
<1>1. /\ k \in Nat /\ behind \in Chars /\ uri \in Chars
      /\ k = 0 => behind = uri
      /\ k > 0 => /\ Identifiers[k] \in Chars /\ Identifiers[k] \o behind = uri
                  /\ Len(uri) = Len(Identifiers[k]) + Len(behind)
  BY AbbreviationIs DEF Chars
<1>2. /\ Fits(Len(behind))
      /\ ndef' = [len |-> Len(behind) + 1, type |-> "U",
                  bytes |-> Copy(Copy(ndef.bytes, 0, <<k>>), 1, behind)]
      /\ held' = [kind |-> "U", chars |-> uri, utf16 |-> FALSE]
  BY DEF ConstructUri
<1> HIDE DEF k, behind
<1>3. k \in Int /\ behind \in Seq(Int) /\ Len(behind) \in Nat
  BY <1>1 DEF Chars
<1>4. /\ ndef'.bytes[0] = k /\ \A i \in 1 .. Len(behind) : ndef'.bytes[i] = behind[i]
      /\ ndef'.len = Len(behind) + 1 /\ ndef'.type = "U"
      /\ held'.chars = uri /\ held'.utf16 = FALSE
  <2> DEFINE all == Copy(Copy(ndef.bytes, 0, <<k>>), 1, behind)
  <2>1. ndef.bytes \in [Memory -> Int] /\ Fits(Len(behind))
    BY <1>2 DEF NdefInv
  <2>2. all[0] = k /\ \A i \in 1 .. Len(behind) : all[i] = behind[i]
    BY <1>3, <2>1, PutTogether
  <2>3. ndef' = [len |-> Len(behind) + 1, type |-> "U", bytes |-> all]
    BY <1>2
  <2> HIDE DEF all
  <2> QED
    BY <1>2, <2>2, <2>3
<1>5. Payload(1)' = behind
  <2>1. ndef'.len - 1 = Len(behind)
    BY <1>3, <1>4
  <2>2. Payload(1)' = [i \in 1 .. Len(behind) |-> ndef'.bytes[1 + i - 1]]
    BY <2>1 DEF Payload
  <2>3. \A i \in 1 .. Len(behind) : ndef'.bytes[1 + i - 1] = behind[i]
    BY <1>4
  <2>4. behind = [i \in 1 .. Len(behind) |-> behind[i]]
    BY <1>3
  <2> QED
    BY <2>2, <2>3, <2>4
<1>6. Readable'.chars = uri /\ Readable'.zero = Len(uri) + 1
  <2>1. CASE k = 0
    <3>1. Readable' = [chars |-> Payload(1)', zero |-> ndef'.len]
      BY <1>4, <2>1 DEF Readable
    <3> QED
      BY <1>1, <1>4, <1>5, <2>1, <3>1
  <2>2. CASE k > 0
    <3>1. Readable' = [chars |-> Identifiers[k] \o Payload(1)',
                       zero |-> ndef'.len + Len(Identifiers[k])]
      BY <1>1, <1>4, <2>2 DEF Readable
    <3>2. Len(Identifiers[k]) \in Nat
      BY <1>1, <2>2 DEF Chars
    <3> DEFINE m == Len(Identifiers[k])
               n == Len(behind)
    <3>3. m \in Nat /\ n \in Nat /\ Len(uri) = m + n /\ ndef'.len = n + 1
      BY <1>1, <1>3, <1>4, <2>2, <3>2
    <3> HIDE DEF m, n
    <3>4. ndef'.len + m = Len(uri) + 1
      BY <3>3
    <3> QED
      BY <1>1, <1>5, <2>2, <3>1, <3>4 DEF m
  <2> QED
    BY <1>1, <2>1, <2>2
<1>7. ndef'.len \in Nat /\ ndef'.len <= DataSize
  BY <1>2, <1>3, <1>4 DEF Fits
<1> QED
  BY <1>1, <1>4, <1>6, <1>7 DEF Whole, Reads

LEMMA TextReads ==
    ASSUME NdefInv, NEW chars \in Texts, NEW lang \in Langs,
           NEW utf16 \in BOOLEAN, ConstructText(chars, lang, utf16)
    PROVE  Whole'
<1> USE NdefAssumption
<1> DEFINE status == Status(Len(lang), utf16)
           both == lang \o chars
           m == Len(lang)
           n == Len(chars)
<1>1. /\ chars \in Chars /\ lang \in Chars /\ both \in Chars
      /\ m \in Nat /\ n \in Nat /\ Len(both) = m + n
      /\ \A i \in 1 .. n : both[m + i] = chars[i]
  BY ConcatProperties DEF Chars
<1>2. status \in Int /\ both \in Seq(Int)
  BY <1>1 DEF Status, Chars
<1>3. /\ Fits(Len(both))
      /\ ndef' = [len |-> n + m + 1, type |-> "T",
                  bytes |-> Copy(Copy(ndef.bytes, 0, <<status>>), 1, both)]
      /\ held' = [kind |-> "T", chars |-> chars, utf16 |-> utf16]
  BY <1>1 DEF ConstructText
<1>4. ~utf16 => status = m
  BY DEF Status
<1> HIDE DEF status, both, m, n
<1>5. /\ ndef'.bytes[0] = status /\ \A i \in 1 .. m + n : ndef'.bytes[i] = both[i]
      /\ ndef'.len = n + m + 1 /\ ndef'.type = "T"
      /\ held'.chars = chars /\ held'.utf16 = utf16
  <2> DEFINE all == Copy(Copy(ndef.bytes, 0, <<status>>), 1, both)
  <2>1. all[0] = status /\ \A i \in 1 .. Len(both) : all[i] = both[i]
    BY <1>2, <1>3, PutTogether DEF NdefInv
  <2> HIDE DEF all
  <2>2. ndef' = [len |-> n + m + 1, type |-> "T", bytes |-> all]
    BY <1>3 DEF all
  <2>3. ndef'.bytes = all /\ ndef'.len = n + m + 1 /\ ndef'.type = "T"
    BY <2>2
  <2>4. \A i \in 1 .. m + n : all[i] = both[i]
    BY <1>1, <2>1
  <2>5. held'.chars = chars /\ held'.utf16 = utf16
    BY <1>3
  <2> QED
    BY <2>1, <2>3, <2>4, <2>5
<1>6. ndef'.len \in Nat /\ ndef'.len <= DataSize /\ m < 128
  BY <1>1, <1>3, <1>5 DEF Fits
<1>7. ASSUME ~utf16 PROVE Reads'
  <2>1. ndef'.bytes[0] = m
    BY <1>4, <1>5, <1>7
  <2>2. Readable' = [chars |-> Payload(m + 1)', zero |-> ndef'.len - m]
    <3>1. ~ (m >= 128) /\ ndef'.type # "U"
      BY <1>1, <1>5, <1>6
    <3> QED
      BY <1>5, <2>1, <3>1 DEF Readable
  <2>3. ndef'.len - (m + 1) = n /\ ndef'.len - m = n + 1
    BY <1>1, <1>5
  <2>4. Payload(m + 1)' = [i \in 1 .. n |-> ndef'.bytes[m + 1 + i - 1]]
    BY <2>3 DEF Payload
  <2>5. \A i \in 1 .. n : ndef'.bytes[m + 1 + i - 1] = chars[i]
    <3> TAKE i \in 1 .. n
    <3>1. m + 1 + i - 1 = m + i /\ m + i \in 1 .. m + n
      BY <1>1
    <3> QED
      BY <1>1, <1>5, <3>1
  <2>6. chars = [i \in 1 .. n |-> chars[i]]
    BY <1>1 DEF Chars, n
  <2>7. Payload(m + 1)' = chars
    BY <2>4, <2>5, <2>6
  <2> QED
    BY <1>1, <1>5, <2>2, <2>3, <2>7 DEF Reads, n
<1> QED
  BY <1>1, <1>4, <1>5, <1>6, <1>7 DEF Whole

\* The code is behind what is read of the record.
LEMMA CodeReads ==
    ASSUME NdefInv, Whole, NEW new \in Codes, SetAccessCode(new) PROVE Whole'
<1> USE NdefAssumption
<1>1. new \in Seq(Nat) /\ Len(new) = CodeSize
  OBVIOUS
<1>2. /\ ndef'.len = ndef.len /\ ndef'.type = ndef.type /\ held' = held
      /\ ndef'.bytes = Copy(ndef.bytes, DataSize, new)
  BY DEF NdefInv, SetAccessCode
<1>3. ASSUME NEW i \in Nat, i < DataSize PROVE ndef'.bytes[i] = ndef.bytes[i]
  <2>0. ndef.bytes \in [Memory -> Int]
    BY DEF NdefInv
  <2>1. i \in DOMAIN ndef.bytes
    BY <1>3, <2>0 DEF Memory
  <2>2. i - DataSize < 0
    BY <1>3
  <2>3. i - DataSize \notin 0 .. Len(new) - 1
    BY <1>1, <2>2
  <2> QED
    BY <1>2, <2>1, <2>3 DEF Copy
<1>4. ndef'.bytes[0] = ndef.bytes[0]
  <2>1. 0 \in Nat /\ 0 < DataSize
    OBVIOUS
  <2> QED
    BY <1>3, <2>1
<1>5. ASSUME NEW place \in Nat \ {0} PROVE Payload(place)' = Payload(place)
  <2>1. \A i \in 1 .. ndef.len - place : ndef'.bytes[place + i - 1] = ndef.bytes[place + i - 1]
    <3> TAKE i \in 1 .. ndef.len - place
    <3>1. place + i - 1 \in Nat /\ place + i - 1 < DataSize
      BY DEF Whole
    <3> QED
      BY <1>3, <3>1
  <2> QED
    BY <1>2, <2>1 DEF Payload
<1>6. ASSUME ndef.type # "none", ~held.utf16 PROVE Readable' = Readable
  <2>1. CASE ndef.type = "U"
    <3>1. Payload(1)' = Payload(1) /\ ndef.bytes[0] \in Nat
      BY <1>5, <2>1 DEF Whole
    <3>2. CASE ndef.bytes[0] = 0
      BY <1>2, <1>4, <2>1, <3>1, <3>2 DEF Readable
    <3>3. CASE ndef.bytes[0] > 0
      <4>1. Readable = [chars |-> Identifiers[ndef.bytes[0]] \o Payload(1),
                        zero |-> ndef.len + Len(Identifiers[ndef.bytes[0]])]
        BY <2>1, <3>3, <3>1 DEF Readable
      <4>2. Readable' = [chars |-> Identifiers[ndef'.bytes[0]] \o Payload(1)',
                         zero |-> ndef'.len + Len(Identifiers[ndef'.bytes[0]])]
        BY <1>2, <1>4, <2>1, <3>3, <3>1 DEF Readable
      <4> QED
        BY <1>2, <1>4, <3>1, <4>1, <4>2
    <3> QED
      BY <3>1, <3>2, <3>3
  <2>2. CASE ndef.type = "T"
    <3> DEFINE m == ndef.bytes[0]
    <3>1. m \in Nat /\ m < 128
      BY <1>6, <2>2 DEF Whole
    <3>2. Payload(m + 1)' = Payload(m + 1)
      <4> HIDE DEF m
      <4>1. m + 1 \in Nat \ {0}
        BY <3>1
      <4>2. PICK place : place = m + 1
        OBVIOUS
      <4>3. place \in Nat \ {0}
        BY <4>1, <4>2
      <4>4. Payload(place)' = Payload(place)
        BY <1>5, <4>3
      <4>5. m' = m
        BY <1>4 DEF m
      <4>6. (m + 1)' = place
        BY <4>2, <4>5
      <4> QED
        BY <4>2, <4>4, <4>6 DEF Payload
    <3>3. ndef.type # "U" /\ ~(m >= 128)
      BY <2>2, <3>1
    <3> QED
      BY <1>2, <1>4, <2>2, <3>2, <3>3 DEF Readable
  <2> QED
    BY <1>6, <2>1, <2>2 DEF Whole
<1> QED
  BY <1>2, <1>4, <1>6 DEF Whole, Reads

LEMMA InitWhole == NdefInit => Whole /\ ReadBack
BY NdefAssumption DEF NdefInit, Whole, Nothing, Unread, ReadBack

\* What is copied into a buffer that has two bytes to spare.
LEMMA InBuffer ==
    ASSUME NEW size \in Nat, NEW chars \in Chars, Len(chars) <= size
    PROVE  LET buffer == [i \in 0 .. size + Slack - 1 |-> Untouched]
               all == Copy(Copy(buffer, 0, chars), Len(chars) + 1, <<0>>) IN
           /\ DOMAIN all = 0 .. size + 1
           /\ \A i \in 1 .. Len(chars) : all[i - 1] = chars[i]
           /\ \A i \in 0 .. size + 1 : all[i] # Untouched => i <= Len(chars) + 1
<1> DEFINE buffer == [i \in 0 .. size + Slack - 1 |-> Untouched]
           first == Copy(buffer, 0, chars)
           all == Copy(first, Len(chars) + 1, <<0>>)
           n == Len(chars)
<1>1. n \in Nat /\ n <= size
  BY DEF Chars
<1>2. size + Slack - 1 = size + 1
  BY DEF Slack
<1>3. first = [i \in 0 .. size + 1 |-> IF i - 0 \in 0 .. n - 1 THEN chars[i - 0 + 1]
                                       ELSE Untouched]
  BY <1>2 DEF Copy
<1> HIDE DEF n, first
<1>4. all = [i \in 0 .. size + 1 |-> IF i - (n + 1) \in 0 .. Len(<<0>>) - 1
                                     THEN <<0>>[i - (n + 1) + 1] ELSE first[i]]
  BY <1>3 DEF Copy, n
<1> HIDE DEF all
<1>5. \A i \in 0 .. size + 1 : i # n + 1 => all[i] = first[i]
  <2> TAKE i \in 0 .. size + 1
  <2>1. i # n + 1 => i - (n + 1) \notin 0 .. Len(<<0>>) - 1
    BY <1>1
  <2> QED
    BY <1>4, <2>1
<1>6. \A i \in 1 .. n : all[i - 1] = chars[i]
  <2> TAKE i \in 1 .. n
  <2>1. /\ i - 1 \in 0 .. size + 1 /\ i - 1 # n + 1 /\ i - 1 - 0 \in 0 .. n - 1
        /\ i - 1 - 0 + 1 = i
    BY <1>1
  <2>2. first[i - 1] = chars[i]
    BY <1>3, <2>1
  <2> QED
    BY <1>5, <2>1, <2>2
<1>7. \A i \in 0 .. size + 1 : all[i] # Untouched => i <= n + 1
  <2> SUFFICES ASSUME NEW i \in 0 .. size + 1, ~ i <= n + 1 PROVE all[i] = Untouched
    OBVIOUS
  <2>1. i # n + 1 /\ i - 0 \notin 0 .. n - 1
    BY <1>1
  <2> QED
    BY <1>3, <1>5, <2>1
<1>8. DOMAIN all = 0 .. size + 1
  BY <1>4
<1> QED
  BY <1>6, <1>7, <1>8 DEF all, first, n

LEMMA AsTextReads ==
    ASSUME NdefInv, Whole, NEW size \in 0 .. MaxBuffer, AsText(size)
    PROVE  Whole' /\ ReadBack'
<1>1. Whole'
  BY DEF AsText, Whole, Reads, Readable, Payload
<1>2. ReadBack'
  <2> SUFFICES ASSUME text'.ok, ~text'.of.utf16
               PROVE  LET n == Len(text'.of.chars) IN
                      /\ n <= text'.size
                      /\ \A i \in 1 .. n : text'.bytes[i - 1] = text'.of.chars[i]
                      /\ \A i \in DOMAIN text'.bytes :
                            text'.bytes[i] # Untouched => i <= n + 1
    BY DEF ReadBack
  <2> DEFINE buffer == [i \in 0 .. size + Slack - 1 |-> Untouched]
             all == Copy(Copy(buffer, 0, Readable.chars), Readable.zero, <<0>>)
  <2>1. /\ ndef.type # "none" /\ Room(size)
        /\ text' = [ok |-> TRUE, size |-> size, of |-> held, bytes |-> all]
    BY DEF AsText, Unread
  <2> HIDE DEF all
  <2>2. /\ text'.size = size /\ text'.of = held /\ text'.bytes = all
    BY <2>1
  <2>3. Reads /\ size \in Nat
    BY <2>1, <2>2, NdefAssumption DEF Whole
  <2>4. /\ held.chars \in Chars /\ Len(held.chars) <= size
        /\ all = Copy(Copy(buffer, 0, held.chars), Len(held.chars) + 1, <<0>>)
    BY <2>1, <2>3 DEF Reads, Room, all
  <2> HIDE DEF buffer
  <2>5. /\ DOMAIN all = 0 .. size + 1
        /\ \A i \in 1 .. Len(held.chars) : all[i - 1] = held.chars[i]
        /\ \A i \in 0 .. size + 1 : all[i] # Untouched => i <= Len(held.chars) + 1
    BY <2>3, <2>4, InBuffer DEF buffer
  <2> QED
    BY <2>2, <2>4, <2>5
<1> QED
  BY <1>1, <1>2

\* A record is read back as what it was made of, for a table of identifiers in any
\* order, texts of any length that fit and buffers of any size: what
\* ykp_construct_ndef_uri leaves out of a record ykp_ndef_as_text puts back.  The
\* payload has to be short enough for the seven bits of a language's length.
THEOREM RecordReadsBack == NdefSpec => []ReadBack
<1>1. NdefInv /\ Whole /\ ReadBack /\ [NdefNext]_ndefVars => Whole' /\ ReadBack'
  <2> SUFFICES ASSUME NdefInv, Whole, ReadBack, [NdefNext]_ndefVars
               PROVE  Whole' /\ ReadBack'
    OBVIOUS
  <2>1. CASE UNCHANGED ndefVars
    BY <2>1 DEF ndefVars, Whole, Reads, Readable, Payload, ReadBack
  <2>2. text' = text => ReadBack'
    BY DEF ReadBack
  <2>3. ASSUME NEW uri \in Texts, ConstructUri(uri) PROVE Whole' /\ ReadBack'
    BY <2>2, <2>3, UriReads DEF ConstructUri
  <2>4. ASSUME NEW chars \in Texts, NEW lang \in Langs, NEW utf16 \in BOOLEAN,
               ConstructText(chars, lang, utf16)
        PROVE  Whole' /\ ReadBack'
    BY <2>2, <2>4, TextReads DEF ConstructText
  <2>5. ASSUME NEW new \in Codes, SetAccessCode(new) PROVE Whole' /\ ReadBack'
    BY <2>2, <2>5, CodeReads DEF SetAccessCode
  <2> QED
    BY <2>1, <2>3, <2>4, <2>5, AsTextReads DEF NdefNext, RefuseLong
<1> QED
  BY <1>1, InitWhole, InitNdefInv, StepNdefInv, PTL DEF NdefSpec

-----------------------------------------------------------------------------
(* ConfigFields: the bytes that share the uid.                             *)

ByteValues == 0 .. 255
UidSeq == [1 .. UidSize -> ByteValues]
SecretSeq == [1 .. KeySize -> ByteValues]

\* The shape of the fields, and who has the moving factor.
Shaped ==
    /\ IsConfig(flags) /\ uid \in UidSeq /\ secret \in SecretSeq
    /\ fixed \in [1 .. FixedSize -> ByteValues] /\ fixedSize \in 0 .. FixedSize
    /\ factor # None => Has(flags.version, "oath_imf")

FieldsInv == Shaped /\ FieldsKeepApart

LEMMA InitFields == FieldsInit => FieldsInv
BY FieldsAssumption
DEF FieldsInit, FieldsInv, Shaped, FieldsKeepApart, EmptyConfig, IsConfig, Fields, Zeros,
    None, UidSeq, SecretSeq, ByteValues

\* What a call writes into a field is bytes, as many as the field has.
LEMMA FilledIs ==
    ASSUME NEW n \in Nat, NEW field \in [1 .. n -> ByteValues], NEW input \in Inputs
    PROVE  /\ Filled(field, input) \in [1 .. n -> ByteValues]
           /\ Len(input) \in Nat
           /\ \A i \in 1 .. n : i > Len(input) => Filled(field, input)[i] = 0
<1>1. input \in Seq(ByteValues)
  BY FieldsAssumption DEF ByteValues
<1>2. Len(input) \in Nat /\ \A i \in 1 .. Len(input) : input[i] \in ByteValues
  BY <1>1
<1>3. \A i \in 1 .. n : (IF i <= Len(input) THEN input[i] ELSE 0) \in ByteValues
  BY <1>2 DEF ByteValues
<1>4. Filled(field, input) = [i \in 1 .. n |-> IF i <= Len(input) THEN input[i] ELSE 0]
  BY DEF Filled
<1> QED
  BY <1>2, <1>3, <1>4

LEMMA SetFixedStep ==
    ASSUME FieldsInv, NEW input \in Inputs, SetFixed(input) PROVE FieldsInv'
BY FilledIs, FieldsAssumption
DEF SetFixed, Shorter, FieldsInv, Shaped, FieldsKeepApart, Factor

LEMMA SetUidStep ==
    ASSUME FieldsInv, NEW input \in Inputs, SetUid(input) PROVE FieldsInv'
BY FilledIs, FieldsAssumption
DEF SetUid, FieldsInv, Shaped, FieldsKeepApart, UidSeq, None

\* A long key is the secret and what follows it in the uid.
LEMMA LongKeyIs ==
    ASSUME uid \in UidSeq, NEW k \in Seq(ByteValues), Len(k) = LongKey
    PROVE  /\ WithTail(k) \in UidSeq
           /\ SubSeq(k, 1, KeySize) \o SubSeq(WithTail(k), 1, TailSize) = k
           /\ \A i \in TailSize + 1 .. UidSize : WithTail(k)[i] = uid[i]
<1> USE FieldsAssumption
<1> DEFINE u == WithTail(k)
<1>1. u \in UidSeq
  BY DEF WithTail, UidSeq, LongKey
<1>2. \A i \in 1 .. TailSize : u[i] = k[KeySize + i]
  BY DEF WithTail, UidSeq
<1>3. \A i \in TailSize + 1 .. UidSize : u[i] = uid[i]
  BY DEF WithTail, UidSeq
<1> HIDE DEF u
<1>4. /\ SubSeq(u, 1, TailSize) \in Seq(ByteValues) /\ Len(SubSeq(u, 1, TailSize)) = TailSize
      /\ \A i \in 1 .. TailSize : SubSeq(u, 1, TailSize)[i] = u[i]
  BY <1>1, SubSeqProperties DEF UidSeq
<1>5. /\ SubSeq(k, 1, KeySize) \in Seq(ByteValues) /\ Len(SubSeq(k, 1, KeySize)) = KeySize
      /\ \A i \in 1 .. KeySize : SubSeq(k, 1, KeySize)[i] = k[i]
  BY SubSeqProperties DEF LongKey
<1>6. SubSeq(k, 1, KeySize) \o SubSeq(u, 1, TailSize) = k
  <2> DEFINE a == SubSeq(k, 1, KeySize)
             b == SubSeq(u, 1, TailSize)
  <2> HIDE DEF a, b
  <2>1. /\ a \o b \in Seq(ByteValues) /\ Len(a \o b) = Len(k)
        /\ \A i \in 1 .. Len(k) : (a \o b)[i] = IF i <= KeySize THEN a[i] ELSE b[i - KeySize]
    BY <1>4, <1>5, ConcatProperties DEF a, b, LongKey
  <2>2. \A i \in 1 .. Len(k) : (a \o b)[i] = k[i]
    <3> SUFFICES ASSUME NEW i \in 1 .. Len(k) PROVE (a \o b)[i] = k[i]
      OBVIOUS
    <3>1. CASE i <= KeySize
      BY <1>5, <2>1, <3>1 DEF a
    <3>2. CASE ~ i <= KeySize
      <4>1. i - KeySize \in 1 .. TailSize /\ KeySize + (i - KeySize) = i
        BY <3>2 DEF LongKey
      <4>2. b[i - KeySize] = k[i]
        BY <1>2, <1>4, <4>1 DEF b
      <4> QED
        BY <2>1, <3>2, <4>2
    <3> QED
      BY <3>1, <3>2
  <2> QED
    BY <2>1, <2>2, SeqEqual DEF a, b
<1> QED
  BY <1>1, <1>3, <1>6 DEF u

LEMMA StoreStep ==
    ASSUME FieldsInv, NEW k \in Keys, Len(k) \in {KeySize, LongKey}, Store(k)
    PROVE  FieldsInv'
<1> USE FieldsAssumption
<1>1. k \in Seq(ByteValues)
  BY DEF ByteValues
<1>2. SubSeq(k, 1, KeySize) \in SecretSeq
  <2>1. Len(k) \in Nat /\ KeySize <= Len(k)
    BY <1>1 DEF LongKey
  <2>2. \A i \in 1 .. KeySize : k[i] \in ByteValues
    BY <1>1, <2>1
  <2>3. /\ SubSeq(k, 1, KeySize) \in Seq(ByteValues)
        /\ Len(SubSeq(k, 1, KeySize)) = KeySize
    BY <2>2, SubSeqProperties
  <2> QED
    BY <2>3, LenProperties DEF SecretSeq
<1>3. CASE Len(k) = LongKey
  <2>1. /\ secret' = SubSeq(k, 1, KeySize) /\ uid' = WithTail(k) /\ long' = k
        /\ private' = None /\ UNCHANGED <<flags, fixed, fixedSize, factor>>
    BY <1>3 DEF Store
  <2>2. Factor' = Factor
    BY <1>1, <1>3, <2>1, LongKeyIs DEF FieldsInv, Shaped, Factor
  <2>3. uid' \in UidSeq /\ secret' \o SubSeq(uid', 1, TailSize) = k
    BY <1>1, <1>3, <2>1, LongKeyIs DEF FieldsInv, Shaped
  <2> QED
    BY <1>2, <2>1, <2>2, <2>3 DEF FieldsInv, Shaped, FieldsKeepApart
<1>4. CASE Len(k) # LongKey
  BY <1>2, <1>4 DEF Store, FieldsInv, Shaped, FieldsKeepApart, Factor
<1> QED
  BY <1>3, <1>4

\* The arithmetic of the moving factor.
LEMMA SixteenthIs ==
    ASSUME NEW s \in Nat, s <= 65535 * 16, s % 16 = 0
    PROVE  s \div 16 \in Nat /\ s \div 16 <= 65535 /\ 16 * (s \div 16) = s
OBVIOUS

LEMMA HalvesAre ==
    ASSUME NEW n \in Nat, n <= 65535
    PROVE  /\ n \div 256 \in ByteValues /\ n % 256 \in ByteValues
           /\ 256 * (n \div 256) + (n % 256) = n
<1>1. n % 256 \in 0 .. 255 /\ n \div 256 \in Nat /\ 256 * (n \div 256) + (n % 256) = n
  OBVIOUS
<1>2. n \div 256 <= 255
  BY <1>1
<1> QED
  BY <1>1, <1>2 DEF ByteValues

LEMMA SetFactorStep ==
    ASSUME FieldsInv, NEW seed \in Factors, SetFactor(seed) PROVE FieldsInv'
<1> USE FieldsAssumption
<1> DEFINE imf == seed \div 16
<1>1. /\ seed \in Nat /\ seed <= 65535 * 16 /\ seed % 16 = 0
      /\ Has(flags.version, "oath_imf")
      /\ uid' = [uid EXCEPT ![TailSize + 1] = imf \div 256, ![TailSize + 2] = imf % 256]
      /\ factor' = <<seed>> /\ private' = None
      /\ UNCHANGED <<flags, fixed, fixedSize, secret, long>>
  BY DEF SetFactor
<1>2. imf \in Nat /\ imf <= 65535 /\ 16 * imf = seed
  BY <1>1, SixteenthIs
<1> HIDE DEF imf
<1>3. /\ imf \div 256 \in ByteValues /\ imf % 256 \in ByteValues
      /\ 256 * (imf \div 256) + (imf % 256) = imf
  BY <1>2, HalvesAre
<1>4. /\ uid' \in UidSeq /\ uid'[TailSize + 1] = imf \div 256 /\ uid'[TailSize + 2] = imf % 256
      /\ \A i \in 1 .. TailSize : uid'[i] = uid[i]
  BY <1>1, <1>3 DEF FieldsInv, Shaped, UidSeq
<1>5. Factor' = seed
  <2> DEFINE high == imf \div 256
             low == imf % 256
  <2> HIDE DEF high, low
  <2>1. Factor' = 16 * (256 * uid'[TailSize + 1] + uid'[TailSize + 2])
    <3>1. Has(flags.version, "oath_imf")'
      BY <1>1
    <3> QED
      BY <3>1 DEF Factor
  <2>2. uid'[TailSize + 1] = high /\ uid'[TailSize + 2] = low /\ 256 * high + low = imf
    BY <1>3, <1>4 DEF high, low
  <2> QED
    BY <1>2, <2>1, <2>2
<1>6. SubSeq(uid', 1, TailSize) = SubSeq(uid, 1, TailSize)
  BY <1>4 DEF FieldsInv, Shaped, UidSeq
<1> QED
  <2>1. Shaped'
    BY <1>1, <1>4 DEF FieldsInv, Shaped
  <2>2. factor'[1] = seed
    BY <1>1
  <2>3. FieldsKeepApart'
    <3>1. long' # None => secret' \o SubSeq(uid', 1, TailSize) = long'
      <4>1. secret' = secret /\ long' = long
        BY <1>1
      <4>2. long # None => secret \o SubSeq(uid, 1, TailSize) = long
        BY DEF FieldsInv, FieldsKeepApart
      <4> QED
        BY <4>1, <4>2, <1>6
    <3>2. \A i \in fixedSize' + 1 .. FixedSize : fixed'[i] = 0
      BY <1>1 DEF FieldsInv, FieldsKeepApart
    <3>3. factor' # None => Factor' = factor'[1]
      BY <1>5, <2>2
    <3>4. private' = None
      BY <1>1
    <3> QED
      BY <3>1, <3>2, <3>3, <3>4 DEF FieldsKeepApart
  <2> QED
    BY <2>1, <2>3 DEF FieldsInv

LEMMA ChooseModeStep == ASSUME FieldsInv, ChooseMode PROVE FieldsInv'
<1>1. IsConfig(flags') /\ flags'.version = flags.version
  BY FieldsAssumption, ClearKeeps, SetNamedKeeps
  DEF ChooseMode, FieldsInv, Shaped, Keeps, FlagNamed
<1> QED
  BY <1>1 DEF ChooseMode, FieldsInv, Shaped, FieldsKeepApart, Factor

LEMMA ConfigureForStep == ASSUME FieldsInv, ConfigureFor PROVE FieldsInv'
<1>1. IsConfig(flags')
  BY DEF ConfigureFor, EmptyConfig, IsConfig, Fields
<1>2. /\ uid' \in UidSeq /\ secret' \in SecretSeq /\ fixed' \in [1 .. FixedSize -> ByteValues]
      /\ fixedSize' = 0 /\ \A i \in 1 .. FixedSize : fixed'[i] = 0
  BY FieldsAssumption DEF ConfigureFor, Zeros, UidSeq, SecretSeq, ByteValues
<1>3. long' = None /\ factor' = None /\ private' = None
  BY DEF ConfigureFor
<1> QED
  BY <1>1, <1>2, <1>3, FieldsAssumption DEF FieldsInv, Shaped, FieldsKeepApart

LEMMA StepFields == FieldsInv /\ [FieldsNext]_fieldVars => FieldsInv'
<1> SUFFICES ASSUME FieldsInv, [FieldsNext]_fieldVars PROVE FieldsInv'
  OBVIOUS
<1>1. CASE UNCHANGED fieldVars
  BY <1>1 DEF fieldVars, FieldsInv, Shaped, FieldsKeepApart, Factor
<1>2. ASSUME NEW input \in Inputs, SetAccCode(input) PROVE FieldsInv'
  BY <1>2 DEF SetAccCode, FieldsInv, Shaped, FieldsKeepApart, Factor
<1>3. ASSUME NEW k \in Keys, KeyFrom(k) \/ KeyFromPassphrase(k) PROVE FieldsInv'
  BY <1>1, <1>3, StoreStep DEF KeyFrom, KeyFromPassphrase
<1> QED
  BY <1>1, <1>2, <1>3, SetFixedStep, SetUidStep, SetFactorStep, ChooseModeStep,
     ConfigureForStep DEF FieldsNext

LEMMA FieldsHold == FieldsSpec => []FieldsInv
BY InitFields, StepFields, PTL DEF FieldsSpec

\* Whatever calls fill the uid, in any order and for any sizes of its parts: the long
\* key, the moving factor and the private identity are where they were put until a
\* call takes their place, and nothing is left of an earlier fixed part.
THEOREM PartsAreKept == FieldsSpec => []FieldsKeepApart
<1>1. FieldsInv => FieldsKeepApart
  BY DEF FieldsInv
<1> QED
  BY <1>1, FieldsHold, PTL

-----------------------------------------------------------------------------
(* ConfigFields: the listing.                                              *)

\* The halves of a sequence that was put together.
LEMMA Halves ==
    ASSUME NEW S, NEW s \in Seq(S), NEW t \in Seq(S)
    PROVE  /\ SubSeq(s \o t, 1, Len(s)) = s
           /\ SubSeq(s \o t, Len(s) + 1, Len(s \o t)) = t
<1> DEFINE both == s \o t
<1>1. /\ both \in Seq(S) /\ Len(both) = Len(s) + Len(t)
      /\ \A i \in 1 .. Len(s) : both[i] = s[i]
      /\ \A i \in 1 .. Len(t) : both[Len(s) + i] = t[i]
  BY ConcatProperties
<1> HIDE DEF both
<1>2. /\ SubSeq(both, 1, Len(s)) \in Seq(S) /\ Len(SubSeq(both, 1, Len(s))) = Len(s)
      /\ \A i \in 1 .. Len(s) : SubSeq(both, 1, Len(s))[i] = both[i]
  BY <1>1, SubSeqProperties
<1>3. SubSeq(both, 1, Len(s)) = s
  BY <1>1, <1>2, SeqEqual
<1>4. \A i \in Len(s) + 1 .. Len(both) : both[i] \in S
  BY <1>1
<1> DEFINE m == Len(s) + 1
           n == Len(both)
           behind == SubSeq(both, m, n)
<1>5. m \in Int /\ n \in Int /\ n - m + 1 = Len(t) /\ m + 0 = Len(s) + 1
  BY <1>1
<1>6. /\ behind \in Seq(S) /\ Len(behind) = (IF m <= n THEN n - m + 1 ELSE 0)
      /\ \A i \in 1 .. n - m + 1 : behind[i] = both[m + i - 1]
  <2> HIDE DEF m, n
  <2>1. \A i \in m .. n : both[i] \in S
    BY <1>4 DEF m, n
  <2> QED
    BY <1>5, <2>1, SubSeqProperties
<1> HIDE DEF behind
<1>7. Len(behind) = Len(t)
  BY <1>1, <1>5, <1>6
<1>8. \A i \in 1 .. Len(t) : behind[i] = t[i]
  <2> TAKE i \in 1 .. Len(t)
  <2>1. behind[i] = both[m + i - 1] /\ m + i - 1 = Len(s) + i
    BY <1>5, <1>6
  <2> QED
    BY <1>1, <2>1
<1>9. behind = t
  BY <1>6, <1>7, <1>8, SeqEqual
<1> QED
  BY <1>3, <1>9 DEF both, behind

\* The bytes and halves of what is in the uid.
LEMMA FactorHalves ==
    ASSUME NEW a \in ByteValues, NEW b \in ByteValues
    PROVE  LET imf == (16 * (256 * a + b)) \div 16 IN imf \div 256 = a /\ imf % 256 = b
<1>1. (16 * (256 * a + b)) \div 16 = 256 * a + b
  BY DEF ByteValues
<1>2. (256 * a + b) \div 256 = a /\ (256 * a + b) % 256 = b
  BY DEF ByteValues
<1> QED
  BY <1>1, <1>2

LEMMA UidIs ==
    ASSUME FieldsAssumption, NEW u \in UidSeq
    PROVE  /\ SubSeq(u, 1, TailSize) \in Seq(ByteValues)
           /\ Len(SubSeq(u, 1, TailSize)) = TailSize
           /\ u = SubSeq(u, 1, TailSize) \o <<u[TailSize + 1], u[TailSize + 2]>>
<1> USE FieldsAssumption
<1>1. u \in Seq(ByteValues) /\ Len(u) = TailSize + 2
  BY DEF UidSeq
<1> DEFINE head == SubSeq(u, 1, TailSize)
           ends == <<u[TailSize + 1], u[TailSize + 2]>>
<1>2. /\ head \in Seq(ByteValues) /\ Len(head) = TailSize
      /\ \A i \in 1 .. TailSize : head[i] = u[i]
  BY <1>1, SubSeqProperties
<1>3. ends \in Seq(ByteValues) /\ Len(ends) = 2
  BY <1>1
<1>4. ends[1] = u[TailSize + 1] /\ ends[2] = u[TailSize + 2]
  OBVIOUS
<1> HIDE DEF head, ends
<1>5. /\ head \o ends \in Seq(ByteValues) /\ Len(head \o ends) = TailSize + 2
      /\ \A i \in 1 .. TailSize + 2 : (head \o ends)[i] =
            IF i <= TailSize THEN head[i] ELSE ends[i - TailSize]
  <2> DEFINE both == head \o ends
  <2>1. /\ both \in Seq(ByteValues) /\ Len(both) = Len(head) + Len(ends)
        /\ \A i \in 1 .. Len(head) + Len(ends) : both[i] =
              IF i <= Len(head) THEN head[i] ELSE ends[i - Len(head)]
    <3>1. head \in Seq(ByteValues) /\ ends \in Seq(ByteValues)
      BY <1>2, <1>3
    <3> QED
      BY <3>1, ConcatProperties
  <2> HIDE DEF both
  <2>2. /\ both \in Seq(ByteValues) /\ Len(both) = TailSize + 2
        /\ \A i \in 1 .. TailSize + 2 : both[i] =
              IF i <= TailSize THEN head[i] ELSE ends[i - TailSize]
    BY <1>2, <1>3, <2>1
  <2> QED
    BY <2>2 DEF both
<1>6. \A i \in 1 .. TailSize + 2 : u[i] = (head \o ends)[i]
  <2> TAKE i \in 1 .. TailSize + 2
  <2>1. CASE i <= TailSize
    BY <1>2, <1>5, <2>1
  <2>2. CASE i = TailSize + 1
    BY <1>4, <1>5, <2>2
  <2>3. CASE i = TailSize + 2
    BY <1>4, <1>5, <2>3
  <2>4. i <= TailSize \/ i = TailSize + 1 \/ i = TailSize + 2
    OBVIOUS
  <2> QED
    BY <2>1, <2>2, <2>3, <2>4
<1>7. u = head \o ends
  BY <1>1, <1>5, <1>6, SeqEqual
<1> QED
  BY <1>2, <1>7 DEF head, ends

\* The fixed part is shown up to its size at least.
LEMMA FixedShown ==
    ASSUME FieldsInv, fixedSize <= OathIdSize \/ ~HasNamed(flags, "OATH_HOTP")
    PROVE  SubSeq(FixedListed, 1, fixedSize) = SubSeq(fixed, 1, fixedSize)
<1> USE FieldsAssumption
<1> DEFINE m == IF HasNamed(flags, "OATH_HOTP") /\ fixedSize # 0
                THEN OathIdSize ELSE fixedSize
<1>1. /\ fixed \in Seq(ByteValues) /\ Len(fixed) = FixedSize
      /\ m \in Nat /\ m <= FixedSize /\ fixedSize \in Nat /\ fixedSize <= m
  BY DEF FieldsInv, Shaped
<1>2. FixedListed = SubSeq(fixed, 1, m)
  BY DEF FixedListed
<1> HIDE DEF m
<1> DEFINE s == SubSeq(fixed, 1, m)
<1>3. /\ s \in Seq(ByteValues) /\ Len(s) = m
      /\ \A i \in 1 .. m : s[i] = fixed[i]
  BY <1>1, SubSeqProperties
<1> HIDE DEF s
<1>4. /\ SubSeq(s, 1, fixedSize) \in Seq(ByteValues)
      /\ Len(SubSeq(s, 1, fixedSize)) = fixedSize
      /\ \A i \in 1 .. fixedSize : SubSeq(s, 1, fixedSize)[i] = s[i]
  BY <1>1, <1>3, SubSeqProperties
<1>5. /\ SubSeq(fixed, 1, fixedSize) \in Seq(ByteValues)
      /\ Len(SubSeq(fixed, 1, fixedSize)) = fixedSize
      /\ \A i \in 1 .. fixedSize : SubSeq(fixed, 1, fixedSize)[i] = fixed[i]
  BY <1>1, SubSeqProperties
<1>6. \A i \in 1 .. fixedSize : SubSeq(s, 1, fixedSize)[i] = SubSeq(fixed, 1, fixedSize)[i]
  BY <1>1, <1>3, <1>4, <1>5
<1>7. SubSeq(s, 1, fixedSize) = SubSeq(fixed, 1, fixedSize)
  BY <1>4, <1>5, <1>6, SeqEqual
<1> QED
  BY <1>2, <1>7 DEF s

\* The listing that ykpersonalize shows (_ykp_legacy_export_config) holds the whole
\* uid and the whole key in each mode, for fields of any size.
THEOREM ListingShowsAll == FieldsSpec => []ListingIsWhole
<1>1. FieldsInv => ListingIsWhole
  <2> SUFFICES ASSUME FieldsInv PROVE ListingIsWhole
    OBVIOUS
  <2> USE FieldsAssumption
  <2> DEFINE listing == LegacyListing
             tail == SubSeq(listing.key, KeySize + 1, Len(listing.key))
             u == SubSeq(uid, 1, TailSize)
  <2>1. /\ listing.fixed = FixedListed /\ listing.key = KeyListed
        /\ listing.uid = (IF KeyLength(flags) = 20 THEN None ELSE uid)
        /\ listing.imf = (IF FactorListed THEN <<Factor>> ELSE None)
    BY DEF LegacyListing
  <2>2. /\ u \in Seq(ByteValues) /\ Len(u) = TailSize
        /\ uid = u \o <<uid[TailSize + 1], uid[TailSize + 2]>>
        /\ uid[TailSize + 1] \in ByteValues /\ uid[TailSize + 2] \in ByteValues
        /\ uid # None
    <3>1. uid \in UidSeq
      BY DEF FieldsInv, Shaped
    <3>2. uid[TailSize + 1] \in ByteValues /\ uid[TailSize + 2] \in ByteValues
      BY <3>1 DEF UidSeq
    <3>3. uid # None
      BY <3>1 DEF UidSeq, None
    <3> QED
      BY <3>1, <3>2, <3>3, UidIs
  <2>3. secret \in Seq(ByteValues) /\ Len(secret) = KeySize
    BY DEF FieldsInv, Shaped, SecretSeq
  <2> HIDE DEF listing, u
  <2>4. /\ SubSeq(listing.key, 1, KeySize) = secret
        /\ KeyLength(flags) = 20 => tail = u
    <3>1. CASE KeyLength(flags) = 20
      <4>1. listing.key = secret \o u
        BY <2>1, <3>1 DEF KeyListed, u
      <4> QED
        BY <2>2, <2>3, <4>1, Halves
    <3>2. CASE KeyLength(flags) # 20
      <4>1. listing.key = secret
        BY <2>1, <3>2 DEF KeyListed
      <4> QED
        BY <2>3, <3>2, <4>1, SubSeqFull
    <3> QED
      BY <3>1, <3>2
  <2> HIDE DEF tail
  <2>5. fixedSize <= OathIdSize \/ ~HasNamed(flags, "OATH_HOTP") =>
          SubSeq(listing.fixed, 1, fixedSize) = SubSeq(fixed, 1, fixedSize)
    BY <2>1, FixedShown
  <2>6. CASE KeyLength(flags) # 20
    <3>1. listing.uid = uid /\ listing.uid # None
      BY <2>1, <2>2, <2>6
    <3> QED
      BY <2>4, <2>5, <3>1 DEF ListingIsWhole, listing
  <2>7. CASE KeyLength(flags) = 20 /\ FactorListed
    <3>1. listing.uid = None /\ listing.imf = <<Factor>>
      BY <2>1, <2>7
    <3>2. Factor = 16 * (256 * uid[TailSize + 1] + uid[TailSize + 2])
      BY <2>7 DEF Factor, FactorListed
    <3>3. /\ (listing.imf[1] \div 16) \div 256 = uid[TailSize + 1]
          /\ (listing.imf[1] \div 16) % 256 = uid[TailSize + 2]
      BY <2>2, <3>1, <3>2, FactorHalves
    <3>4. uid = tail \o <<(listing.imf[1] \div 16) \div 256, (listing.imf[1] \div 16) % 256>>
      BY <2>2, <2>4, <2>7, <3>3
    <3>5. listing.imf # None
      BY <3>1 DEF None
    <3> QED
      BY <2>4, <2>5, <3>1, <3>4, <3>5 DEF ListingIsWhole, listing, tail
  <2>8. CASE KeyLength(flags) = 20 /\ ~FactorListed
    <3>1. listing.uid = None /\ listing.imf = None
      BY <2>1, <2>8
    <3>2. HasNamed(flags, "OATH_HOTP")
      BY <2>8, ModeBits DEF KeyLength
    <3>3. ~Has(flags.version, "oath_imf")
      BY <2>8, <3>2 DEF FactorListed
    <3> QED
      BY <2>4, <2>5, <2>8, <3>1, <3>3 DEF ListingIsWhole, listing, tail, u
  <2> QED
    BY <2>6, <2>7, <2>8
<1> QED
  BY <1>1, FieldsHold, PTL

-----------------------------------------------------------------------------
(* Tools: the exit code, stage by stage.                                   *)

\* Everything that was asked for was printed.
AllPrinted == IF tool = "ykchalresp" THEN printed # {} ELSE printed = options.wants

ReadStages == {"serial", "status", "ids", "capa"}

\* What ykinfo has asked the key for when it comes to a stage.
Before == [serial |-> {}, status |-> Groups.serial,
           ids |-> Groups.serial \cup Groups.status,
           capa |-> Groups.serial \cup Groups.status \cup Groups.ids]

Quiet == stage \in {"options", "over", "init", "open"} =>
             key = "closed" /\ code = 0 /\ printed = {}
Asking == stage \in {"check", "respond"} =>
             tool = "ykchalresp" /\ key = "open" /\ code = 0 /\ printed = {}
Reading == stage \in ReadStages =>
             /\ tool = "ykinfo" /\ key = "open" /\ code = 0
             /\ printed = options.wants \cap Before[stage]
Closing == stage = "close" =>
             /\ code \in {0, 1} /\ key \in {"open", "closed"}
             /\ code = 0 => AllPrinted
             /\ code = 1 => ~AllPrinted
Ending == stage \in {"release", "done"} =>
             /\ code \in {0, 1, 2} /\ key \in {"closed", "left"}
             /\ code = 0 => AllPrinted /\ key = "closed"
             /\ code = 1 => ~AllPrinted
Wanted == /\ options.wants \subseteq Kinds
          /\ tool = "ykinfo" /\ stage \notin {"options", "over"} => options.wants # {}

Stages == {"options", "over", "init", "open", "check", "respond", "close",
           "release", "done"} \cup ReadStages

Shape == /\ stage \in Stages /\ tool \in {"ykchalresp", "ykinfo"}
         /\ options \in [slot : {1, 2}, hmac : BOOLEAN, may_block : BOOLEAN,
                totp : BOOLEAN, digits : {0, 6, 8}, hex : BOOLEAN,
                input : [readable : BOOLEAN, text : Contents \cup {<<>>}],
                wants : SUBSET Kinds]

CodeInv == Shape /\ Quiet /\ Asking /\ Reading /\ Closing /\ Ending /\ Wanted

\* The groups are apart, and together they are all kinds.
LEMMA GroupsApart ==
    /\ Groups["serial"] \cap Before["serial"] = {}
    /\ Groups["status"] \cap Before["status"] = {}
    /\ Groups["ids"] \cap Before["ids"] = {}
    /\ Groups["capa"] \cap Before["capa"] = {}
    /\ Before["status"] = Groups["serial"] \cup Before["serial"]
    /\ Before["ids"] = Groups["status"] \cup Before["status"]
    /\ Before["capa"] = Groups["ids"] \cup Before["ids"]
    /\ Kinds = Groups["capa"] \cup Before["capa"]
    /\ DOMAIN Groups = ReadStages
BY DEF Groups, Before, Kinds, ReadStages

LEMMA CodeStarts == ToolsInit => CodeInv
BY DEF ToolsInit, CodeInv, Shape, Stages, Quiet, Asking, Reading, Closing, Ending,
       Wanted, ReadStages, NoFile, Kinds

\* The options touch nothing but themselves.
LEMMA OptionCode ==
    ASSUME ToolsAssumption, CodeInv, Option
    PROVE  CodeInv'
<1> USE DEF CodeInv, Option, Sets, Quits
<1>1. options' \in [slot : {1, 2}, hmac : BOOLEAN, may_block : BOOLEAN,
           totp : BOOLEAN, digits : {0, 6, 8}, hex : BOOLEAN,
           input : [readable : BOOLEAN, text : Contents \cup {<<>>}],
           wants : SUBSET Kinds]
  <2>1. CASE ChalRespOption
    <3>1. NoFile \in [readable : BOOLEAN, text : Contents \cup {<<>>}]
      BY DEF NoFile
    <3>2. CASE \E content \in Contents : SetsFile([readable |-> TRUE, text |-> content])
      <4>1. PICK content \in Contents : SetsFile([readable |-> TRUE, text |-> content])
        BY <3>2
      <4> DEFINE file == [readable |-> TRUE, text |-> content]
      <4>2. file \in [readable : BOOLEAN, text : Contents \cup {<<>>}]
        OBVIOUS
      <4>3. SetsFile(file)
        BY <4>1
      <4> HIDE DEF file
      <4> QED
        BY <4>2, <4>3 DEF SetsFile, Shape
    <3>3. CASE SetsFile(NoFile)
      BY <3>1, <3>3 DEF SetsFile, Shape
    <3>4. CASE Quits
      BY <3>4 DEF Shape
    <3>5. CASE \/ \E n \in {1, 2} : Sets([options EXCEPT !.slot = n])
               \/ Sets([options EXCEPT !.may_block = FALSE])
               \/ \E n \in {6, 8} : Sets([options EXCEPT !.digits = n])
               \/ Sets([options EXCEPT !.hex = TRUE])
      <4>1. CASE \E n \in {1, 2} : Sets([options EXCEPT !.slot = n])
        BY <4>1 DEF Shape
      <4>2. CASE Sets([options EXCEPT !.may_block = FALSE])
        BY <4>2 DEF Shape
      <4>3. CASE \E n \in {6, 8} : Sets([options EXCEPT !.digits = n])
        BY <4>3 DEF Shape
      <4>4. CASE Sets([options EXCEPT !.hex = TRUE])
        BY <4>4 DEF Shape
      <4> QED
        BY <3>5, <4>1, <4>2, <4>3, <4>4
    <3>6. CASE \/ Sets([options EXCEPT !.hmac = TRUE])
               \/ Sets([options EXCEPT !.totp = TRUE, !.hmac = TRUE])
               \/ Sets([options EXCEPT !.hmac = FALSE, !.totp = FALSE])
      BY <3>6 DEF Shape
    <3> QED
      BY <2>1, <3>2, <3>3, <3>4, <3>5, <3>6 DEF ChalRespOption
  <2>2. CASE InfoOption
    BY <2>2 DEF InfoOption, All, Shape, ToolsAssumption
  <2> QED
    BY <2>1, <2>2
<1>2. stage' \in {"options", "over"} /\ UNCHANGED <<tool, printed, key, code>>
  BY DEF ChalRespOption, InfoOption, SetsFile
<1> QED
  BY <1>1, <1>2 DEF Shape, Stages, Quiet, Asking, Reading, Closing, Ending, Wanted,
                    ReadStages

LEMMA EndOptionsCode ==
    ASSUME CodeInv, EndOptions
    PROVE  CodeInv'
<1>1. /\ stage' \in {"over", "init"} /\ UNCHANGED <<tool, printed, key, code, options>>
      /\ stage' = "init" /\ tool = "ykinfo" => options.wants # {}
  BY DEF EndOptions, EndChalResp, EndInfo, Quits, CodeInv, Shape
<1> QED
  BY <1>1 DEF EndOptions, CodeInv, Shape, Stages, Quiet, Asking, Reading, Closing,
              Ending, Wanted, ReadStages

\* Nothing was printed where nothing was read.
LEMMA NothingYet ==
    ASSUME CodeInv, stage \in {"init", "open", "check", "respond"}
    PROVE  ~AllPrinted
BY DEF CodeInv, Quiet, Asking, Wanted, AllPrinted, Shape

LEMMA BeforeReading ==
    ASSUME CodeInv, Initialise \/ OpenKey \/ CheckFirmware \/ Respond
    PROVE  CodeInv'
<1> USE DEF CodeInv, Shape, Stages, Quiet, Asking, Reading, Closing, Ending, Wanted,
            ReadStages, Fails, Onto
<1>1. CASE Initialise
  BY <1>1, NothingYet DEF Initialise, AllPrinted
<1>2. CASE OpenKey
  BY <1>2, NothingYet DEF OpenKey, AllPrinted, Before
<1>3. CASE CheckFirmware
  BY <1>3, NothingYet DEF CheckFirmware, AllPrinted
<1>4. CASE Respond
  BY <1>4, NothingYet DEF Respond, AllPrinted
<1> QED
  BY <1>1, <1>2, <1>3, <1>4

LEMMA InformCode ==
    ASSUME CodeInv, Inform
    PROVE  CodeInv'
<1> DEFINE wanted == options.wants \cap Groups[stage]
<1>1. stage \in ReadStages /\ stage \in DOMAIN Groups
  BY GroupsApart DEF Inform
<1>2. /\ UNCHANGED <<tool, options, key>> /\ tool = "ykinfo" /\ key = "open"
      /\ code = 0 /\ printed = options.wants \cap Before[stage]
      /\ options.wants \subseteq Kinds /\ options.wants # {}
  BY <1>1 DEF Inform, CodeInv, Reading, Wanted, ReadStages
<1>3. CASE printed' = printed \cup wanted /\ Onto(Following[stage])
  <2>1. CASE stage = "capa"
    <3>1. stage' = "close" /\ code' = 0 /\ printed' = options'.wants
      BY <1>2, <1>3, <2>1, GroupsApart DEF Onto, Following
    <3> QED
      BY <1>2, <3>1 DEF CodeInv, Shape, Stages, Quiet, Asking, Reading, Closing, Ending,
                        Wanted, ReadStages, AllPrinted
  <2>2. CASE stage # "capa"
    <3>1. stage' \in ReadStages /\ printed' = options'.wants \cap Before[stage']
      BY <1>1, <1>2, <1>3, <2>2, GroupsApart DEF Onto, Following, ReadStages
    <3> QED
      BY <1>2, <1>3, <3>1 DEF CodeInv, Shape, Stages, Quiet, Asking, Reading, Closing,
                        Ending, Wanted, ReadStages, Onto
  <2> QED
    BY <2>1, <2>2
<1>4. CASE wanted # {} /\ Fails /\ UNCHANGED printed
  <2>1. printed # options.wants
    BY <1>1, <1>2, <1>4, GroupsApart DEF ReadStages
  <2> QED
    BY <1>2, <1>4, <2>1 DEF CodeInv, Shape, Stages, Quiet, Asking, Reading, Closing,
                        Ending, Wanted, ReadStages, AllPrinted, Fails
<1> QED
  BY <1>3, <1>4 DEF Inform

LEMMA EndCode ==
    ASSUME CodeInv, CloseKey \/ Release
    PROVE  CodeInv'
<1> USE DEF CodeInv, Shape, Stages, Quiet, Asking, Reading, Closing, Ending, Wanted,
            ReadStages, AllPrinted
<1>1. CASE CloseKey
  BY <1>1 DEF CloseKey
<1>2. CASE Release
  BY <1>2 DEF Release
<1> QED
  BY <1>1, <1>2

LEMMA CodeHolds == ASSUME ToolsAssumption PROVE ToolsSpec => []CodeInv
<1>1. ToolsInit => CodeInv
  BY CodeStarts
<1>2. CodeInv /\ [ToolsNext]_toolVars => CodeInv'
  <2> SUFFICES ASSUME CodeInv, [ToolsNext]_toolVars PROVE CodeInv'
    OBVIOUS
  <2>1. CASE UNCHANGED toolVars
    BY <2>1 DEF toolVars, CodeInv, Shape, Quiet, Asking, Reading, Closing, Ending,
                Wanted, AllPrinted
  <2>2. CASE ToolsNext
    BY <2>2, OptionCode, EndOptionsCode, BeforeReading, InformCode, EndCode
    DEF ToolsNext
  <2> QED
    BY <2>1, <2>2
<1> QED
  BY <1>1, <1>2, PTL DEF ToolsSpec

\* The exit code of ykchalresp and of ykinfo (the ends of main in both) tells
\* whether everything that was asked for was printed and the key was closed.
THEOREM ExitCodeIsTrue == ToolsSpec => []ExitCodeTells
<1>1. CodeInv => ExitCodeTells
  BY DEF CodeInv, Ending, AllPrinted, ExitCodeTells
<1> QED
  BY <1>1, CodeHolds, ToolsAssumption, PTL

-----------------------------------------------------------------------------
(* Tools: the challenge.                                                   *)

LEMMA MinOfOne == ASSUME NEW n \in Int PROVE Min({n}) = n
BY DEF Min

LEMMA MinOfTwo == ASSUME NEW m \in Int, NEW n \in Int, n <= m PROVE Min({m, n}) = n
BY DEF Min

\* A text without a terminator is one string.
LEMMA WholeString ==
    ASSUME NEW t \in Seq(Int), Nul \notin ToSet(t) PROVE StringOf(t) = t
<1> DEFINE nuls == {i \in DOMAIN t : t[i] = Nul}
<1>1. nuls = {}
  BY DEF ToSet
<1>2. {i - 1 : i \in nuls} \cup {Len(t)} = {Len(t)}
  BY <1>1
<1>3. Min({i - 1 : i \in nuls} \cup {Len(t)}) = Len(t)
  BY <1>2, MinOfOne
<1>4. StringOf(t) = SubSeq(t, 1, Len(t))
  BY <1>3 DEF StringOf
<1> QED
  BY <1>4, SubSeqFull

\* What Source and Decoded make of the argument, the file or the time.
Taking(o, c) ==
    /\ c.text \in Seq(Int)
    /\ IF o.hex THEN /\ Len(c.text) % 2 = 0 /\ c.length = Len(c.text) \div 2
                     /\ c.decoded = Len(StringOf(c.text))
                ELSE c.length = Len(c.text)
    /\ c.from = "file" => c.text = Cut(o.input.text) /\ o.input.text \in Seq(Int)
    /\ c.from = "argument" => c.text \in Arguments

Challenged == tool = "ykchalresp" /\ stage \notin {"options", "over"} =>
             Taking(options, challenge)

LEMMA CutIs == ASSUME NEW t \in Seq(Int), Len(t) <= BlockSize PROVE Cut(t) = t
<1>1. Min({BlockSize, Len(t)}) = Len(t)
  BY MinOfTwo, ToolsAssumption
<1> QED
  BY <1>1, SubSeqFull DEF Cut

LEMMA CutTyped == ASSUME NEW t \in Seq(Int) PROVE Cut(t) \in Seq(Int)
<1>1. Min({BlockSize, Len(t)}) \in {BlockSize, Len(t)}
  BY ToolsAssumption DEF Min
<1> DEFINE m == Min({BlockSize, Len(t)})
<1>2. m \in Nat /\ m <= Len(t)
  BY ToolsAssumption DEF Min
<1> HIDE DEF m
<1>3. SubSeq(t, 1, m) \in Seq(Int)
  BY <1>2, SubSeqProperties
<1> QED
  BY <1>3 DEF Cut, m

LEMMA SourceTakes ==
    ASSUME CodeInv, NEW argument \in {<<>>} \cup {<<string>> : string \in Arguments},
           ~Missing(argument)
    PROVE  LET c == Source(argument) IN
           /\ c.text \in Seq(Int) /\ c.length = Len(c.text)
           /\ c.from = "file" => c.text = Cut(options.input.text)
                                  /\ options.input.text \in Seq(Int)
           /\ c.from = "argument" => c.text \in Arguments
<1> USE ToolsAssumption
<1>0. {Nul, Hex, Other} \subseteq Int
  BY DEF Nul, Hex, Other
<1>1. options.input.text \in Seq(Int)
  <2>1. options.input.text \in Contents \cup {<<>>}
    BY DEF CodeInv, Shape
  <2>2. \A string \in Contents : string \in Seq(Int)
    BY <1>0
  <2>3. <<>> \in Seq(Int)
    OBVIOUS
  <2> QED
    BY <2>1, <2>2, <2>3
<1>2. TimeText \in Seq(Int) /\ \A string \in Arguments : string \in Seq(Int)
  BY <1>0
<1>3. options.totp \in BOOLEAN /\ options.input.readable \in BOOLEAN
  BY DEF CodeInv, Shape
<1>4. CASE options.totp
  <2>1. Source(argument) = Plain("time", TimeText)
    BY <1>4 DEF Source
  <2> QED
    BY <1>2, <2>1 DEF Plain
<1>5. CASE ~options.totp /\ options.input.readable
  <2>1. Source(argument) = Plain("file", Cut(options.input.text))
    BY <1>5 DEF Source
  <2> QED
    BY <1>1, <2>1, CutTyped DEF Plain
<1>6. CASE ~options.totp /\ ~options.input.readable
  <2>1. Source(argument) = Plain("argument", argument[1])
    BY <1>6 DEF Source
  <2>2. PICK string \in Arguments : argument = <<string>>
    BY <1>6 DEF Missing
  <2> QED
    BY <1>2, <2>1, <2>2 DEF Plain
<1> QED
  BY <1>3, <1>4, <1>5, <1>6

LEMMA EndChallenged == ASSUME CodeInv, EndOptions PROVE Challenged'
<1> SUFFICES ASSUME tool = "ykchalresp", stage' \notin {"options", "over"}
             PROVE  Taking(options', challenge')
  BY DEF Challenged, EndOptions
<1>1. PICK argument \in {<<>>} \cup {<<string>> : string \in Arguments} :
        /\ ~Missing(argument) /\ options' = options
        /\ options.hex => IsHex(Source(argument).text)
        /\ challenge' = IF options.hex THEN Decoded(Source(argument))
                        ELSE Source(argument)
  BY DEF EndOptions, EndChalResp, Quits
<1> DEFINE c == Source(argument)
<1>2. /\ c.text \in Seq(Int) /\ c.length = Len(c.text)
      /\ c.from = "file" => c.text = Cut(options.input.text)
                             /\ options.input.text \in Seq(Int)
      /\ c.from = "argument" => c.text \in Arguments
  BY <1>1, SourceTakes
<1>3. \E from, string : c = Plain(from, string)
  BY <1>1 DEF Source, CodeInv, Shape
<1> HIDE DEF c
<1>4. CASE options.hex
  <2>1. challenge' = [c EXCEPT !.decoded = Len(StringOf(c.text)), !.length = Len(c.text) \div 2]
    BY <1>1, <1>4 DEF Decoded, c
  <2>2. /\ challenge'.decoded = Len(StringOf(c.text))
        /\ challenge'.length = Len(c.text) \div 2
        /\ challenge'.text = c.text /\ challenge'.from = c.from
    BY <1>3, <2>1 DEF Plain
  <2>3. Len(c.text) % 2 = 0
    BY <1>1, <1>4 DEF IsHex, c
  <2> QED
    BY <1>1, <1>2, <1>4, <2>2, <2>3 DEF Taking
<1>5. CASE ~options.hex
  BY <1>1, <1>2, <1>5 DEF Taking, c
<1> QED
  BY <1>4, <1>5

LEMMA ChallengedHolds == ToolsSpec => []Challenged
<1>1. ToolsInit => Challenged
  BY DEF ToolsInit, Challenged
<1>2. CodeInv /\ Challenged /\ [ToolsNext]_toolVars => Challenged'
  <2> SUFFICES ASSUME CodeInv, Challenged, [ToolsNext]_toolVars PROVE Challenged'
    OBVIOUS
  <2>1. CASE UNCHANGED toolVars
    BY <2>1 DEF toolVars, Challenged
  <2>2. CASE Option
    BY <2>2 DEF Option, ChalRespOption, InfoOption, Sets, SetsFile, Quits, Challenged
  <2>3. CASE EndOptions
    BY <2>3, EndChallenged
  <2>4. CASE Initialise \/ OpenKey \/ CheckFirmware \/ Respond
    BY <2>4 DEF Initialise, OpenKey, CheckFirmware, Respond, Challenged, CodeInv, Shape
  <2>5. CASE Inform \/ CloseKey \/ Release
    BY <2>5 DEF Inform, CloseKey, Release, Challenged, Groups
  <2> QED
    BY <2>1, <2>2, <2>3, <2>4, <2>5 DEF ToolsNext
<1> QED
  BY <1>1, <1>2, CodeHolds, ToolsAssumption, PTL DEF ToolsSpec

\* What ykchalresp sends (parse_args and challenge_response) is all of the file or
\* of the argument, and all the bytes of its digits, for texts and blocks of any
\* size: what IsHex tests is enough for the decoder, which stops at a terminator.
THEOREM ChallengeSurvives == ToolsSpec => []ChallengeIsWhole
<1>1. CodeInv /\ Challenged => ChallengeIsWhole
  <2> SUFFICES ASSUME CodeInv, Challenged, tool = "ykchalresp", printed # {},
                      options.hex => Nul \notin ToSet(challenge.text)
               PROVE  /\ IF options.hex
                         THEN /\ challenge.decoded = Len(challenge.text)
                              /\ 2 * challenge.length = Len(challenge.text)
                         ELSE challenge.length = Len(challenge.text)
                      /\ challenge.from = "file" /\ Len(options.input.text) <= BlockSize =>
                            challenge.text = options.input.text
                      /\ challenge.from = "argument" => challenge.text \in Arguments
    BY DEF ChallengeIsWhole
  <2>1. Taking(options, challenge)
    BY DEF CodeInv, Quiet, Challenged
  <2>2. options.hex => StringOf(challenge.text) = challenge.text
    BY <2>1, WholeString DEF Taking
  <2>3. \A n \in Nat : n % 2 = 0 => 2 * (n \div 2) = n
    OBVIOUS
  <2>4. Len(challenge.text) \in Nat
    BY <2>1 DEF Taking
  <2>5. challenge.from = "file" /\ Len(options.input.text) <= BlockSize =>
          challenge.text = options.input.text
    BY <2>1, CutIs DEF Taking
  <2> QED
    BY <2>1, <2>2, <2>3, <2>4, <2>5 DEF Taking
<1> QED
  BY <1>1, CodeHolds, ChallengedHolds, ToolsAssumption, PTL

-----------------------------------------------------------------------------
(* Tools: the forms of the serial number.                                  *)

DigitsUpto(n, g) ==
    [m \in 0 .. n |-> IF m < 16 THEN <<m>> ELSE Append(g[m \div 16], m % 16)]

LEMMA DigitsExist == \A n \in Nat : \E g : g = DigitsUpto(n, g)
<1> DEFINE bad == {n \in Nat : ~ \E g : g = DigitsUpto(n, g)}
<1> SUFFICES ASSUME bad # {} PROVE FALSE
  OBVIOUS
<1>1. PICK n \in bad : \A j \in bad : n <= j
  <2>1. bad \in SUBSET Nat
    OBVIOUS
  <2> HIDE DEF bad
  <2> QED
    BY <2>1, Least
<1>2. n # 0
  <2> DEFINE f == [m \in 0 .. 0 |-> <<m>>]
  <2>1. f = DigitsUpto(0, f)
    BY DEF DigitsUpto
  <2> QED
    BY <2>1
<1>3. PICK f : f = DigitsUpto(n - 1, f)
  <2>1. n - 1 \in Nat /\ n - 1 < n
    BY <1>2
  <2> QED
    BY <1>1, <2>1
<1> DEFINE One(g, m) == IF m < 16 THEN <<m>> ELSE Append(g[m \div 16], m % 16)
           g == [m \in 0 .. n |-> IF m = n THEN One(f, n) ELSE f[m]]
<1>4. n \in Nat /\ n >= 1
  BY <1>2
<1>5. \A m \in 0 .. n - 1 : g[m] = f[m] /\ f[m] = One(f, m)
  <2>1. \A m \in 0 .. n - 1 : g[m] = f[m]
    BY <1>4
  <2>2. f = [m \in 0 .. n - 1 |-> One(f, m)]
    BY <1>3 DEF DigitsUpto
  <2>3. \A m \in 0 .. n - 1 : f[m] = One(f, m)
    <3> HIDE DEF One
    <3> QED
      BY <2>2
  <2> HIDE DEF g, One
  <2> QED
    BY <2>1, <2>3
<1>6. \A m \in 0 .. n : m >= 16 => m \div 16 \in 0 .. n - 1
  BY <1>4
<1>7. \A m \in 0 .. n : One(g, m) = One(f, m)
  <2> HIDE DEF g
  <2> TAKE m \in 0 .. n
  <2>1. CASE m < 16
    BY <2>1
  <2>2. CASE m >= 16
    <3>1. g[m \div 16] = f[m \div 16]
      BY <1>5, <1>6, <2>2
    <3> QED
      BY <3>1
  <2> QED
    BY <2>1, <2>2
<1>8. g[n] = One(f, n)
  BY <1>4
<1>9. \A m \in 0 .. n : g[m] = One(g, m)
  <2> HIDE DEF g, One
  <2> TAKE m \in 0 .. n
  <2>1. CASE m = n
    BY <1>7, <1>8, <2>1
  <2>2. CASE m # n
    <3>1. m \in 0 .. n - 1
      BY <1>4, <2>2
    <3> QED
      BY <1>5, <1>7, <3>1
  <2> QED
    BY <2>1, <2>2
<1>10. g = [m \in 0 .. n |-> g[m]]
  OBVIOUS
<1> HIDE DEF g
<1>11. g = DigitsUpto(n, g)
  BY <1>9, <1>10 DEF DigitsUpto
<1> QED
  BY <1>1, <1>11

SumsUpto(d, g) == [i \in 0 .. Len(d) |-> IF i = 0 THEN 0 ELSE 16 * g[i - 1] + d[i]]

\* The value of digits is worked out digit by digit.
LEMMA SumsAre ==
    ASSUME NEW d \in Seq(Nat)
    PROVE  \E g \in [0 .. Len(d) -> Nat] :
              /\ g[0] = 0 /\ ValueOf(d) = g[Len(d)]
              /\ \A i \in 1 .. Len(d) : g[i] = 16 * g[i - 1] + d[i]
<1> DEFINE n == Len(d)
           step == [p \in (1 .. n) \X Nat |-> 16 * p[2] + d[p[1]]]
<1>1. n \in Nat /\ step \in [(1 .. n) \X Nat -> Nat] /\ 0 \in Nat
  OBVIOUS
<1>2. PICK f : Runs(f, n, Nat, 0, step)
  <2> HIDE DEF n, step
  <2> QED
    BY <1>1, Recursion
<1>3. f \in [0 .. n -> Nat] /\ f[0] = 0
  BY <1>2 DEF Runs
<1>4. \A i \in 1 .. n : f[i] = 16 * f[i - 1] + d[i]
  <2> TAKE i \in 1 .. n
  <2>1. <<i, f[i - 1]>> \in (1 .. n) \X Nat
    <3>1. n \in Nat
      BY <1>1
    <3> HIDE DEF n, step
    <3>2. i - 1 \in 0 .. n
      BY <3>1
    <3>3. f[i - 1] \in Nat
      BY <1>3, <3>2
    <3> QED
      BY <3>3
  <2> HIDE DEF n
  <2> QED
    BY <1>2, <2>1 DEF Runs
<1>5. f = SumsUpto(d, f)
  BY <1>3, <1>4 DEF SumsUpto
<1> DEFINE g == CHOOSE h : h = SumsUpto(d, h)
<1>6. g = SumsUpto(d, g)
  BY <1>5
<1>7. ValueOf(d) = g[n]
  BY DEF ValueOf, SumsUpto
<1> HIDE DEF g, n
<1>8. /\ g[0] = 0 /\ \A i \in 1 .. n : g[i] = 16 * g[i - 1] + d[i]
      /\ DOMAIN g = 0 .. n /\ g = [i \in 0 .. n |-> g[i]]
  BY <1>1, <1>6 DEF SumsUpto, n
<1>9. g = f
  <2> DEFINE bad == {i \in 0 .. n : g[i] # f[i]}
  <2>1. bad = {}
    <3> SUFFICES ASSUME bad # {} PROVE FALSE
      OBVIOUS
    <3>1. PICK i \in bad : \A j \in bad : i <= j
      <4>1. bad \in SUBSET Nat
        OBVIOUS
      <4> HIDE DEF bad
      <4> QED
        BY <4>1, Least
    <3>2. i \in 1 .. n /\ i - 1 \in 0 .. n /\ i - 1 < i
      BY <1>1, <1>3, <1>8, <3>1
    <3>3. g[i - 1] = f[i - 1]
      BY <3>1, <3>2
    <3> QED
      BY <1>4, <1>8, <3>1, <3>2, <3>3
  <2>2. f = [i \in 0 .. n |-> f[i]]
    BY <1>3
  <2> QED
    BY <1>8, <2>1, <2>2
<1> QED
  BY <1>3, <1>4, <1>7, <1>9 DEF n

\* The same digits from the same beginning make the same number.
Summed(f, d, m) == f[0] = 0 /\ \A i \in 1 .. m : f[i] = 16 * f[i - 1] + d[i]

LEMMA SameSums ==
    ASSUME NEW m \in Nat, NEW d, NEW f, NEW g, Summed(f, d, m), Summed(g, d, m)
    PROVE  g[m] = f[m]
<1> DEFINE bad == {i \in 0 .. m : g[i] # f[i]}
<1> SUFFICES ASSUME bad # {} PROVE FALSE
  OBVIOUS
<1>1. PICK i \in bad : \A j \in bad : i <= j
  <2>1. bad \in SUBSET Nat
    OBVIOUS
  <2> HIDE DEF bad
  <2> QED
    BY <2>1, Least
<1>2. i \in 1 .. m /\ i - 1 \in 0 .. m /\ i - 1 < i
  BY <1>1 DEF Summed
<1>3. g[i - 1] = f[i - 1]
  BY <1>1, <1>2
<1> QED
  BY <1>1, <1>2, <1>3 DEF Summed

LEMMA ValueOfAppend ==
    ASSUME NEW d \in Seq(Nat), NEW x \in Nat
    PROVE  ValueOf(Append(d, x)) = 16 * ValueOf(d) + x
<1> DEFINE e == Append(d, x)
           n == Len(d)
<1>1. /\ e \in Seq(Nat) /\ Len(e) = n + 1 /\ n \in Nat /\ e[n + 1] = x
      /\ \A i \in 1 .. n : e[i] = d[i]
  BY AppendProperties
<1> HIDE DEF e
<1>2. PICK f \in [0 .. n -> Nat] :
        /\ f[0] = 0 /\ ValueOf(d) = f[n] /\ \A i \in 1 .. n : f[i] = 16 * f[i - 1] + d[i]
  BY SumsAre
<1>3. PICK g \in [0 .. Len(e) -> Nat] :
        /\ g[0] = 0 /\ ValueOf(e) = g[Len(e)]
        /\ \A i \in 1 .. Len(e) : g[i] = 16 * g[i - 1] + e[i]
  BY <1>1, SumsAre
<1> HIDE DEF n
<1>4. \A i \in 1 .. n : g[i] = 16 * g[i - 1] + d[i]
  <2>1. \A i \in 1 .. n : i \in 1 .. Len(e)
    BY <1>1
  <2> QED
    BY <1>1, <1>3, <2>1
<1>5. g[n] = f[n]
  <2>1. Summed(f, d, n) /\ Summed(g, d, n)
    BY <1>2, <1>3, <1>4 DEF Summed
  <2> QED
    BY <1>1, <2>1, SameSums
<1>6. g[n + 1] = 16 * g[n] + x
  <2>1. n + 1 \in 1 .. Len(e) /\ (n + 1) - 1 = n
    BY <1>1
  <2> QED
    BY <1>1, <1>3, <2>1
<1> QED
  BY <1>1, <1>2, <1>3, <1>5, <1>6 DEF e

LEMMA ValueOfPadded ==
    ASSUME NEW d \in Seq(Nat) PROVE ValueOf(<<0>> \o d) = ValueOf(d)
<1> DEFINE e == <<0>> \o d
           n == Len(d)
<1>1. /\ e \in Seq(Nat) /\ Len(e) = n + 1 /\ n \in Nat /\ e[1] = 0
      /\ \A i \in 1 .. n : e[i + 1] = d[i]
  BY ConcatProperties
<1> HIDE DEF e
<1>2. PICK f \in [0 .. n -> Nat] :
        /\ f[0] = 0 /\ ValueOf(d) = f[n] /\ \A i \in 1 .. n : f[i] = 16 * f[i - 1] + d[i]
  BY SumsAre
<1>3. PICK g \in [0 .. Len(e) -> Nat] :
        /\ g[0] = 0 /\ ValueOf(e) = g[Len(e)]
        /\ \A i \in 1 .. Len(e) : g[i] = 16 * g[i - 1] + e[i]
  BY <1>1, SumsAre
<1> HIDE DEF n
<1> DEFINE h == [i \in 0 .. n |-> g[i + 1]]
<1>4. h[0] = 0
  <2>1. 1 \in 1 .. Len(e) /\ 1 - 1 = 0 /\ 0 + 1 = 1 /\ 0 \in 0 .. n
    BY <1>1
  <2>2. g[1] = 16 * g[0] + e[1]
    BY <1>3, <2>1
  <2>3. g[1] = 0
    BY <1>1, <1>3, <2>2
  <2> QED
    BY <1>2, <2>1, <2>3
<1>5. \A i \in 1 .. n : h[i] = 16 * h[i - 1] + d[i]
  <2> TAKE i \in 1 .. n
  <2>1. i + 1 \in 1 .. Len(e) /\ (i + 1) - 1 = i /\ (i - 1) + 1 = i /\ i \in 0 .. n /\ i - 1 \in 0 .. n
    BY <1>1
  <2>2. g[i + 1] = 16 * g[i] + d[i]
    BY <1>1, <1>3, <2>1
  <2> QED
    BY <2>1, <2>2
<1>6. h[n] = g[n + 1]
  BY <1>1
<1> HIDE DEF h
<1>7. h[n] = f[n]
  <2>1. Summed(f, d, n) /\ Summed(h, d, n)
    BY <1>2, <1>4, <1>5 DEF Summed
  <2> QED
    BY <1>1, <2>1, SameSums
<1> QED
  BY <1>1, <1>2, <1>3, <1>6, <1>7 DEF e

\* The digits of a number stand for it.
LEMMA HexDigitsAre ==
    ASSUME NEW n \in Nat
    PROVE  HexDigits(n) \in Seq(0 .. 15) /\ ValueOf(HexDigits(n)) = n
<1> DEFINE g == CHOOSE f : f = DigitsUpto(n, f)
<1>1. g = DigitsUpto(n, g) /\ HexDigits(n) = g[n]
  BY DigitsExist DEF HexDigits, DigitsUpto
<1> HIDE DEF g
<1>2. \A m \in 0 .. n : g[m] = IF m < 16 THEN <<m>> ELSE Append(g[m \div 16], m % 16)
  BY <1>1 DEF DigitsUpto
<1> DEFINE Right(m) == g[m] \in Seq(0 .. 15) /\ ValueOf(g[m]) = m
           bad == {m \in 0 .. n : ~Right(m)}
<1>3. ASSUME NEW m \in 0 .. n, m < 16 PROVE Right(m)
  <2>1. g[m] = <<m>> /\ m \in 0 .. 15 /\ m \in Nat
    <3>1. m \in 0 .. 15 /\ m \in Nat
      BY <1>3
    <3> QED
      BY <1>2, <1>3, <3>1
  <2>2. <<>> \in Seq(Nat) /\ Len(<<>>) = 0 /\ <<m>> = Append(<<>>, m)
    OBVIOUS
  <2>3. ValueOf(<<>>) = 0
    BY <2>2, SumsAre
  <2>4. ValueOf(<<m>>) = m
    <3>1. ValueOf(Append(<<>>, m)) = 16 * ValueOf(<<>>) + m
      BY <2>1, <2>2, ValueOfAppend
    <3> DEFINE v == ValueOf(<<>>)
               w == ValueOf(Append(<<>>, m))
    <3>2. v = 0 /\ w = 16 * v + m
      BY <2>3, <3>1
    <3> HIDE DEF v, w
    <3>3. w = m
      BY <2>1, <3>2
    <3> QED
      BY <2>2, <3>3 DEF w
  <2> QED
    BY <2>1, <2>4
<1>4. ASSUME NEW m \in 0 .. n, ~(m < 16), Right(m \div 16) PROVE Right(m)
  <2> DEFINE q == m \div 16
             r == m % 16
             d == g[q]
  <2>1. q \in Nat /\ r \in 0 .. 15 /\ m = 16 * q + r
    OBVIOUS
  <2>2. g[m] = Append(d, r)
    BY <1>2, <1>4
  <2>3. d \in Seq(0 .. 15) /\ ValueOf(d) = q
    BY <1>4
  <2> HIDE DEF q, r, d
  <2>4. d \in Seq(Nat) /\ r \in Nat
    BY <2>1, <2>3
  <2>5. ValueOf(Append(d, r)) = 16 * q + r
    BY <2>3, <2>4, ValueOfAppend
  <2>6. Append(d, r) \in Seq(0 .. 15)
    BY <2>1, <2>3
  <2> QED
    BY <2>1, <2>2, <2>5, <2>6
<1>5. bad = {}
  <2> SUFFICES ASSUME bad # {} PROVE FALSE
    OBVIOUS
  <2>1. PICK m \in bad : \A j \in bad : m <= j
    <3>1. bad \in SUBSET Nat
      OBVIOUS
    <3> HIDE DEF bad
    <3> QED
      BY <3>1, Least
  <2>2. ~(m < 16)
    BY <1>3, <2>1
  <2>3. m \div 16 \in 0 .. n /\ m \div 16 < m
    BY <2>1, <2>2
  <2>4. Right(m \div 16)
    <3> HIDE DEF Right
    <3> QED
      BY <2>1, <2>3
  <2> HIDE DEF Right
  <2> QED
    BY <1>4, <2>1, <2>2, <2>4
<1>6. Right(n)
  <2> HIDE DEF Right
  <2> QED
    BY <1>5
<1> QED
  BY <1>1, <1>6

\* Padding makes the number of digits even, for whole bytes.
LEMMA PaddedIs ==
    ASSUME NEW d \in Seq(0 .. 15)
    PROVE  /\ Padded(d) \in Seq(0 .. 15) /\ Len(Padded(d)) % 2 = 0
           /\ ValueOf(Padded(d)) = ValueOf(d)
<1>1. d \in Seq(Nat) /\ Len(d) \in Nat
  OBVIOUS
<1>2. CASE Len(d) % 2 = 1
  <2>1. Padded(d) = <<0>> \o d
    BY <1>2 DEF Padded
  <2>2. <<0>> \o d \in Seq(0 .. 15) /\ Len(<<0>> \o d) = 1 + Len(d)
    OBVIOUS
  <2>3. (1 + Len(d)) % 2 = 0
    <3>1. \A k \in Nat : k % 2 = 1 => (1 + k) % 2 = 0
      OBVIOUS
    <3> QED
      BY <1>1, <1>2, <3>1
  <2> QED
    BY <1>1, <2>1, <2>2, <2>3, ValueOfPadded
<1>3. CASE Len(d) % 2 # 1
  <2>1. Padded(d) = d /\ Len(d) % 2 = 0
    BY <1>1, <1>3 DEF Padded
  <2> QED
    BY <2>1
<1> QED
  BY <1>2, <1>3

\* Two digits of modhex are those of the byte.
LEMMA ModhexIs ==
    ASSUME NEW d \in Seq(0 .. 15), Len(d) % 2 = 0
    PROVE  Modhex(Bytes(d)) = d
<1> DEFINE k == Len(d) \div 2
           b == Bytes(d)
           x == Modhex(b)
<1>1. k \in Nat /\ Len(d) = 2 * k /\ \A i \in 1 .. 2 * k : d[i] \in 0 .. 15
  OBVIOUS
<1>2. b = [i \in 1 .. k |-> 16 * d[2 * i - 1] + d[2 * i]]
  BY DEF Bytes
<1> HIDE DEF k, b
<1>3. Len(b) = k /\ \A i \in 1 .. k : b[i] = 16 * d[2 * i - 1] + d[2 * i]
  BY <1>1, <1>2
<1>4. x = [i \in 1 .. 2 * k |-> IF i % 2 = 1 THEN b[(i + 1) \div 2] \div 16 ELSE b[i \div 2] % 16]
  BY <1>3 DEF Modhex
<1> HIDE DEF x
<1>5. \A u, v \in 0 .. 15 : (16 * u + v) \div 16 = u /\ (16 * u + v) % 16 = v
  OBVIOUS
<1>6. ASSUME NEW i \in 1 .. 2 * k PROVE x[i] = d[i]
  <2>1. CASE i % 2 = 1
    <3> DEFINE j == (i + 1) \div 2
    <3>1. j \in 1 .. k /\ 2 * j - 1 = i /\ 2 * j \in 1 .. 2 * k
      BY <1>1, <2>1
    <3> HIDE DEF j
    <3>2. b[j] = 16 * d[i] + d[2 * j] /\ d[i] \in 0 .. 15 /\ d[2 * j] \in 0 .. 15
      BY <1>1, <1>3, <3>1
    <3>3. b[j] \div 16 = d[i]
      <4>1. (16 * d[i] + d[2 * j]) \div 16 = d[i]
        BY <1>5, <3>2, Zenon
      <4> QED
        BY <3>2, <4>1, Zenon
    <3> QED
      BY <1>4, <2>1, <3>3 DEF j
  <2>2. CASE i % 2 # 1
    <3> DEFINE j == i \div 2
    <3>1. j \in 1 .. k /\ 2 * j = i /\ 2 * j - 1 \in 1 .. 2 * k
      BY <1>1, <2>2
    <3> HIDE DEF j
    <3>2. b[j] = 16 * d[2 * j - 1] + d[i] /\ d[i] \in 0 .. 15 /\ d[2 * j - 1] \in 0 .. 15
      BY <1>1, <1>3, <3>1
    <3>3. b[j] % 16 = d[i]
      <4>1. (16 * d[2 * j - 1] + d[i]) % 16 = d[i]
        BY <1>5, <3>2, Zenon
      <4> QED
        BY <3>2, <4>1, Zenon
    <3> QED
      BY <1>4, <2>2, <3>3 DEF j
  <2> QED
    BY <2>1, <2>2
<1>7. x \in Seq(0 .. 15) /\ Len(x) = Len(d)
  <2>1. \A i \in 1 .. 2 * k : x[i] \in 0 .. 15
    BY <1>1, <1>6
  <2>2. x \in [1 .. 2 * k -> 0 .. 15]
    BY <1>4, <2>1
  <2> QED
    BY <1>1, <2>2
<1> QED
  BY <1>1, <1>6, <1>7, SeqEqual DEF x, b

\* What was printed of the serial number was worked out from it.
SerialRead ==
    /\ serial \in Nat
    /\ printed \cap Groups["serial"] # {} => shown = Forms

\* Every form that ykinfo prints stands for the key's serial number, whatever it is:
\* no digit is lost when the hex digits are padded, decoded and encoded again, and
\* nothing but the decimal is bound to the size of an int.
THEOREM SerialIsTold == ToolsSpec => []SerialIsShown
<1>1. CodeInv /\ SerialRead => SerialIsShown
  <2> SUFFICES ASSUME CodeInv, SerialRead PROVE SerialIsShown
    OBVIOUS
  <2> DEFINE d == Padded(HexDigits(serial))
  <2>1. d \in Seq(0 .. 15) /\ Len(d) % 2 = 0 /\ ValueOf(d) = serial
    BY HexDigitsAre, PaddedIs DEF SerialRead
  <2>2. Modhex(Bytes(d)) = d
    BY <2>1, ModhexIs
  <2>3. /\ Forms.hex = d /\ Forms.modhex = Modhex(Bytes(d))
        /\ serial < SerialLimit => Forms.dec = serial
    BY DEF Forms
  <2>4. {"serial_dec", "serial_modhex", "serial_hex"} \subseteq Groups["serial"]
    BY DEF Groups
  <2>5. ("serial_dec" \in printed \/ "serial_modhex" \in printed \/ "serial_hex" \in printed)
           => shown = Forms
    BY <2>4 DEF SerialRead
  <2> HIDE DEF d
  <2> QED
    BY <2>1, <2>2, <2>3, <2>5 DEF SerialIsShown
<1>2. ToolsInit => SerialRead
  BY ToolsAssumption DEF ToolsInit, SerialRead
<1>3. CodeInv /\ SerialRead /\ [ToolsNext]_toolVars => SerialRead'
  <2> SUFFICES ASSUME CodeInv, SerialRead, [ToolsNext]_toolVars PROVE SerialRead'
    OBVIOUS
  <2>1. ASSUME UNCHANGED <<printed, shown, serial>> PROVE SerialRead'
    BY <2>1 DEF SerialRead, Forms
  <2>2. CASE UNCHANGED toolVars
    BY <2>1, <2>2 DEF toolVars
  <2>3. CASE Option \/ EndOptions \/ Initialise \/ OpenKey \/ CheckFirmware \/ CloseKey \/ Release
    BY <2>1, <2>3 DEF Option, EndOptions, Initialise, OpenKey, CheckFirmware, CloseKey, Release
  <2>4. CASE Respond
    <3>1. UNCHANGED <<shown, serial>> /\ (printed' = {Form} \/ printed' = printed)
      BY <2>4 DEF Respond
    <3>2. Form \notin Groups["serial"]
      BY DEF Form, Groups
    <3> QED
      BY <3>1, <3>2 DEF SerialRead, Forms
  <2>5. CASE Inform
    <3>1. stage \in ReadStages /\ stage \in DOMAIN Groups
      BY <2>5, GroupsApart DEF Inform
    <3> DEFINE wanted == options.wants \cap Groups[stage]
    <3>2. serial' = serial /\ Forms' = Forms
      BY <2>5 DEF Inform, Forms
    <3>3. CASE UNCHANGED <<printed, shown>>
      BY <2>1, <3>2, <3>3
    <3>4. CASE /\ printed' = printed \cup wanted
               /\ shown' = IF stage = "serial" /\ wanted # {} THEN Forms ELSE shown
      <4>1. CASE stage = "serial" /\ wanted # {}
        BY <3>2, <3>4, <4>1 DEF SerialRead
      <4>2. CASE wanted = {}
        BY <3>2, <3>4, <4>2 DEF SerialRead
      <4>3. CASE stage # "serial"
        <5>1. Groups[stage] \cap Groups["serial"] = {}
          BY <3>1, <4>3 DEF Groups, ReadStages
        <5> QED
          BY <3>2, <3>4, <4>3, <5>1 DEF SerialRead
      <4> QED
        BY <4>1, <4>2, <4>3
    <3> QED
      BY <2>5, <3>3, <3>4 DEF Inform
  <2> QED
    BY <2>2, <2>3, <2>4, <2>5 DEF ToolsNext
<1>4. ToolsSpec => []CodeInv
  BY CodeHolds, ToolsAssumption
<1> QED
  BY <1>1, <1>2, <1>3, <1>4, PTL DEF ToolsSpec

-----------------------------------------------------------------------------
(* Pbkdf2: the iterated function and its sum, as the standard defines them. *)

\* The arguments that may be asked with.
Asked == [salt : 0 .. MaxSalt, iterations : 1 .. MaxIterations, length : 1 .. MaxLength]

\* The n-th block's inputs of the function, by the number of calls made.
ChainUpto(a, n, m, g) ==
    [j \in 0 .. m |-> IF j = 0 THEN Salt(a.salt) \o Number(n) ELSE Prf(g[j - 1])]
Chain(a, n) == CHOOSE g : g = ChainUpto(a, n, a.iterations, g)

\* What a byte of the block has come to after as many calls.
SumUpto(a, n, place, g) ==
    [j \in 0 .. a.iterations |->
        IF j = 0 THEN Zero ELSE Xor(g[j - 1], Chain(a, n)[j][place])]
SumOf(a, n, place) == CHOOSE g : g = SumUpto(a, n, place, g)

LEMMA ChainIs ==
    ASSUME NEW a \in Asked, NEW n
    PROVE  /\ Chain(a, n)[0] = Salt(a.salt) \o Number(n)
           /\ \A j \in 1 .. a.iterations : Chain(a, n)[j] = Prf(Chain(a, n)[j - 1])
<1> DEFINE bad == {m \in Nat : ~ \E g : g = ChainUpto(a, n, m, g)}
<1>1. bad = {}
  <2> SUFFICES ASSUME bad # {} PROVE FALSE
    OBVIOUS
  <2>1. PICK m \in bad : \A j \in bad : m <= j
    <3>1. bad \in SUBSET Nat
      OBVIOUS
    <3> HIDE DEF bad
    <3> QED
      BY <3>1, Least
  <2>2. m # 0
    <3> DEFINE f == [j \in 0 .. 0 |-> Salt(a.salt) \o Number(n)]
    <3>1. f = ChainUpto(a, n, 0, f)
      BY DEF ChainUpto
    <3> QED
      BY <3>1
  <2>3. PICK f : f = ChainUpto(a, n, m - 1, f)
    <3>1. m - 1 \in Nat /\ m - 1 < m
      BY <2>2
    <3> QED
      BY <2>1, <3>1
  <2> DEFINE g == [j \in 0 .. m |-> IF j = m THEN Prf(f[m - 1]) ELSE f[j]]
  <2>4. g = ChainUpto(a, n, m, g)
    <3>1. m \in Nat /\ m >= 1
      BY <2>2
    <3>2. \A j \in 0 .. m - 1 : g[j] = f[j]
      BY <3>1
    <3>3. \A j \in 0 .. m - 1 : f[j] = IF j = 0 THEN Salt(a.salt) \o Number(n) ELSE Prf(f[j - 1])
      BY <2>3 DEF ChainUpto
    <3>4. \A j \in 0 .. m : g[j] = IF j = 0 THEN Salt(a.salt) \o Number(n) ELSE Prf(g[j - 1])
      <4> TAKE j \in 0 .. m
      <4>1. CASE j = m
        <5>1. g[m] = Prf(f[m - 1]) /\ g[m - 1] = f[m - 1] /\ j # 0
          BY <3>1, <3>2, <4>1
        <5> QED
          BY <4>1, <5>1
      <4>2. CASE j # m
        <5>1. j \in 0 .. m - 1 /\ (j # 0 => j - 1 \in 0 .. m - 1)
          BY <3>1, <4>2
        <5> HIDE DEF g
        <5> QED
          BY <3>2, <3>3, <5>1
      <4> QED
        BY <4>1, <4>2
    <3>5. g = [j \in 0 .. m |-> g[j]]
      OBVIOUS
    <3> HIDE DEF g
    <3> QED
      BY <3>4, <3>5 DEF ChainUpto
  <2> QED
    BY <2>1, <2>4
<1>2. a.iterations \in Nat
  BY Pbkdf2Assumption DEF Asked
<1>3. \E g : g = ChainUpto(a, n, a.iterations, g)
  BY <1>1, <1>2
<1>4. Chain(a, n) = ChainUpto(a, n, a.iterations, Chain(a, n))
  BY <1>3 DEF Chain
<1> DEFINE g == Chain(a, n)
           m == a.iterations
<1> HIDE DEF g, m
<1>5. /\ m \in Nat
      /\ g = [j \in 0 .. m |-> IF j = 0 THEN Salt(a.salt) \o Number(n) ELSE Prf(g[j - 1])]
  BY <1>2, <1>4 DEF ChainUpto, g, m
<1>6. g[0] = Salt(a.salt) \o Number(n)
  BY <1>5
<1>7. \A j \in 1 .. m : g[j] = Prf(g[j - 1])
  <2> TAKE j \in 1 .. m
  <2>1. j \in 0 .. m /\ j # 0
    BY <1>5
  <2> QED
    BY <1>5, <2>1
<1> QED
  BY <1>6, <1>7 DEF g, m

LEMMA SumIs ==
    ASSUME NEW a \in Asked, NEW n, NEW place
    PROVE  /\ SumOf(a, n, place)[0] = Zero
           /\ \A j \in 1 .. a.iterations :
                SumOf(a, n, place)[j] = Xor(SumOf(a, n, place)[j - 1], Chain(a, n)[j][place])
<1> DEFINE m == a.iterations
           term == [j \in 1 .. m |-> Chain(a, n)[j][place]]
           S == SUBSET UNION {term[j] : j \in 1 .. m}
           step == [p \in (1 .. m) \X S |-> Xor(p[2], term[p[1]])]
<1>1. m \in Nat
  BY Pbkdf2Assumption DEF Asked
<1>2. Zero \in S
  BY DEF Zero
<1>3. step \in [(1 .. m) \X S -> S]
  <2>1. \A j \in 1 .. m : term[j] \in S
    OBVIOUS
  <2>2. \A x, y \in S : Xor(x, y) \in S
    BY DEF Xor
  <2> HIDE DEF S, term
  <2>3. \A p \in (1 .. m) \X S : Xor(p[2], term[p[1]]) \in S
    BY <2>1, <2>2
  <2> QED
    BY <2>3
<1>4. PICK f : Runs(f, m, S, Zero, step)
  <2> HIDE DEF m, S, step
  <2> QED
    BY <1>1, <1>2, <1>3, Recursion
<1>5. \A j \in 1 .. m : f[j] = Xor(f[j - 1], term[j])
  <2> TAKE j \in 1 .. m
  <2>1. <<j, f[j - 1]>> \in (1 .. m) \X S
    <3>1. j - 1 \in 0 .. m
      BY <1>1
    <3> HIDE DEF S
    <3> QED
      BY <1>4, <3>1 DEF Runs
  <2> HIDE DEF S, term, m
  <2> QED
    BY <1>4, <2>1 DEF Runs
<1>6. f = SumUpto(a, n, place, f)
  <2> HIDE DEF S, step
  <2>1. f = [j \in 0 .. m |-> f[j]] /\ f[0] = Zero
    BY <1>4 DEF Runs
  <2>2. \A j \in 1 .. m : term[j] = Chain(a, n)[j][place]
    OBVIOUS
  <2> HIDE DEF term, m
  <2>3. \A j \in 0 .. m : f[j] = IF j = 0 THEN Zero ELSE Xor(f[j - 1], Chain(a, n)[j][place])
    <3> TAKE j \in 0 .. m
    <3>1. CASE j = 0
      BY <2>1, <3>1
    <3>2. CASE j # 0
      <4>1. j \in 1 .. m
        BY <1>1, <3>2
      <4> QED
        BY <1>5, <2>2, <3>2, <4>1
    <3> QED
      BY <3>1, <3>2
  <2>4. f = [j \in 0 .. m |-> IF j = 0 THEN Zero ELSE Xor(f[j - 1], Chain(a, n)[j][place])]
    BY <2>1, <2>3
  <2> QED
    BY <2>4 DEF SumUpto, m
<1>7. SumOf(a, n, place) = SumUpto(a, n, place, SumOf(a, n, place))
  BY <1>6 DEF SumOf
<1> QED
  BY <1>1, <1>7 DEF SumUpto

LEMMA StandardIs ==
    \A i : StandardByte(i) = SumOf(asked, ((i - 1) \div OutputSize) + 1,
                                   ((i - 1) % OutputSize) + 1)[asked.iterations]
BY DEF StandardByte, SumOf, SumUpto, Chain, ChainUpto

-----------------------------------------------------------------------------
(* Pbkdf2: where the code is, and what it has got so far.                  *)

Placed ==
    /\ asked \in Asked /\ DOMAIN dk = 1 .. asked.length
    /\ count \in Nat /\ count >= 1
    /\ iteration \in Nat /\ iteration <= asked.iterations
    /\ at \in Nat /\ left \in Nat /\ at + left = asked.length
    /\ left > 0 => at = (count - 1) * OutputSize
    /\ returned = "nothing" => left > 0
    /\ returned = "success" => left = 0

\* The array holds what is put there and read from it, and nothing of what lies
\* behind an output is left in the key.
Clean ==
    /\ asked.salt + NumberSize <= ArraySize
    /\ \/ asked.length <= OutputSize
       \/ asked.length <= ArraySize /\ asked.iterations % 2 = 0

\* The bytes before the pointer are done, those of the block are the sum so far,
\* and those behind have what lies behind the output in them, or not any more.
Derived ==
    /\ \A i \in 1 .. asked.length : i <= at => dk[i] = StandardByte(i)
    /\ returned # "success" => block = Chain(asked, count)[iteration]
    /\ \A i \in 1 .. asked.length :
          i > at =>
            dk[i] = IF i - at <= OutputSize THEN SumOf(asked, count, i - at)[iteration]
                    ELSE IF iteration % 2 = 1 THEN Behind(i - at) ELSE Zero

DeriveInv == Placed /\ (Clean => Derived)

LEMMA FirstInput ==
    ASSUME asked \in Asked, Clean, NEW n
    PROVE  FirstInputs(n) = {Salt(asked.salt) \o Number(n)}
<1>1. ~Overruns
  BY Pbkdf2Assumption DEF Asked, Clean, Overruns
<1> QED
  BY <1>1 DEF FirstInputs

LEMMA DeriveStarts == Pbkdf2Init => DeriveInv
<1> SUFFICES ASSUME Pbkdf2Init PROVE DeriveInv
  OBVIOUS
<1> USE Pbkdf2Assumption
<1>1. asked \in Asked /\ asked.length \in Nat /\ asked.length >= 1 /\ asked.iterations \in Nat
      /\ asked.iterations >= 1
  BY DEF Pbkdf2Init, Asked
<1>2. Placed
  BY <1>1 DEF Pbkdf2Init, Placed, GoingOn
<1>3. ASSUME Clean PROVE Derived
  <2>1. block = Chain(asked, count)[iteration]
    <3>1. FirstInputs(1) = {Salt(asked.salt) \o Number(1)}
      BY <1>1, <1>3, FirstInput
    <3>2. block \in FirstInputs(1) /\ count = 1 /\ iteration = 0
      BY DEF Pbkdf2Init
    <3>3. Chain(asked, 1)[0] = Salt(asked.salt) \o Number(1)
      BY <1>1, ChainIs
    <3> QED
      BY <3>1, <3>2, <3>3
  <2>2. ASSUME NEW i \in 1 .. asked.length
        PROVE  /\ ~ i <= at /\ dk[i] = Zero /\ iteration = 0
               /\ SumOf(asked, count, i - at)[iteration] = Zero
    BY <1>1, SumIs DEF Pbkdf2Init
  <2> QED
    BY <2>1, <2>2 DEF Derived
<1> QED
  BY <1>2, <1>3 DEF DeriveInv

LEMMA XorTwice == \A x : Xor(Zero, x) = x /\ Xor(x, x) = Zero
BY DEF Xor, Zero

LEMMA IterateDerives == ASSUME DeriveInv, Iterate PROVE DeriveInv'
<1> USE Pbkdf2Assumption
<1>1. CASE UNCHANGED <<dk, block, iteration>>
  <2>1. /\ UNCHANGED <<asked, at, left, count>> /\ returned' \in {returned, "failure"}
        /\ returned = "nothing"
    BY DEF Iterate
  <2> QED
    <3>1. Placed'
      BY <1>1, <2>1 DEF DeriveInv, Placed
    <3>2. \A i : StandardByte(i)' = StandardByte(i) /\ Behind(i)' = Behind(i)
      BY <2>1 DEF StandardByte, Behind
    <3>3. Clean' = Clean
      BY <2>1 DEF Clean
    <3>4. Derived => Derived'
      BY <1>1, <2>1, <3>2 DEF Derived
    <3> QED
      BY <3>1, <3>3, <3>4 DEF DeriveInv
<1>2. ASSUME NEW steady \in BOOLEAN, dk' = Added(Prf(block), steady),
             block' = Prf(block), iteration' = iteration + 1, returned' = returned
      PROVE  DeriveInv'
  <2>1. /\ UNCHANGED <<asked, at, left, count>> /\ iteration < asked.iterations
        /\ returned = "nothing"
    BY DEF Iterate
  <2>2. asked.iterations \in Nat /\ asked.length \in Nat /\ iteration \in Nat /\ at \in Nat
        /\ asked \in Asked
    BY DEF DeriveInv, Placed, Asked
  <2>3. /\ DOMAIN dk' = 1 .. asked.length
        /\ \A i \in 1 .. asked.length :
              /\ i <= at => dk'[i] = dk[i]
              /\ i - at \in 1 .. OutputSize => dk'[i] = Xor(dk[i], Prf(block)[i - at])
              /\ i - at > OutputSize /\ i - at <= ArraySize
                    => dk'[i] = Xor(dk[i], Behind(i - at))
    <3>1. dk' = Added(Prf(block), steady) /\ DOMAIN dk = 1 .. asked.length
      BY <1>2 DEF DeriveInv, Placed
    <3>2. DOMAIN dk' = 1 .. asked.length
      BY <3>1 DEF Added
    <3>3. ASSUME NEW i \in 1 .. asked.length
          PROVE  /\ i <= at => dk'[i] = dk[i]
                 /\ i - at \in 1 .. OutputSize => dk'[i] = Xor(dk[i], Prf(block)[i - at])
                 /\ i - at > OutputSize /\ i - at <= ArraySize
                       => dk'[i] = Xor(dk[i], Behind(i - at))
      <4> DEFINE output == Prf(block)
                 behind == Behind(i - at)
                 outside == Outside(count, iteration + 1, i - at)
      <4> HIDE DEF output, behind, outside
      <4>1. dk'[i] = CASE i <= at -> dk[i]
                       [] i - at \in 1 .. OutputSize -> Xor(dk[i], output[i - at])
                       [] i - at > OutputSize /\ (i - at <= ArraySize \/ steady)
                             -> Xor(dk[i], behind)
                       [] i - at > ArraySize /\ ~steady -> Xor(dk[i], outside)
        BY <3>1 DEF Added, output, behind, outside
      <4>2. i \in Nat /\ at \in Nat /\ OutputSize \in Nat /\ ArraySize \in Nat
        BY <2>2
      <4>3. i <= at => dk'[i] = dk[i]
        BY <4>1, <4>2
      <4>4. i - at \in 1 .. OutputSize => dk'[i] = Xor(dk[i], output[i - at])
        BY <4>1, <4>2
      <4>5. i - at > OutputSize /\ i - at <= ArraySize => dk'[i] = Xor(dk[i], behind)
        BY <4>1, <4>2
      <4> QED
        BY <4>3, <4>4, <4>5 DEF output, behind
    <3> QED
      BY <3>2, <3>3
  <2>4. Placed'
    <3>1. Placed
      BY DEF DeriveInv
    <3>2. DOMAIN dk' = 1 .. asked'.length
      BY <2>1, <2>3
    <3>3. iteration' \in Nat /\ iteration' <= asked'.iterations
      BY <1>2, <2>1, <2>2
    <3> QED
      BY <1>2, <2>1, <3>1, <3>2, <3>3 DEF Placed
  <2>5. ASSUME Clean PROVE Derived'
    <3>1. Derived
      BY <2>5 DEF DeriveInv
    <3> DEFINE k == iteration + 1
    <3>2. k \in 1 .. asked.iterations /\ k - 1 = iteration
      BY <2>1, <2>2
    <3>3. Prf(block) = Chain(asked, count)[k]
      <4>1. block = Chain(asked, count)[iteration]
        BY <2>1, <3>1 DEF Derived
      <4>2. Chain(asked, count)[k] = Prf(Chain(asked, count)[k - 1])
        BY <2>2, <3>2, ChainIs
      <4> QED
        BY <3>2, <4>1, <4>2
    <3>4. ASSUME NEW i \in 1 .. asked.length, i <= at
          PROVE  dk'[i] = StandardByte(i)
      BY <2>3, <3>1, <3>4 DEF Derived
    <3>5. ASSUME NEW i \in 1 .. asked.length, i > at, i - at <= OutputSize
          PROVE  dk'[i] = SumOf(asked, count, i - at)[k]
      <4>1. i - at \in 1 .. OutputSize
        BY <2>2, <3>5
      <4>2. dk'[i] = Xor(dk[i], Prf(block)[i - at])
        BY <2>3, <4>1
      <4>3. dk[i] = SumOf(asked, count, i - at)[k - 1]
        BY <3>1, <3>2, <3>5 DEF Derived
      <4> QED
        BY <2>2, <3>2, <3>3, <4>2, <4>3, SumIs
    <3>6. ASSUME NEW i \in 1 .. asked.length, i > at, ~(i - at <= OutputSize)
          PROVE  dk'[i] = IF k % 2 = 1 THEN Behind(i - at) ELSE Zero
      <4>1. i - at > OutputSize /\ i - at <= ArraySize
        BY <2>2, <2>5, <3>6 DEF Clean
      <4>2. dk'[i] = Xor(dk[i], Behind(i - at))
        BY <2>3, <4>1
      <4>3. dk[i] = IF iteration % 2 = 1 THEN Behind(i - at) ELSE Zero
        BY <3>1, <3>6 DEF Derived
      <4>4. k % 2 = 1 <=> ~(iteration % 2 = 1)
        BY <2>2
      <4> QED
        BY <4>2, <4>3, <4>4, XorTwice
    <3>7. StandardByte(1)' = StandardByte(1) /\ \A i : StandardByte(i)' = StandardByte(i)
      BY <2>1 DEF StandardByte
    <3> QED
      BY <1>2, <2>1, <3>3, <3>4, <3>5, <3>6, <3>7 DEF Derived, Behind
  <2> QED
    BY <2>1, <2>4, <2>5 DEF DeriveInv, Clean
<1> QED
  BY <1>1, <1>2 DEF Iterate

LEMMA BlocksAre ==
    ASSUME NEW length \in Nat, length >= 1, NEW n \in Nat
    PROVE  n >= Blocks(length) <=> n * OutputSize >= length
<1> USE Pbkdf2Assumption
<1> DEFINE x == length - 1 + OutputSize
           q == x \div OutputSize
<1>1. x \in Nat /\ OutputSize \in Nat /\ OutputSize > 0
  OBVIOUS
<1>2. q \in Nat /\ q * OutputSize <= x /\ x < q * OutputSize + OutputSize
  <2> HIDE DEF x
  <2> QED
    BY <1>1
<1>3. Blocks(length) = q
  BY DEF Blocks
<1> HIDE DEF q
<1>4. q * OutputSize >= length /\ q * OutputSize < length + OutputSize
  BY <1>1, <1>2
<1>5. n >= q => n * OutputSize >= q * OutputSize
  BY <1>1, <1>2
<1>6. n < q => n * OutputSize + OutputSize <= q * OutputSize
  BY <1>1, <1>2
<1>7. n * OutputSize \in Nat /\ q * OutputSize \in Nat
  BY <1>1, <1>2
<1> QED
  BY <1>1, <1>2, <1>3, <1>4, <1>5, <1>6, <1>7

\* The block and the place of a byte.
LEMMA PlaceOfByte ==
    ASSUME NEW n \in Nat, NEW place \in Nat, place >= 1, place <= OutputSize
    PROVE  /\ (n * OutputSize + place - 1) \div OutputSize = n
           /\ (n * OutputSize + place - 1) % OutputSize = place - 1
<1> USE Pbkdf2Assumption
<1>1. PICK rem \in Nat : rem = place - 1 /\ rem < OutputSize
  OBVIOUS
<1>2. OutputSize \in Nat /\ OutputSize > 0
  OBVIOUS
<1>3. (n * OutputSize + rem) \div OutputSize = n /\ (n * OutputSize + rem) % OutputSize = rem
  BY <1>1, <1>2
<1>4. n * OutputSize + place - 1 = n * OutputSize + rem
  BY <1>1, <1>2
<1> QED
  BY <1>1, <1>3, <1>4

LEMMA NextBlockDerives == ASSUME DeriveInv, NextBlock PROVE DeriveInv'
<1> USE Pbkdf2Assumption
<1>1. /\ returned = "nothing" /\ iteration = asked.iterations
      /\ at' = at + Step /\ left' = left - Step
      /\ count' = count + 1 /\ iteration' = 0
      /\ IF count + 1 > Blocks(asked.length)
         THEN returned' = "success"
         ELSE returned' \in {"nothing", "undefined"} /\ block' \in FirstInputs(count + 1)
      /\ UNCHANGED <<asked, dk>>
  BY DEF NextBlock, GoingOn
<1>2. /\ asked \in Asked /\ asked.iterations \in Nat /\ asked.length \in Nat
      /\ asked.length >= 1 /\ at \in Nat /\ left \in Nat /\ left > 0
      /\ at + left = asked.length /\ count \in Nat /\ count >= 1
      /\ at = (count - 1) * OutputSize /\ OutputSize \in Nat /\ OutputSize > 0
  BY <1>1 DEF DeriveInv, Placed, Asked
<1>3. Step \in Nat /\ Step <= left /\ Step <= OutputSize /\ (Step = OutputSize \/ Step = left)
  BY <1>2 DEF Step
<1>4. count * OutputSize = at + OutputSize
  BY <1>2
<1>5. count + 1 > Blocks(asked.length) <=> at + OutputSize >= asked.length
  <2>1. count >= Blocks(asked.length) <=> count * OutputSize >= asked.length
    BY <1>2, BlocksAre
  <2>2. Blocks(asked.length) \in Int
    BY <1>2 DEF Blocks
  <2> QED
    BY <1>2, <1>4, <2>1, <2>2
<1>6. left' > 0 <=> ~(at + OutputSize >= asked.length)
  <2> DEFINE length == asked.length
             step == Step
  <2>1. /\ step \in Nat /\ step <= left /\ step <= OutputSize
        /\ step = OutputSize \/ step = left
        /\ left' = left - step
    BY <1>1, <1>3
  <2>2. length \in Nat /\ at \in Nat /\ left \in Nat /\ at + left = length /\ OutputSize \in Nat
    BY <1>2
  <2> HIDE DEF length, step
  <2>3. left' > 0 <=> ~(at + OutputSize >= length)
    BY <2>1, <2>2
  <2> QED
    BY <2>3 DEF length
<1>7. left' > 0 => Step = OutputSize
  <2>1. left' = left - Step
    BY <1>1
  <2>2. left \in Nat
    BY <1>2
  <2> QED
    BY <1>3, <2>1, <2>2
<1>8. Placed'
  <2>1. at' \in Nat /\ left' \in Nat /\ at' + left' = asked.length
    <3>1. at' = at + Step /\ left' = left - Step
      BY <1>1
    <3>2. at \in Nat /\ left \in Nat /\ at + left = asked.length
      BY <1>2
    <3> QED
      BY <1>3, <3>1, <3>2
  <2>2. left' > 0 => at' = (count' - 1) * OutputSize
    <3>1. left' > 0 => at' = at + OutputSize
      BY <1>1, <1>7
    <3>2. count' - 1 = count
      BY <1>1, <1>2
    <3> QED
      BY <1>4, <3>1, <3>2
  <2>3. returned' = "success" => left' = 0
    BY <1>1, <1>2, <1>5, <1>6, <2>1
  <2>4. returned' = "nothing" => left' > 0
    BY <1>1, <1>5, <1>6
  <2>5. DOMAIN dk' = 1 .. asked'.length /\ asked' \in Asked
    BY <1>1 DEF DeriveInv, Placed
  <2>6. count' \in Nat /\ count' >= 1 /\ iteration' \in Nat /\ iteration' <= asked'.iterations
    BY <1>1, <1>2
  <2> QED
    BY <1>1, <2>1, <2>2, <2>3, <2>4, <2>5, <2>6 DEF Placed
<1>9. ASSUME Clean PROVE Derived'
  <2>1. Derived
    BY <1>9 DEF DeriveInv
  <2>2. returned' # "success" => block' = Chain(asked', count')[iteration']
    <3>1. FirstInputs(count + 1) = {Salt(asked.salt) \o Number(count + 1)}
      BY <1>2, <1>9, FirstInput
    <3> QED
      BY <1>1, <1>2, <3>1, ChainIs
  <2>3. ASSUME NEW i \in 1 .. asked.length, i <= at'
        PROVE  dk'[i] = StandardByte(i)'
    <3>1. StandardByte(i)' = StandardByte(i)
      BY <1>1 DEF StandardByte
    <3>2. CASE i <= at
      BY <1>1, <2>1, <3>1, <3>2 DEF Derived
    <3>3. CASE i > at
      <4> DEFINE place == i - at
                 n == count - 1
      <4>1. place \in Nat /\ place >= 1 /\ place <= OutputSize /\ n \in Nat
        BY <1>1, <1>2, <1>3, <2>3, <3>3
      <4>2. dk[i] = SumOf(asked, count, place)[iteration]
        BY <1>2, <2>1, <3>3, <4>1 DEF Derived
      <4>3. i - 1 = n * OutputSize + place - 1 /\ n + 1 = count
        BY <1>2
      <4> HIDE DEF place, n
      <4>4. (i - 1) \div OutputSize = n /\ (i - 1) % OutputSize = place - 1
        BY <4>1, <4>3, PlaceOfByte
      <4>5. ((i - 1) % OutputSize) + 1 = place
        BY <4>1, <4>4
      <4> QED
        BY <1>1, <3>1, <4>2, <4>3, <4>4, <4>5, StandardIs
    <3> QED
      BY <1>2, <3>2, <3>3
  <2>4. ASSUME NEW i \in 1 .. asked.length, i > at'
        PROVE  dk'[i] = Zero
    <3>1. Step = OutputSize /\ at' = at + OutputSize
      BY <1>1, <1>2, <1>3, <2>4
    <3>2. i > at /\ ~(i - at <= OutputSize) /\ asked.length > OutputSize
      BY <1>2, <2>4, <3>1
    <3>3. asked.iterations % 2 = 0
      BY <1>2, <1>9, <3>2 DEF Clean
    <3>4. dk[i] = IF iteration % 2 = 1 THEN Behind(i - at) ELSE Zero
      BY <2>1, <3>2 DEF Derived
    <3> QED
      BY <1>1, <3>3, <3>4
  <2>5. ASSUME NEW i \in 1 .. asked.length, i > at'
        PROVE  dk'[i] = IF i - at' <= OutputSize
                        THEN SumOf(asked', count', i - at')[iteration']
                        ELSE IF iteration' % 2 = 1 THEN Behind(i - at)' ELSE Zero
    <3>1. SumOf(asked', count', i - at')[0] = Zero
      BY <1>1, <1>2, SumIs
    <3>2. 0 % 2 # 1
      OBVIOUS
    <3> QED
      BY <1>1, <2>4, <2>5, <3>1, <3>2
  <2> QED
    BY <1>1, <2>2, <2>3, <2>5 DEF Derived
<1>10. Clean' = Clean
  BY <1>1 DEF Clean
<1> QED
  BY <1>8, <1>9, <1>10 DEF DeriveInv

\* yk_pbkdf2 derives the key of RFC 2898, for outputs and arrays of any size and
\* whatever lies behind an output, when salt and number fit into the array and the
\* key is a single output, or fits into the array and the iterations are even.
THEOREM KeyIsStandard == Pbkdf2Spec => []DerivedIsStandard
<1>1. DeriveInv /\ [Pbkdf2Next]_pbkdf2Vars => DeriveInv'
  <2> SUFFICES ASSUME DeriveInv, [Pbkdf2Next]_pbkdf2Vars PROVE DeriveInv'
    OBVIOUS
  <2>1. CASE UNCHANGED pbkdf2Vars
    <3>1. Placed' /\ Clean' = Clean
      BY <2>1 DEF pbkdf2Vars, DeriveInv, Placed, Clean
    <3>2. \A i : StandardByte(i)' = StandardByte(i) /\ Behind(i)' = Behind(i)
      BY <2>1 DEF pbkdf2Vars, StandardByte, Behind
    <3>3. Derived => Derived'
      BY <2>1, <3>2 DEF pbkdf2Vars, Derived
    <3> QED
      BY <3>1, <3>3 DEF DeriveInv
  <2> QED
    BY <2>1, IterateDerives, NextBlockDerives DEF Pbkdf2Next
<1>2. DeriveInv => DerivedIsStandard
  <2> SUFFICES ASSUME DeriveInv, returned = "success", Clean, NEW i \in 1 .. asked.length
               PROVE  dk[i] = StandardByte(i)
    BY DEF DerivedIsStandard, Clean
  <2>1. i <= at
    BY DEF DeriveInv, Placed, Asked
  <2> QED
    BY <2>1 DEF DeriveInv, Derived
<1> QED
  BY <1>1, <1>2, DeriveStarts, PTL DEF Pbkdf2Spec

-----------------------------------------------------------------------------
(* VersionCompare: the parts of a string.                                  *)

LEMMA MaxIs ==
    ASSUME NEW n \in Nat, NEW S \in SUBSET (0 .. n), S # {}
    PROVE  Max(S) \in S /\ \A j \in S : j <= Max(S)
<1> DEFINE T == {n - j : j \in S}
<1>1. T \in SUBSET Nat /\ T # {}
  <2>1. \A j \in S : n - j \in Nat
    OBVIOUS
  <2>2. PICK j \in S : TRUE
    OBVIOUS
  <2>3. n - j \in T
    OBVIOUS
  <2> QED
    BY <2>1, <2>3
<1>2. PICK k \in T : \A j \in T : k <= j
  <2> HIDE DEF T
  <2> QED
    BY <1>1, Least
<1>3. PICK m \in S : k = n - m
  BY <1>2
<1>4. \A j \in S : m >= j
  <2> TAKE j \in S
  <2>1. n - j \in T /\ j \in Nat /\ m \in Nat
    BY <1>3
  <2>2. n - m <= n - j
    BY <1>2, <1>3, <2>1
  <2> QED
    BY <2>1, <2>2
<1>5. \E x \in S : \A j \in S : x >= j
  BY <1>4
<1>6. Max(S) \in S /\ \A j \in S : Max(S) >= j
  BY <1>5 DEF Max
<1> QED
  BY <1>6

LEMMA MinIs ==
    ASSUME NEW S \in SUBSET Nat, S # {}
    PROVE  Min(S) \in S /\ \A j \in S : Min(S) <= j
<1>1. \E x \in S : \A j \in S : x <= j
  BY Least
<1> QED
  BY <1>1 DEF Min

\* How far s begins with what the set has: that far and no further.
Begun(s, chars, n) ==
    /\ n \in Nat /\ n <= Len(s) /\ \A i \in 1 .. n : s[i] \in chars
    /\ n < Len(s) => s[n + 1] \notin chars

LEMMA BegunOnce ==
    ASSUME NEW s \in Chars, NEW chars, NEW m, NEW n, Begun(s, chars, m), Begun(s, chars, n)
    PROVE  m = n
<1>1. m \in Nat /\ n \in Nat /\ Len(s) \in Nat
  BY DEF Begun, Chars
<1>2. CASE m < n
  <2>1. m + 1 \in 1 .. n /\ m < Len(s)
    BY <1>1, <1>2 DEF Begun
  <2> QED
    BY <2>1 DEF Begun
<1>3. CASE n < m
  <2>1. n + 1 \in 1 .. m /\ n < Len(s)
    BY <1>1, <1>3 DEF Begun
  <2> QED
    BY <2>1 DEF Begun
<1> QED
  BY <1>1, <1>2, <1>3

LEMMA LastBegun ==
    ASSUME NEW s \in Chars, NEW chars
    PROVE  Begun(s, chars, Max({n \in 0 .. Len(s) : \A i \in 1 .. n : s[i] \in chars}))
<1> DEFINE S == {n \in 0 .. Len(s) : \A i \in 1 .. n : s[i] \in chars}
           m == Max(S)
<1>1. Len(s) \in Nat
  BY DEF Chars
<1>2. 0 \in S
  BY <1>1
<1>3. m \in S /\ \A j \in S : j <= m
  <2>1. S \in SUBSET (0 .. Len(s)) /\ S # {}
    BY <1>2
  <2> HIDE DEF S
  <2> QED
    BY <1>1, <2>1, MaxIs
<1> HIDE DEF m
<1>4. m \in Nat /\ m <= Len(s) /\ \A i \in 1 .. m : s[i] \in chars
  BY <1>1, <1>3
<1>5. ASSUME m < Len(s), s[m + 1] \in chars PROVE FALSE
  <2>1. m + 1 \in 0 .. Len(s)
    BY <1>1, <1>4, <1>5
  <2>2. \A i \in 1 .. m + 1 : i \in 1 .. m \/ i = m + 1
    BY <1>4
  <2>3. m + 1 \in S
    BY <1>4, <1>5, <2>1, <2>2
  <2>4. m + 1 <= m
    BY <1>3, <2>3
  <2> QED
    BY <1>4, <2>4
<1> QED
  BY <1>4, <1>5 DEF Begun, m

LEMMA SpanIs == ASSUME NEW s \in Chars, NEW chars PROVE Begun(s, chars, Span(s, chars))
BY LastBegun DEF Span

\* What has none of the set is taken from the others.
LEMMA SpanNotIs ==
    ASSUME NEW s \in Chars, NEW chars
    PROVE  LET n == SpanNot(s, chars) IN
           /\ n \in Nat /\ n <= Len(s) /\ \A i \in 1 .. n : s[i] \notin chars
           /\ n < Len(s) => s[n + 1] \in chars
<1> DEFINE others == Nat \ chars
           S == {n \in 0 .. Len(s) : \A i \in 1 .. n : s[i] \in others}
<1>1. \A i \in 1 .. Len(s) : s[i] \in others <=> s[i] \notin chars
  BY DEF Chars
<1>2. Len(s) \in Nat
  BY DEF Chars
<1>3. \A n \in 0 .. Len(s) : (\A i \in 1 .. n : s[i] \in others) <=> \A i \in 1 .. n : s[i] \notin chars
  <2>1. \A n \in 0 .. Len(s) : \A i \in 1 .. n : i \in 1 .. Len(s)
    BY <1>2
  <2> HIDE DEF others
  <2> QED
    BY <1>1, <2>1
<1>4. S = {n \in 0 .. Len(s) : \A i \in 1 .. n : s[i] \notin chars}
  <2> HIDE DEF others
  <2> QED
    BY <1>3
<1>5. SpanNot(s, chars) = Max(S)
  BY <1>4 DEF SpanNot
<1> HIDE DEF others
<1>6. Begun(s, others, Max(S))
  BY LastBegun
<1> HIDE DEF S
<1>7. Max(S) \in 0 .. Len(s)
  BY <1>2, <1>6 DEF Begun
<1>8. Max(S) < Len(s) => Max(S) + 1 \in 1 .. Len(s)
  BY <1>2, <1>7
<1>9. Max(S) \in Nat /\ Max(S) <= Len(s)
  BY <1>2, <1>7
<1> QED
  BY <1>1, <1>3, <1>5, <1>6, <1>7, <1>8, <1>9 DEF Begun

LEMMA FromIs ==
    ASSUME NEW s \in Chars, NEW n \in Nat, n <= Len(s)
    PROVE  /\ From(s, n) \in Chars /\ Len(From(s, n)) = Len(s) - n
           /\ \A i \in 1 .. Len(s) - n : From(s, n)[i] = s[n + i]
           /\ \A i \in Nat : i > 0 => At(From(s, n), i) = At(s, n + i)
<1> DEFINE r == From(s, n)
<1>1. Len(s) \in Nat /\ \A i \in 1 .. Len(s) : s[i] \in Nat \ {0}
  BY DEF Chars
<1>2. r = [i \in 1 .. Len(s) - n |-> s[n + i]]
  <2>1. r = [i \in 1 .. (Len(s) - (n + 1) + 1) |-> s[(n + 1) + i - 1]]
    BY <1>1 DEF From, Chars
  <2>2. Len(s) - (n + 1) + 1 = Len(s) - n /\ \A i \in Nat : (n + 1) + i - 1 = n + i
    BY <1>1
  <2> QED
    BY <2>1, <2>2
<1> HIDE DEF r
<1>3. \A i \in 1 .. Len(s) - n : n + i \in 1 .. Len(s) /\ r[i] = s[n + i]
  BY <1>1, <1>2
<1>4. r \in Chars /\ Len(r) = Len(s) - n
  <2> DEFINE m == Len(s) - n
  <2>1. m \in Nat
    BY <1>1
  <2>2. r = [i \in 1 .. m |-> s[n + i]] /\ \A i \in 1 .. m : s[n + i] \in Nat \ {0}
    BY <1>1, <1>2, <1>3
  <2> HIDE DEF m
  <2>3. r \in Seq(Nat \ {0}) /\ Len(r) = m
    BY <2>1, <2>2
  <2> QED
    BY <2>3 DEF Chars, m
<1>5. ASSUME NEW i \in Nat, i > 0 PROVE At(r, i) = At(s, n + i)
  <2>1. DOMAIN r = 1 .. Len(s) - n /\ DOMAIN s = 1 .. Len(s)
    BY <1>2 DEF Chars
  <2>2. i \in DOMAIN r <=> n + i \in DOMAIN s
    BY <1>1, <1>5, <2>1
  <2> QED
    BY <1>3, <2>1, <2>2 DEF At
<1> QED
  BY <1>3, <1>4, <1>5 DEF r

LEMMA AtIs ==
    ASSUME NEW s \in Chars
    PROVE  /\ \A i \in 1 .. Len(s) : At(s, i) = s[i] /\ s[i] \in Nat /\ s[i] # 0
           /\ \A i \in Nat : i > Len(s) => At(s, i) = 0
           /\ \A i \in Nat : At(s, i) \in Nat
BY DEF At, Chars

\* The first n characters are the same.
Agree(s, t, n) == \A i \in 1 .. n : At(s, i) = At(t, i)

LEMMA ComparedIs ==
    ASSUME NEW s \in Chars, NEW t \in Chars, NEW n \in Nat
    PROVE  /\ Agree(s, t, n) => Compared(s, t, n) = 0
           /\ ~Agree(s, t, n) =>
                \E k \in 1 .. n : /\ Agree(s, t, k - 1) /\ At(s, k) # At(t, k)
                                  /\ Compared(s, t, n) = Sign(At(s, k) - At(t, k))
<1> DEFINE apart == {i \in 1 .. n : At(s, i) # At(t, i)}
<1>1. Agree(s, t, n) <=> apart = {}
  BY DEF Agree
<1>2. CASE apart = {}
  BY <1>1, <1>2 DEF Compared
<1>3. CASE apart # {}
  <2>1. Min(apart) \in apart /\ \A j \in apart : Min(apart) <= j
    <3>1. apart \in SUBSET Nat
      OBVIOUS
    <3> HIDE DEF apart
    <3> QED
      BY <1>3, <3>1, MinIs
  <2> DEFINE k == Min(apart)
  <2>2. Compared(s, t, n) = Sign(At(s, k) - At(t, k))
    BY <1>3 DEF Compared
  <2> HIDE DEF k
  <2>3. k \in 1 .. n /\ At(s, k) # At(t, k) /\ \A j \in apart : k <= j
    BY <2>1 DEF k
  <2>4. Agree(s, t, k - 1)
    BY <2>3 DEF Agree
  <2> QED
    BY <1>1, <1>3, <2>2, <2>3, <2>4
<1> QED
  BY <1>2, <1>3

\* A verdict is one of three; the other way round it is the opposite.
LEMMA SignIs ==
    ASSUME NEW n \in Int
    PROVE  /\ Sign(n) \in {-1, 0, 1} /\ (Sign(n) = 0 <=> n = 0)
           /\ (n < 0 => Sign(n) = -1) /\ (n > 0 => Sign(n) = 1)
BY DEF Sign

LEMMA ComparedSign ==
    ASSUME NEW s \in Chars, NEW t \in Chars, NEW n \in Nat
    PROVE  /\ Compared(s, t, n) \in {-1, 0, 1}
           /\ Compared(s, t, n) = 0 <=> Agree(s, t, n)
<1>1. \A k \in Nat : At(s, k) \in Nat /\ At(t, k) \in Nat
  BY AtIs
<1>2. CASE Agree(s, t, n)
  BY <1>2, ComparedIs
<1>3. CASE ~Agree(s, t, n)
  <2>1. PICK k \in 1 .. n : /\ At(s, k) # At(t, k)
                            /\ Compared(s, t, n) = Sign(At(s, k) - At(t, k))
    BY <1>3, ComparedIs
  <2> DEFINE d == At(s, k) - At(t, k)
  <2>2. d \in Int /\ d # 0
    BY <1>1, <2>1
  <2> HIDE DEF d
  <2>3. Sign(d) \in {-1, 1}
    BY <2>2, SignIs
  <2> QED
    BY <1>3, <2>1, <2>3 DEF d
<1> QED
  BY <1>2, <1>3
-----------------------------------------------------------------------------
(* VersionCompare: two numbers, in the code's comparison.                  *)

Verdicts == {-1, 0, 1}

\* Both strings go on with the same number, or with none.
SameNumber(s, t) ==
    Span(s, Digits) = Span(t, Digits) /\ Agree(s, t, Span(s, Digits))

LEMMA SpanTyped ==
    ASSUME NEW s \in Chars, NEW chars
    PROVE  Span(s, chars) \in Nat /\ Span(s, chars) <= Len(s)
BY SpanIs DEF Begun

LEMMA NumbersIs ==
    ASSUME NEW s \in Chars, NEW t \in Chars
    PROVE  /\ Numbers(s, t) \in Verdicts
           /\ Numbers(s, t) = 0 <=> SameNumber(s, t)
<1> DEFINE p == Span(s, Digits)
           q == Span(t, Digits)
<1>1. p \in Nat /\ q \in Nat
  BY SpanTyped
<1>2. Numbers(s, t) = IF p # q THEN Sign(p - q) ELSE Compared(s, t, p)
  BY DEF Numbers
<1>3. SameNumber(s, t) <=> p = q /\ Agree(s, t, p)
  BY DEF SameNumber
<1> HIDE DEF p, q
<1>4. p - q \in Int /\ (p - q = 0 <=> p = q)
  BY <1>1
<1>5. Sign(p - q) \in Verdicts /\ (Sign(p - q) = 0 <=> p = q)
  BY <1>4, SignIs DEF Verdicts
<1> QED
  BY <1>1, <1>2, <1>3, <1>5, ComparedSign DEF Verdicts

LEMMA FractionsIs ==
    ASSUME NEW s \in Chars, NEW t \in Chars
    PROVE  /\ Fractions(s, t) \in Verdicts
           /\ Fractions(s, t) = 0 <=> SameNumber(s, t)
<1> DEFINE p == Span(s, Digits)
           q == Span(t, Digits)
           n == Min({p, q})
           apart == /\ At(s, 1) # At(t, 1)
                    /\ ZeroDigit \notin {At(s, 1), At(t, 1)} /\ p # q
<1>1. p \in Nat /\ q \in Nat
  BY SpanTyped
<1>2. n \in Nat
  <2>1. {p, q} \in SUBSET Nat /\ {p, q} # {}
    BY <1>1
  <2>2. n \in {p, q}
    <3> HIDE DEF p, q
    <3> QED
      BY <2>1, MinIs
  <2> QED
    BY <1>1, <2>2
<1>3. Fractions(s, t) =
        CASE p = 0 /\ q > 0 -> 1
          [] q = 0 /\ p > 0 -> -1
          [] apart -> Sign(q - p)
          [] OTHER -> IF p # q /\ Compared(s, t, n) # 0 THEN Compared(s, t, n)
                      ELSE Numbers(s, t)
  BY DEF Fractions
<1>4. SameNumber(s, t) => p = q
  BY DEF SameNumber
<1> HIDE DEF p, q, n
<1>5. q - p \in Int /\ (q - p = 0 <=> p = q)
  BY <1>1
<1>6. Sign(q - p) \in Verdicts /\ (Sign(q - p) = 0 <=> p = q)
  BY <1>5, SignIs DEF Verdicts
<1>7. Compared(s, t, n) \in Verdicts
  BY <1>2, ComparedSign DEF Verdicts
<1>8. apart => p # q
  OBVIOUS
<1> HIDE DEF apart
<1>9. CASE p = 0 /\ q > 0
  <2>1. Fractions(s, t) = 1
    <3>1. q - p > 0 /\ ~(q = 0 /\ p > 0)
      BY <1>1, <1>9
    <3>2. Sign(q - p) = 1
      BY <1>5, <3>1, SignIs
    <3> QED
      BY <1>3, <1>9, <3>1, <3>2
  <2>2. ~SameNumber(s, t)
    BY <1>1, <1>4, <1>9
  <2> QED
    BY <2>1, <2>2 DEF Verdicts
<1>10. CASE q = 0 /\ p > 0
  <2>1. ~(p = 0 /\ q > 0) /\ p # q
    BY <1>1, <1>10
  <2>2. Fractions(s, t) = -1
    <3>1. q - p < 0
      BY <1>1, <1>10
    <3>2. Sign(q - p) = -1
      BY <1>5, <3>1, SignIs
    <3> QED
      BY <1>3, <1>10, <2>1, <3>2
  <2>3. ~SameNumber(s, t)
    BY <1>4, <2>1
  <2> QED
    BY <2>2, <2>3 DEF Verdicts
<1>11. CASE ~(p = 0 /\ q > 0) /\ ~(q = 0 /\ p > 0) /\ apart
  BY <1>3, <1>4, <1>6, <1>8, <1>11
<1>12. CASE ~(p = 0 /\ q > 0) /\ ~(q = 0 /\ p > 0) /\ ~apart
  <2>1. Fractions(s, t) = IF p # q /\ Compared(s, t, n) # 0 THEN Compared(s, t, n)
                          ELSE Numbers(s, t)
    BY <1>3, <1>12
  <2> QED
    BY <1>4, <1>7, <2>1, NumbersIs
<1> QED
  BY <1>9, <1>10, <1>11, <1>12

\* A number that begins with zeros, without some of them.
LEMMA WithoutZeros ==
    ASSUME NEW s \in Chars, NEW z \in Nat, z <= Span(s, {ZeroDigit})
    PROVE  /\ z <= Len(s) /\ \A i \in 1 .. z : At(s, i) = ZeroDigit
           /\ Span(s, Digits) = z + Span(From(s, z), Digits)
<1> DEFINE m == Span(s, {ZeroDigit})
           r == From(s, z)
           n == Span(r, Digits)
<1>1. m \in Nat /\ m <= Len(s) /\ (\A i \in 1 .. m : s[i] \in {ZeroDigit}) /\ Len(s) \in Nat
  BY SpanIs DEF Begun, Chars
<1> HIDE DEF m
<1>2. z <= m
  BY DEF m
<1>3. \A i \in 1 .. z : i \in 1 .. Len(s) /\ s[i] = ZeroDigit
  BY <1>1, <1>2
<1>4. z <= Len(s) /\ \A i \in 1 .. z : At(s, i) = ZeroDigit
  <2>1. z <= Len(s)
    BY <1>1, <1>2
  <2>2. \A i \in 1 .. Len(s) : At(s, i) = s[i]
    BY AtIs
  <2> QED
    BY <1>3, <2>1, <2>2
<1>5. r \in Chars /\ Len(r) = Len(s) - z /\ \A i \in 1 .. Len(s) - z : r[i] = s[z + i]
  BY <1>4, FromIs
<1> HIDE DEF r
<1>6. n \in Nat /\ n <= Len(s) - z /\ (\A i \in 1 .. n : r[i] \in Digits)
      /\ (n < Len(s) - z => r[n + 1] \notin Digits)
  BY <1>5, SpanIs DEF Begun
<1> HIDE DEF n
<1>7. Begun(s, Digits, z + n)
  <2>1. z + n \in Nat /\ z + n <= Len(s)
    BY <1>1, <1>6
  <2>2. \A i \in 1 .. z + n : s[i] \in Digits
    <3> TAKE i \in 1 .. z + n
    <3>1. CASE i <= z
      <4>1. i \in 1 .. z
        BY <3>1
      <4> QED
        BY <1>3, <4>1 DEF Digits, ZeroDigit
    <3>2. CASE i > z
      <4>1. i - z \in 1 .. n /\ i - z \in 1 .. Len(s) - z /\ z + (i - z) = i
        BY <1>1, <1>6, <3>2
      <4> QED
        BY <1>5, <1>6, <4>1
    <3> QED
      BY <3>1, <3>2
  <2>3. ASSUME z + n < Len(s) PROVE s[z + n + 1] \notin Digits
    <3>1. n + 1 \in 1 .. Len(s) - z /\ n < Len(s) - z /\ z + (n + 1) = z + n + 1
      BY <1>1, <1>6, <2>3
    <3> QED
      BY <1>5, <1>6, <3>1
  <2> QED
    BY <2>1, <2>2, <2>3 DEF Begun
<1>8. Span(s, Digits) = z + n
  BY <1>7, SpanIs, BegunOnce
<1> QED
  BY <1>4, <1>8 DEF n, r

LEMMA FromAgrees ==
    ASSUME NEW s \in Chars, NEW t \in Chars, NEW z \in Nat, NEW n \in Nat,
           z <= Len(s), z <= Len(t), Agree(s, t, z)
    PROVE  Agree(s, t, z + n) <=> Agree(From(s, z), From(t, z), n)
<1>1. /\ \A i \in Nat : i > 0 => At(From(s, z), i) = At(s, z + i)
      /\ \A i \in Nat : i > 0 => At(From(t, z), i) = At(t, z + i)
  BY FromIs
<1>2. ASSUME Agree(s, t, z + n) PROVE Agree(From(s, z), From(t, z), n)
  <2>1. \A i \in 1 .. n : z + i \in 1 .. z + n /\ i \in Nat /\ i > 0
    OBVIOUS
  <2> QED
    BY <1>1, <1>2, <2>1 DEF Agree
<1>3. ASSUME Agree(From(s, z), From(t, z), n) PROVE Agree(s, t, z + n)
  <2> SUFFICES ASSUME NEW i \in 1 .. z + n PROVE At(s, i) = At(t, i)
    BY DEF Agree
  <2>1. CASE i <= z
    <3>1. i \in 1 .. z
      BY <2>1
    <3> QED
      BY <3>1 DEF Agree
  <2>2. CASE i > z
    <3>1. i - z \in 1 .. n /\ i - z \in Nat /\ i - z > 0 /\ z + (i - z) = i
      BY <2>2
    <3>2. At(From(s, z), i - z) = At(From(t, z), i - z)
      BY <1>3, <3>1 DEF Agree
    <3> QED
      BY <1>1, <3>1, <3>2
  <2> QED
    BY <2>1, <2>2
<1> QED
  BY <1>2, <1>3

\* The comparison of two numbers tells them the same when they are, digit by digit.
LEMMA SegmentIs ==
    ASSUME NEW s \in Chars, NEW t \in Chars
    PROVE  /\ Segment(s, t) \in Verdicts
           /\ Segment(s, t) = 0 <=> SameNumber(s, t)
<1> DEFINE a == At(s, 1) = ZeroDigit
           b == At(t, 1) = ZeroDigit
           z == Min({Span(s, {ZeroDigit}), Span(t, {ZeroDigit})})
           u == From(s, z)
           v == From(t, z)
           fractions == Fractions(u, v)
           numbers == Numbers(s, t)
<1>1. Segment(s, t) = CASE a /\ ~b -> -1 [] ~a /\ b -> 1 [] ~a /\ ~b -> numbers
                        [] a /\ b -> fractions
  BY DEF Segment
<1>2. SameNumber(s, t) => (a <=> b)
  <2> SUFFICES ASSUME SameNumber(s, t), a # b PROVE FALSE
    OBVIOUS
  <2>1. Span(s, Digits) \in Nat /\ Span(t, Digits) \in Nat
    BY SpanTyped
  <2>2. \A r \in Chars : At(r, 1) = ZeroDigit => Span(r, Digits) > 0
    <3> SUFFICES ASSUME NEW r \in Chars, At(r, 1) = ZeroDigit, ~(Span(r, Digits) > 0) PROVE FALSE
      OBVIOUS
    <3>1. Begun(r, Digits, 0) /\ Len(r) \in Nat
      BY SpanIs DEF Begun, Chars
    <3>2. Len(r) # 0
      <4>1. 1 > Len(r) => At(r, 1) = 0
        BY AtIs
      <4> QED
        BY <3>1, <4>1 DEF ZeroDigit
    <3>3. 1 \in 1 .. Len(r) /\ 0 < Len(r)
      BY <3>1, <3>2
    <3>4. r[1] \notin Digits /\ r[1] = ZeroDigit
      <4>1. At(r, 1) = r[1]
        BY <3>3, AtIs
      <4>2. r[0 + 1] \notin Digits
        BY <3>1, <3>3 DEF Begun
      <4> QED
        BY <4>1, <4>2
    <3> QED
      BY <3>4 DEF Digits, ZeroDigit
  <2>3. 1 \in 1 .. Span(s, Digits)
    BY <2>1, <2>2 DEF SameNumber
  <2> QED
    BY <2>3 DEF SameNumber, Agree
<1>3. numbers \in Verdicts /\ (numbers = 0 <=> SameNumber(s, t))
  BY NumbersIs
<1>4. /\ z \in Nat /\ z <= Span(s, {ZeroDigit}) /\ z <= Span(t, {ZeroDigit})
  <2> DEFINE m == Span(s, {ZeroDigit})
             n == Span(t, {ZeroDigit})
  <2>1. m \in Nat /\ n \in Nat
    BY SpanTyped
  <2> HIDE DEF m, n
  <2>2. Min({m, n}) \in {m, n} /\ \A j \in {m, n} : Min({m, n}) <= j
    <3>1. {m, n} \in SUBSET Nat /\ {m, n} # {}
      BY <2>1
    <3> QED
      BY <3>1, MinIs
  <2> QED
    BY <2>1, <2>2 DEF m, n
<1> HIDE DEF z
<1>5. /\ z <= Len(s) /\ z <= Len(t) /\ Agree(s, t, z)
      /\ Span(s, Digits) = z + Span(u, Digits) /\ Span(t, Digits) = z + Span(v, Digits)
  BY <1>4, WithoutZeros DEF Agree
<1>6. u \in Chars /\ v \in Chars
  BY <1>4, <1>5, FromIs
<1>7. fractions \in Verdicts /\ (fractions = 0 <=> SameNumber(u, v))
  BY <1>6, FractionsIs
<1>8. SameNumber(u, v) <=> SameNumber(s, t)
  <2> DEFINE m == Span(u, Digits)
             n == Span(v, Digits)
  <2>1. m \in Nat /\ n \in Nat
    BY <1>6, SpanTyped
  <2>2. Agree(s, t, z + m) <=> Agree(u, v, m)
    BY <1>4, <1>5, <2>1, FromAgrees
  <2> HIDE DEF u, v, m, n
  <2>3. (SameNumber(u, v) <=> m = n /\ Agree(u, v, m))
        /\ (SameNumber(s, t) <=> z + m = z + n /\ Agree(s, t, z + m))
    BY <1>5 DEF SameNumber, m, n
  <2> QED
    BY <1>4, <2>1, <2>2, <2>3
<1> HIDE DEF a, b, fractions, numbers
<1>9. CASE a /\ ~b
  <2>1. Segment(s, t) = -1
    BY <1>1, <1>9
  <2> QED
    BY <1>2, <1>9, <2>1 DEF Verdicts
<1>10. CASE ~a /\ b
  <2>1. Segment(s, t) = 1
    BY <1>1, <1>10
  <2> QED
    BY <1>2, <1>10, <2>1 DEF Verdicts
<1>11. CASE ~a /\ ~b
  <2>1. Segment(s, t) = numbers
    BY <1>1, <1>11
  <2> QED
    BY <1>3, <2>1
<1>12. CASE a /\ b
  <2>1. Segment(s, t) = fractions
    BY <1>1, <1>12
  <2> QED
    BY <1>7, <1>8, <2>1
<1> QED
  BY <1>9, <1>10, <1>11, <1>12

-----------------------------------------------------------------------------
(* VersionCompare: the value of a number.                                  *)

\* f counts what the first n characters of r are worth.
Counted(f, r, n) ==
    /\ f \in [0 .. n -> Nat] /\ f[0] = 0
    /\ \A k \in 1 .. n : f[k] = 10 * f[k - 1] + (r[k] - ZeroDigit)

AreDigits(r, n) == n \in Nat /\ \A k \in 1 .. n : r[k] \in Digits

LEMMA CountExists ==
    ASSUME NEW n, NEW r, AreDigits(r, n) PROVE \E f : Counted(f, r, n)
<1> DEFINE step == [q \in (1 .. n) \X Nat |-> 10 * q[2] + (r[q[1]] - ZeroDigit)]
<1>1. n \in Nat /\ \A k \in 1 .. n : r[k] - ZeroDigit \in Nat
  BY DEF AreDigits, Digits, ZeroDigit
<1>2. step \in [(1 .. n) \X Nat -> Nat]
  <2>1. ASSUME NEW q \in (1 .. n) \X Nat PROVE 10 * q[2] + (r[q[1]] - ZeroDigit) \in Nat
    <3>1. q[2] \in Nat /\ r[q[1]] - ZeroDigit \in Nat
      BY <1>1
    <3> DEFINE x == r[q[1]] - ZeroDigit
    <3> HIDE DEF x
    <3>2. \A y \in Nat : x \in Nat => 10 * y + x \in Nat
      OBVIOUS
    <3> QED
      BY <3>1, <3>2 DEF x
  <2> QED
    BY <2>1
<1>3. PICK f : Runs(f, n, Nat, 0, step)
  <2> HIDE DEF step
  <2> QED
    BY <1>1, <1>2, Recursion
<1>4. f \in [0 .. n -> Nat] /\ f[0] = 0 /\ \A k \in 1 .. n : f[k] = step[<<k, f[k - 1]>>]
  BY <1>3 DEF Runs
<1>5. \A k \in 1 .. n : f[k] = 10 * f[k - 1] + (r[k] - ZeroDigit)
  <2> TAKE k \in 1 .. n
  <2>1. <<k, f[k - 1]>> \in (1 .. n) \X Nat
    BY <1>1, <1>4
  <2>2. step[<<k, f[k - 1]>>] = 10 * f[k - 1] + (r[k] - ZeroDigit)
    BY <2>1
  <2> QED
    BY <1>4, <2>2
<1> QED
  BY <1>4, <1>5 DEF Counted

\* A statement about the places up to n that each passes on to the next.
LEMMA UpTo ==
    ASSUME NEW n \in Nat, NEW first \in 0 .. n, NEW holds,
           first \in holds, \A k \in first .. n - 1 : k \in holds => k + 1 \in holds
    PROVE  n \in holds
<1> DEFINE bad == {k \in first .. n : k \notin holds}
<1> SUFFICES ASSUME bad # {} PROVE FALSE
  OBVIOUS
<1>1. PICK k \in bad : \A j \in bad : k <= j
  <2>1. bad \in SUBSET Nat
    OBVIOUS
  <2> HIDE DEF bad
  <2> QED
    BY <2>1, Least
<1>2. k - 1 \in first .. n - 1 /\ k - 1 < k /\ (k - 1) + 1 = k /\ k - 1 \in first .. n
  BY <1>1
<1>3. k - 1 \in holds
  BY <1>1, <1>2
<1> QED
  BY <1>1, <1>2, <1>3

\* The same digits are worth the same.
LEMMA CountedSame ==
    ASSUME NEW f, NEW g, NEW r, NEW x, NEW n, AreDigits(r, n),
           Counted(f, r, n), Counted(g, x, n), \A k \in 1 .. n : x[k] = r[k]
    PROVE  f[n] = g[n]
<1> DEFINE same == {k \in 0 .. n : f[k] = g[k]}
<1>1. n \in Nat /\ 0 \in 0 .. n
  BY DEF AreDigits
<1>2. 0 \in same
  BY <1>1 DEF Counted
<1>3. \A k \in 0 .. n - 1 : k \in same => k + 1 \in same
  <2> SUFFICES ASSUME NEW k \in 0 .. n - 1, f[k] = g[k] PROVE f[k + 1] = g[k + 1]
    BY <1>1
  <2>1. k + 1 \in 1 .. n /\ (k + 1) - 1 = k
    BY <1>1
  <2> QED
    BY <2>1 DEF Counted
<1>4. n \in same
  <2> HIDE DEF same
  <2> QED
    BY <1>1, <1>2, <1>3, UpTo
<1> QED
  BY <1>4

\* Of two numbers of as many digits the first digit that differs decides.
LEMMA CountedLess ==
    ASSUME NEW f, NEW g, NEW r, NEW x, NEW n, AreDigits(r, n), AreDigits(x, n),
           Counted(f, r, n), Counted(g, x, n),
           NEW k \in 1 .. n, \A j \in 1 .. k - 1 : x[j] = r[j], r[k] < x[k]
    PROVE  f[n] < g[n]
<1> DEFINE less == {j \in 0 .. n : f[j] < g[j]}
<1>1. /\ n \in Nat /\ k \in 0 .. n /\ k - 1 \in Nat /\ k - 1 \in 0 .. n
      /\ \A j \in 1 .. k - 1 : j \in 1 .. n /\ j - 1 \in 0 .. k - 1
  BY DEF AreDigits
<1>2. f[k - 1] = g[k - 1]
  <2>1. AreDigits(r, k - 1)
    BY <1>1 DEF AreDigits
  <2> DEFINE a == [j \in 0 .. k - 1 |-> f[j]]
             b == [j \in 0 .. k - 1 |-> g[j]]
  <2>2. Counted(a, r, k - 1) /\ Counted(b, x, k - 1)
    <3>1. \A j \in 0 .. k - 1 : f[j] \in Nat /\ g[j] \in Nat
      BY <1>1 DEF Counted
    <3>2. \A j \in 1 .. k - 1 : a[j] = f[j] /\ a[j - 1] = f[j - 1] /\ b[j] = g[j] /\ b[j - 1] = g[j - 1]
      BY <1>1
    <3>3. a[0] = 0 /\ b[0] = 0
      BY <1>1 DEF Counted
    <3>4. a \in [0 .. k - 1 -> Nat] /\ b \in [0 .. k - 1 -> Nat]
      BY <3>1
    <3> HIDE DEF a, b
    <3> QED
      BY <1>1, <3>2, <3>3, <3>4 DEF Counted
  <2>3. a[k - 1] = f[k - 1] /\ b[k - 1] = g[k - 1]
    BY <1>1
  <2> HIDE DEF a, b
  <2> QED
    BY <2>1, <2>2, <2>3, CountedSame
<1>3. k \in less
  <2>1. /\ f[k] = 10 * f[k - 1] + (r[k] - ZeroDigit) /\ f[k - 1] \in Nat
        /\ g[k] = 10 * g[k - 1] + (x[k] - ZeroDigit)
        /\ r[k] \in Digits /\ x[k] \in Digits
    BY <1>1 DEF Counted, AreDigits
  <2> QED
    BY <1>1, <1>2, <2>1 DEF Digits, ZeroDigit
<1>4. \A j \in k .. n - 1 : j \in less => j + 1 \in less
  <2> SUFFICES ASSUME NEW j \in k .. n - 1, f[j] < g[j]
               PROVE  j + 1 \in 0 .. n /\ f[j + 1] < g[j + 1]
    OBVIOUS
  <2>1. j + 1 \in 1 .. n /\ j + 1 \in 0 .. n /\ (j + 1) - 1 = j /\ j \in 0 .. n
    BY <1>1
  <2>2. /\ f[j + 1] = 10 * f[j] + (r[j + 1] - ZeroDigit)
        /\ g[j + 1] = 10 * g[j] + (x[j + 1] - ZeroDigit)
        /\ f[j] \in Nat /\ g[j] \in Nat /\ r[j + 1] \in Digits /\ x[j + 1] \in Digits
    BY <2>1 DEF Counted, AreDigits
  <2> QED
    BY <2>1, <2>2 DEF Digits, ZeroDigit
<1>5. n \in less
  <2> HIDE DEF less
  <2> QED
    BY <1>1, <1>3, <1>4, UpTo
<1> QED
  BY <1>5

\* A number without a leading zero is larger than any with fewer digits.
LEMMA CountedShorter ==
    ASSUME NEW f, NEW g, NEW r, NEW x, NEW m, NEW n, AreDigits(r, m), AreDigits(x, n),
           Counted(f, r, m), Counted(g, x, n), m < n, x[1] # ZeroDigit
    PROVE  f[m] < g[n]
<1> DEFINE behind == {k \in 0 .. m : f[k] < g[k + 1]}
           less == {k \in 0 .. n : f[m] < g[k]}
<1>1. /\ m \in Nat /\ n \in Nat /\ 0 \in 0 .. m /\ m + 1 \in 0 .. n
      /\ \A k \in 0 .. m : k + 1 \in 0 .. n
  BY DEF AreDigits
<1>2. 0 \in behind
  <2>1. 1 \in 1 .. n /\ 1 - 1 = 0
    BY <1>1
  <2>2. g[1] = 10 * g[0] + (x[1] - ZeroDigit) /\ x[1] \in Digits /\ g[0] = 0 /\ f[0] = 0
    BY <2>1 DEF Counted, AreDigits
  <2>3. g[0 + 1] > 0
    BY <2>2 DEF Digits, ZeroDigit
  <2> QED
    BY <1>1, <2>2, <2>3
<1>3. \A k \in 0 .. m - 1 : k \in behind => k + 1 \in behind
  <2> SUFFICES ASSUME NEW k \in 0 .. m - 1, f[k] < g[k + 1]
               PROVE  k + 1 \in 0 .. m /\ f[k + 1] < g[(k + 1) + 1]
    OBVIOUS
  <2>1. /\ k + 1 \in 1 .. m /\ k + 1 \in 0 .. m /\ (k + 1) - 1 = k /\ k \in 0 .. m
        /\ (k + 1) + 1 \in 1 .. n /\ ((k + 1) + 1) - 1 = k + 1 /\ k + 1 \in 0 .. n
    BY <1>1
  <2>2. /\ f[k + 1] = 10 * f[k] + (r[k + 1] - ZeroDigit)
        /\ f[k] \in Nat /\ r[k + 1] \in Digits
    BY <2>1 DEF Counted, AreDigits
  <2> DEFINE j == (k + 1) + 1
  <2>3. /\ g[j] = 10 * g[k + 1] + (x[j] - ZeroDigit)
        /\ g[k + 1] \in Nat /\ x[j] \in Digits
    BY <2>1 DEF Counted, AreDigits
  <2> HIDE DEF j
  <2>4. f[k + 1] < g[j]
    BY <2>2, <2>3 DEF Digits, ZeroDigit
  <2> QED
    BY <2>1, <2>4 DEF j
<1>4. m \in behind
  <2> HIDE DEF behind
  <2> QED
    BY <1>1, <1>2, <1>3, UpTo
<1>5. m + 1 \in less
  BY <1>1, <1>4
<1>6. \A k \in m + 1 .. n - 1 : k \in less => k + 1 \in less
  <2> SUFFICES ASSUME NEW k \in m + 1 .. n - 1, f[m] < g[k]
               PROVE  k + 1 \in 0 .. n /\ f[m] < g[k + 1]
    OBVIOUS
  <2>1. k + 1 \in 1 .. n /\ k + 1 \in 0 .. n /\ (k + 1) - 1 = k /\ k \in 0 .. n /\ m \in 0 .. m
    BY <1>1
  <2>2. /\ g[k + 1] = 10 * g[k] + (x[k + 1] - ZeroDigit) /\ f[m] \in Nat
        /\ g[k] \in Nat /\ x[k + 1] \in Digits
    BY <2>1 DEF Counted, AreDigits
  <2> QED
    BY <2>1, <2>2 DEF Digits, ZeroDigit
<1>7. n \in less
  <2> HIDE DEF less
  <2> QED
    BY <1>1, <1>5, <1>6, UpTo
<1> QED
  BY <1>7

ValueUpto(s, i, n, g) ==
    [k \in 0 .. n |-> IF k = 0 THEN 0 ELSE 10 * g[k - 1] + (s[i + k - 1] - ZeroDigit)]

\* The number at a place of a version is what its digits count to.
LEMMA NumberIs ==
    ASSUME NEW s \in Chars, NEW i \in Begins(s)
    PROVE  LET r == From(s, i - 1) n == Span(r, Digits) IN
           /\ i \in 1 .. Len(s) /\ r \in Chars /\ n >= 1 /\ n <= Len(r) /\ AreDigits(r, n)
           /\ r[1] = s[i]
           /\ \E f : Counted(f, r, n) /\ NumberAt(s, i) = f[n]
<1> DEFINE r == From(s, i - 1)
           n == Span(r, Digits)
<1>1. /\ i \in 1 .. Len(s) /\ Len(s) \in Nat /\ s[i] \in Digits
      /\ i - 1 \in Nat /\ i - 1 <= Len(s) /\ Len(s) - (i - 1) \in Nat
      /\ 1 \in 1 .. Len(s) - (i - 1)
  BY DEF Begins, Chars
<1>2. /\ r \in Chars /\ Len(r) = Len(s) - (i - 1)
      /\ \A k \in 1 .. Len(s) - (i - 1) : r[k] = s[(i - 1) + k]
  BY <1>1, FromIs
<1>3. Begun(r, Digits, n)
  BY <1>2, SpanIs
<1> HIDE DEF n
<1>4. n \in Nat /\ n <= Len(r) /\ AreDigits(r, n)
  BY <1>3 DEF Begun, AreDigits
<1> HIDE DEF r
<1>5. r[1] = s[i] /\ \A k \in 1 .. n : r[k] = s[i + k - 1]
  <2>1. \A k \in 1 .. n : k \in 1 .. Len(s) - (i - 1) /\ (i - 1) + k = i + k - 1
    BY <1>1, <1>2, <1>4
  <2>2. (i - 1) + 1 = i
    BY <1>1
  <2> QED
    BY <1>1, <1>2, <2>1, <2>2
<1>6. n >= 1
  <2> SUFFICES ASSUME n = 0 PROVE FALSE
    BY <1>4
  <2>1. 0 < Len(r)
    BY <1>1, <1>2
  <2>2. r[0 + 1] \notin Digits
    BY <1>3, <2>1 DEF Begun
  <2> QED
    BY <1>1, <1>5, <2>2
<1>7. PICK f : Counted(f, r, n)
  BY <1>4, CountExists
<1>8. f = ValueUpto(s, i, n, f)
  <2>1. f = [k \in 0 .. n |-> f[k]] /\ f[0] = 0
        /\ \A k \in 1 .. n : f[k] = 10 * f[k - 1] + (s[i + k - 1] - ZeroDigit)
    BY <1>5, <1>7 DEF Counted
  <2>2. \A k \in 0 .. n : k = 0 \/ k \in 1 .. n
    BY <1>4
  <2> QED
    BY <2>1, <2>2 DEF ValueUpto
<1> DEFINE g == CHOOSE h : h = ValueUpto(s, i, n, h)
<1>9. g = ValueUpto(s, i, n, g)
  BY <1>8
<1>10. NumberAt(s, i) = g[n]
  BY DEF NumberAt, ValueUpto, n, r
<1> HIDE DEF g
<1>11. \A k \in 0 .. n : g[k] = f[k]
  <2> DEFINE bad == {k \in 0 .. n : g[k] # f[k]}
  <2> SUFFICES ASSUME bad # {} PROVE FALSE
    OBVIOUS
  <2>1. PICK k \in bad : \A j \in bad : k <= j
    <3>1. bad \in SUBSET Nat
      OBVIOUS
    <3> HIDE DEF bad
    <3> QED
      BY <3>1, Least
  <2>2. \A j \in 0 .. n : g[j] = IF j = 0 THEN 0 ELSE 10 * g[j - 1] + (s[i + j - 1] - ZeroDigit)
    BY <1>9 DEF ValueUpto
  <2>3. \A j \in 0 .. n : f[j] = IF j = 0 THEN 0 ELSE 10 * f[j - 1] + (s[i + j - 1] - ZeroDigit)
    BY <1>8 DEF ValueUpto
  <2>4. k # 0
    BY <1>4, <2>1, <2>2, <2>3
  <2>5. k - 1 \in 0 .. n /\ k - 1 < k
    BY <1>4, <2>1, <2>4
  <2>6. g[k - 1] = f[k - 1]
    BY <2>1, <2>5
  <2> QED
    BY <2>1, <2>2, <2>3, <2>4, <2>6
<1>12. NumberAt(s, i) = f[n]
  BY <1>4, <1>10, <1>11
<1> QED
  BY <1>1, <1>2, <1>4, <1>5, <1>6, <1>7, <1>12 DEF n, r

\* A number of a release has no zero in front, or is a zero.
LEMMA NumberForms ==
    ASSUME NEW s \in Chars, IsRelease(s), NEW i \in Begins(s), s[i] = ZeroDigit
    PROVE  NumberAt(s, i) = 0 /\ Span(From(s, i - 1), Digits) = 1
           /\ Span(From(s, i - 1), {ZeroDigit}) = 1
<1> DEFINE r == From(s, i - 1)
<1>1. NumberAt(s, i) = 0 /\ At(s, i + 1) \notin Digits
  BY DEF IsRelease
<1>2. i \in 1 .. Len(s) /\ r \in Chars /\ r[1] = ZeroDigit /\ Len(r) >= 1 /\ Len(s) \in Nat
      /\ Len(r) \in Nat
  <2> DEFINE n == Span(r, Digits)
  <2>1. i \in 1 .. Len(s) /\ r \in Chars /\ n >= 1 /\ n <= Len(r) /\ AreDigits(r, n) /\ r[1] = s[i]
    BY NumberIs
  <2> HIDE DEF r, n
  <2>2. n \in Nat /\ Len(r) \in Nat /\ Len(s) \in Nat
    BY <2>1 DEF AreDigits, Chars
  <2> QED
    BY <2>1, <2>2
<1>3. At(r, 2) = At(s, i + 1)
  <2>1. i - 1 \in Nat /\ i - 1 <= Len(s) /\ (i - 1) + 2 = i + 1
    BY <1>2
  <2> QED
    BY <2>1, FromIs
<1> HIDE DEF r
<1>4. 1 < Len(r) => r[1 + 1] \notin Digits
  <2> SUFFICES ASSUME 1 < Len(r) PROVE r[2] \notin Digits
    OBVIOUS
  <2>1. 2 \in 1 .. Len(r)
    BY <1>2
  <2>2. At(r, 2) = r[2]
    BY <1>2, <2>1, AtIs
  <2> QED
    BY <1>1, <1>3, <2>2
<1>5. ZeroDigit \in Digits
  BY DEF Digits, ZeroDigit
<1>6. Begun(r, Digits, 1) /\ Begun(r, {ZeroDigit}, 1)
  BY <1>2, <1>4, <1>5 DEF Begun
<1>7. Span(r, Digits) = 1 /\ Span(r, {ZeroDigit}) = 1
  BY <1>2, <1>6, SpanIs, BegunOnce
<1> QED
  BY <1>1, <1>7 DEF r

\* Of the numbers of two releases the code finds the one that is larger.
LEMMA SegmentOrders ==
    ASSUME NEW s \in Chars, NEW t \in Chars, IsRelease(s), IsRelease(t),
           NEW i \in Begins(s), NEW j \in Begins(t)
    PROVE  /\ NumberAt(s, i) \in Nat /\ NumberAt(t, j) \in Nat
           /\ Segment(From(s, i - 1), From(t, j - 1)) = Sign(NumberAt(s, i) - NumberAt(t, j))
<1> DEFINE r == From(s, i - 1)
           x == From(t, j - 1)
           p == Span(r, Digits)
           q == Span(x, Digits)
           a == NumberAt(s, i)
           b == NumberAt(t, j)
<1>1. r \in Chars /\ p >= 1 /\ p <= Len(r) /\ AreDigits(r, p) /\ r[1] = s[i]
  BY NumberIs
<1>2. PICK f : Counted(f, r, p) /\ a = f[p]
  BY NumberIs
<1>3. x \in Chars /\ q >= 1 /\ q <= Len(x) /\ AreDigits(x, q) /\ x[1] = t[j]
  BY NumberIs
<1>4. PICK g : Counted(g, x, q) /\ b = g[q]
  BY NumberIs
<1>5. r[1] = ZeroDigit => a = 0 /\ p = 1 /\ Span(r, {ZeroDigit}) = 1
  BY <1>1, NumberForms
<1>6. x[1] = ZeroDigit => b = 0 /\ q = 1 /\ Span(x, {ZeroDigit}) = 1
  BY <1>3, NumberForms
<1> HIDE DEF r, x, p, q, a, b
<1>7. p \in Nat /\ q \in Nat /\ Len(r) \in Nat /\ Len(x) \in Nat
  <2>1. p \in Nat /\ q \in Nat
    BY <1>1, <1>3 DEF AreDigits
  <2>2. Len(r) \in Nat /\ Len(x) \in Nat
    BY <1>1, <1>3 DEF Chars
  <2> QED
    BY <2>1, <2>2
<1>8. a \in Nat /\ b \in Nat
  BY <1>2, <1>4, <1>7 DEF Counted
<1>9. At(r, 1) = r[1] /\ At(x, 1) = x[1]
  <2>1. 1 \in 1 .. Len(r) /\ 1 \in 1 .. Len(x)
    BY <1>1, <1>3, <1>7
  <2> QED
    BY <1>1, <1>3, <2>1, AtIs
<1>10. (r[1] # ZeroDigit => a > 0) /\ (x[1] # ZeroDigit => b > 0)
  <2> DEFINE zero == [k \in 0 .. 0 |-> 0]
  <2>1. zero \in [0 .. 0 -> Nat] /\ zero[0] = 0 /\ 1 .. 0 = {}
    OBVIOUS
  <2> HIDE DEF zero
  <2>2. Counted(zero, r, 0) /\ AreDigits(r, 0) /\ Counted(zero, x, 0) /\ AreDigits(x, 0)
    BY <2>1 DEF Counted, AreDigits
  <2>3. 0 < p /\ 0 < q
    BY <1>1, <1>3, <1>7
  <2>4. r[1] # ZeroDigit => zero[0] < f[p]
    BY <1>1, <1>2, <2>2, <2>3, CountedShorter
  <2>5. x[1] # ZeroDigit => zero[0] < g[q]
    BY <1>3, <1>4, <2>2, <2>3, CountedShorter
  <2> QED
    BY <1>2, <1>4, <1>8, <2>1, <2>4, <2>5
<1>11. ASSUME r[1] # ZeroDigit, x[1] # ZeroDigit PROVE Numbers(r, x) = Sign(a - b)
  <2>1. Numbers(r, x) = IF p # q THEN Sign(p - q) ELSE Compared(r, x, p)
    BY DEF Numbers, p, q
  <2>2. ASSUME p < q PROVE Numbers(r, x) = Sign(a - b)
    <3>1. a < b
      BY <1>1, <1>2, <1>3, <1>4, <1>11, <2>2, CountedShorter
    <3>2. p - q \in Int /\ p - q < 0 /\ a - b \in Int /\ a - b < 0 /\ p # q
      BY <1>7, <1>8, <2>2, <3>1
    <3> QED
      BY <2>1, <3>2, SignIs
  <2>3. ASSUME q < p PROVE Numbers(r, x) = Sign(a - b)
    <3>1. b < a
      BY <1>1, <1>2, <1>3, <1>4, <1>11, <2>3, CountedShorter
    <3>2. p - q \in Int /\ p - q > 0 /\ a - b \in Int /\ a - b > 0 /\ p # q
      BY <1>7, <1>8, <2>3, <3>1
    <3> QED
      BY <2>1, <3>2, SignIs
  <2>4. ASSUME p = q PROVE Numbers(r, x) = Sign(a - b)
    <3>1. Numbers(r, x) = Compared(r, x, p)
      BY <2>1, <2>4
    <3>2. \A k \in 1 .. p : At(r, k) = r[k] /\ At(x, k) = x[k]
      <4>1. \A k \in 1 .. p : k \in 1 .. Len(r) /\ k \in 1 .. Len(x)
        BY <1>1, <1>3, <1>7, <2>4
      <4> QED
        BY <1>1, <1>3, <4>1, AtIs
    <3>3. CASE Agree(r, x, p)
      <4>1. \A k \in 1 .. p : x[k] = r[k]
        BY <3>2, <3>3 DEF Agree
      <4>2. a = b
        BY <1>1, <1>2, <1>4, <2>4, <4>1, CountedSame
      <4>3. a - b = 0
        BY <1>8, <4>2
      <4>4. Compared(r, x, p) = 0
        BY <1>1, <1>3, <1>7, <3>3, ComparedIs
      <4> QED
        BY <3>1, <4>3, <4>4 DEF Sign
    <3>4. CASE ~Agree(r, x, p)
      <4>1. PICK k \in 1 .. p : /\ Agree(r, x, k - 1) /\ At(r, k) # At(x, k)
                                /\ Compared(r, x, p) = Sign(At(r, k) - At(x, k))
        BY <1>1, <1>3, <1>7, <3>4, ComparedIs
      <4>2. \A j1 \in 1 .. k - 1 : x[j1] = r[j1]
        <5>1. \A j1 \in 1 .. k - 1 : j1 \in 1 .. p
          BY <1>7
        <5> QED
          BY <3>2, <4>1, <5>1 DEF Agree
      <4>3. r[k] \in Nat /\ x[k] \in Nat /\ r[k] # x[k]
            /\ Compared(r, x, p) = Sign(r[k] - x[k])
        <5>1. r[k] \in Digits /\ x[k] \in Digits
          BY <1>1, <1>3, <2>4 DEF AreDigits
        <5> QED
          BY <3>2, <4>1, <5>1 DEF Digits
      <4>4. r[k] < x[k] => a < b
        BY <1>1, <1>2, <1>3, <1>4, <2>4, <4>2, CountedLess
      <4>5. x[k] < r[k] => b < a
        <5>1. \A j1 \in 1 .. k - 1 : r[j1] = x[j1]
          BY <4>2
        <5> QED
          BY <1>1, <1>2, <1>3, <1>4, <2>4, <5>1, CountedLess
      <4> DEFINE u == r[k] v == x[k]
      <4> HIDE DEF u, v
      <4>6. u \in Nat /\ v \in Nat /\ u # v /\ (u < v => a < b) /\ (v < u => b < a)
            /\ Compared(r, x, p) = Sign(u - v)
        BY <4>3, <4>4, <4>5 DEF u, v
      <4>7. /\ u < v => u - v < 0 /\ a - b < 0
            /\ v < u => u - v > 0 /\ a - b > 0
            /\ u < v \/ v < u
        BY <1>8, <4>6
      <4>8. Sign(u - v) = Sign(a - b)
        <5>1. u - v \in Int /\ a - b \in Int
          BY <1>8, <4>6
        <5> QED
          BY <4>7, <5>1, SignIs
      <4> QED
        BY <3>1, <4>6, <4>8
    <3> QED
      BY <3>3, <3>4
  <2> QED
    BY <1>7, <2>2, <2>3, <2>4
<1>12. Segment(r, x) = Sign(a - b)
  <2>1. CASE r[1] = ZeroDigit /\ x[1] # ZeroDigit
    <3>1. Segment(r, x) = -1
      BY <1>9, <2>1 DEF Segment
    <3>2. a - b \in Int /\ a - b < 0
      BY <1>5, <1>8, <1>10, <2>1
    <3> QED
      BY <3>1, <3>2, SignIs
  <2>2. CASE r[1] # ZeroDigit /\ x[1] = ZeroDigit
    <3>1. Segment(r, x) = 1
      BY <1>9, <2>2 DEF Segment
    <3>2. a - b \in Int /\ a - b > 0
      BY <1>6, <1>8, <1>10, <2>2
    <3> QED
      BY <3>1, <3>2, SignIs
  <2>3. CASE r[1] # ZeroDigit /\ x[1] # ZeroDigit
    <3>1. Segment(r, x) = Numbers(r, x)
      BY <1>9, <2>3 DEF Segment
    <3> QED
      BY <1>11, <2>3, <3>1
  <2>4. CASE r[1] = ZeroDigit /\ x[1] = ZeroDigit
    <3>1. a = 0 /\ b = 0 /\ p = 1 /\ q = 1
      BY <1>5, <1>6, <2>4
    <3>2. Agree(r, x, 1)
      <4>1. \A k \in 1 .. 1 : k = 1
        OBVIOUS
      <4> QED
        BY <1>9, <2>4, <4>1 DEF Agree
    <3>3. SameNumber(r, x)
      BY <3>1, <3>2 DEF SameNumber, p, q
    <3>4. Segment(r, x) = 0
      BY <1>1, <1>3, <3>3, SegmentIs
    <3>5. a - b = 0
      BY <3>1
    <3> QED
      BY <3>4, <3>5 DEF Sign
  <2> QED
    BY <2>1, <2>2, <2>3, <2>4
<1> QED
  BY <1>8, <1>12 DEF r, x, a, b

-----------------------------------------------------------------------------
(* VersionCompare: the numbers of a version, one after the other.          *)

Upto(B, i) == {j \in B : j <= i}
Rank(B, i) == Cardinality(Upto(B, i))

LEMMA RankIs ==
    ASSUME NEW n \in Nat, NEW B \in SUBSET (1 .. n)
    PROVE  /\ IsFiniteSet(B) /\ Cardinality(B) \in Nat
           /\ \A i \in Nat : IsFiniteSet(Upto(B, i)) /\ Rank(B, i) \in Nat
           /\ Rank(B, 0) = 0 /\ Rank(B, n) = Cardinality(B)
           /\ \A i \in Nat : Rank(B, i + 1) = IF i + 1 \in B THEN Rank(B, i) + 1 ELSE Rank(B, i)
           /\ \A i, j \in Nat : i <= j => Rank(B, i) <= Rank(B, j)
           /\ \A i, j \in Nat : i < j /\ j \in B => Rank(B, i) < Rank(B, j)
<1>1. \A j \in B : j \in Nat /\ 1 <= j /\ j <= n
  OBVIOUS
<1> DEFINE within(i) == \A j : j \in Upto(B, i) <=> j \in B /\ j <= i
<1>0. \A i : within(i)
  BY DEF Upto
<1>2. IsFiniteSet(B)
  <2>1. IsFiniteSet(1 .. n)
    BY FS_Interval
  <2> QED
    BY <2>1, FS_Subset
<1>3. Cardinality(B) \in Nat
  BY <1>2, FS_CardinalityType
<1>4. \A i \in Nat : Upto(B, i) \in SUBSET B
  BY DEF Upto
<1>5. \A i \in Nat : IsFiniteSet(Upto(B, i)) /\ Rank(B, i) \in Nat
  BY <1>2, <1>4, FS_Subset, FS_CardinalityType DEF Rank
<1>6. Rank(B, 0) = 0
  <2>1. \A j : j \notin Upto(B, 0)
    <3>1. within(0)
      BY <1>0
    <3>2. \A j \in B : ~(j <= 0)
      BY <1>1
    <3> QED
      BY <3>1, <3>2
  <2>2. Upto(B, 0) = {}
    BY <2>1
  <2> QED
    BY <2>2, FS_EmptySet DEF Rank
<1>7. Rank(B, n) = Cardinality(B)
  <2>1. Upto(B, n) = B
    BY <1>1 DEF Upto
  <2> QED
    BY <2>1 DEF Rank
<1>8. ASSUME NEW i \in Nat
      PROVE  Rank(B, i + 1) = IF i + 1 \in B THEN Rank(B, i) + 1 ELSE Rank(B, i)
  <2>1. CASE i + 1 \in B
    <3>1. Upto(B, i + 1) = Upto(B, i) \cup {i + 1} /\ i + 1 \notin Upto(B, i)
      <4>1. within(i + 1) /\ within(i)
        BY <1>0
      <4>2. \A j \in B : j <= i + 1 <=> j <= i \/ j = i + 1
        BY <1>1
      <4>3. \A j : j \in Upto(B, i + 1) <=> j \in Upto(B, i) \cup {i + 1}
        BY <2>1, <4>1, <4>2
      <4>4. i + 1 \notin Upto(B, i)
        BY <4>1
      <4>5. Upto(B, i + 1) = Upto(B, i) \cup {i + 1}
        BY <4>3
      <4> QED
        BY <4>4, <4>5
    <3>2. Cardinality(Upto(B, i) \cup {i + 1}) = Cardinality(Upto(B, i)) + 1
      BY <1>5, <3>1, FS_AddElement
    <3> QED
      BY <2>1, <3>1, <3>2 DEF Rank
  <2>2. CASE i + 1 \notin B
    <3>1. Upto(B, i + 1) = Upto(B, i)
      <4>1. within(i + 1) /\ within(i)
        BY <1>0
      <4>2. \A j \in B : j <= i + 1 <=> j <= i \/ j = i + 1
        BY <1>1
      <4>3. \A j : j \in Upto(B, i + 1) <=> j \in Upto(B, i)
        BY <2>2, <4>1, <4>2
      <4> QED
        BY <4>3
    <3> QED
      BY <2>2, <3>1 DEF Rank
  <2> QED
    BY <2>1, <2>2
<1>9. ASSUME NEW i \in Nat, NEW j \in Nat, i <= j PROVE Rank(B, i) <= Rank(B, j)
  <2>1. Upto(B, i) \in SUBSET Upto(B, j)
    <3>1. within(i) /\ within(j)
      BY <1>0
    <3>2. \A k \in B : k <= i => k <= j
      BY <1>1, <1>9
    <3>3. \A k : k \in Upto(B, i) => k \in Upto(B, j)
      BY <3>1, <3>2
    <3> QED
      BY <3>3
  <2> QED
    BY <1>5, <2>1, FS_Subset DEF Rank
<1>10. ASSUME NEW i \in Nat, NEW j \in Nat, i < j, j \in B PROVE Rank(B, i) < Rank(B, j)
  <2>1. Upto(B, i) \in SUBSET Upto(B, j)
    <3>1. within(i) /\ within(j)
      BY <1>0
    <3>2. \A k \in B : k <= i => k <= j
      BY <1>1, <1>10
    <3>3. \A k : k \in Upto(B, i) => k \in Upto(B, j)
      BY <3>1, <3>2
    <3> QED
      BY <3>3
  <2>2. j \in Upto(B, j) /\ j \notin Upto(B, i)
    <3>1. within(i) /\ within(j)
      BY <1>0
    <3> QED
      BY <1>10, <3>1
  <2>3. Rank(B, i) <= Rank(B, j) /\ Rank(B, i) # Rank(B, j)
    BY <1>5, <2>1, <2>2, FS_Subset DEF Rank
  <2> QED
    BY <1>5, <2>3
<1> QED
  BY <1>2, <1>3, <1>5, <1>6, <1>7, <1>8, <1>9, <1>10

LEMMA RankExists ==
    ASSUME NEW n \in Nat, NEW B \in SUBSET (1 .. n), NEW k \in 1 .. Cardinality(B)
    PROVE  \E i \in B : Rank(B, i) = k
<1> DEFINE far == {i \in Nat : Rank(B, i) >= k}
<1>1. /\ Cardinality(B) \in Nat /\ \A i \in Nat : Rank(B, i) \in Nat
      /\ Rank(B, 0) = 0 /\ Rank(B, n) = Cardinality(B)
      /\ \A i \in Nat : Rank(B, i + 1) = IF i + 1 \in B THEN Rank(B, i) + 1 ELSE Rank(B, i)
  <2>1. Cardinality(B) \in Nat /\ Rank(B, 0) = 0 /\ Rank(B, n) = Cardinality(B)
    BY RankIs
  <2>2. \A i \in Nat : Rank(B, i) \in Nat
    BY RankIs
  <2>3. \A i \in Nat : Rank(B, i + 1) = IF i + 1 \in B THEN Rank(B, i) + 1 ELSE Rank(B, i)
    BY RankIs
  <2> QED
    BY <2>1, <2>2, <2>3
<1>2. k \in Nat /\ k >= 1 /\ k <= Cardinality(B)
  BY <1>1
<1>3. n \in far
  BY <1>1, <1>2
<1>4. PICK i \in far : \A j \in far : i <= j
  <2>1. far \in SUBSET Nat /\ far # {}
    BY <1>3
  <2> HIDE DEF far
  <2> QED
    BY <2>1, Least
<1>5. i # 0
  BY <1>1, <1>2, <1>4
<1>6. i - 1 \in Nat /\ i - 1 < i /\ (i - 1) + 1 = i
  BY <1>4, <1>5
<1>7. Rank(B, i - 1) < k
  BY <1>1, <1>2, <1>4, <1>6
<1>8. Rank(B, i) = IF i \in B THEN Rank(B, i - 1) + 1 ELSE Rank(B, i - 1)
  BY <1>1, <1>6
<1>9. Rank(B, i) >= k /\ Rank(B, i - 1) \in Nat
  BY <1>1, <1>4, <1>6
<1> QED
  BY <1>2, <1>7, <1>8, <1>9

\* The k-th number of a version.
LEMMA NumbersOfIs ==
    ASSUME NEW s \in Chars
    PROVE  /\ Begins(s) \in SUBSET (1 .. Len(s)) /\ Len(s) \in Nat
           /\ Len(NumbersOf(s)) = Cardinality(Begins(s)) /\ Cardinality(Begins(s)) \in Nat
           /\ \A i \in Begins(s) :
                /\ Rank(Begins(s), i) \in 1 .. Cardinality(Begins(s))
                /\ NumbersOf(s)[Rank(Begins(s), i)] = NumberAt(s, i)
<1> DEFINE B == Begins(s)
           n == Len(s)
           c == Cardinality(B)
<1>1. n \in Nat /\ B \in SUBSET (1 .. n)
  BY DEF Begins, Chars
<1> HIDE DEF B, n
<1>2. /\ c \in Nat /\ Rank(B, 0) = 0 /\ Rank(B, n) = c /\ \A i \in Nat : Rank(B, i) \in Nat
      /\ \A i, j \in Nat : i <= j => Rank(B, i) <= Rank(B, j)
      /\ \A i, j \in Nat : i < j /\ j \in B => Rank(B, i) < Rank(B, j)
  BY <1>1, RankIs
<1>3. NumbersOf(s) = [k \in 1 .. c |-> NumberAt(s, CHOOSE i \in B : Rank(B, i) = k)]
  BY DEF NumbersOf, Rank, Upto, B
<1> HIDE DEF c
<1>4. Len(NumbersOf(s)) = c
  BY <1>2, <1>3
<1>5. ASSUME NEW i \in B
      PROVE  Rank(B, i) \in 1 .. c /\ NumbersOf(s)[Rank(B, i)] = NumberAt(s, i)
  <2>1. i \in Nat /\ 0 < i /\ i <= n
    BY <1>1
  <2>2. Rank(B, i) \in 1 .. c
    <3>1. Rank(B, 0) < Rank(B, i) /\ Rank(B, i) <= Rank(B, n) /\ Rank(B, i) \in Nat
      BY <1>1, <1>2, <2>1
    <3> QED
      BY <1>2, <3>1
  <2>3. \A j \in B : Rank(B, j) = Rank(B, i) => j = i
    <3> SUFFICES ASSUME NEW j \in B, Rank(B, j) = Rank(B, i), j # i PROVE FALSE
      OBVIOUS
    <3>1. j \in Nat /\ (j < i \/ i < j)
      BY <1>1, <2>1
    <3>2. Rank(B, j) < Rank(B, i) \/ Rank(B, i) < Rank(B, j)
      BY <1>2, <2>1, <3>1
    <3> QED
      BY <1>2, <2>1, <3>2
  <2>4. (CHOOSE j \in B : Rank(B, j) = Rank(B, i)) = i
    BY <2>3
  <2> QED
    BY <1>3, <2>2, <2>4
<1> QED
  BY <1>1, <1>2, <1>4, <1>5 DEF B, n, c

\* The first m characters of two versions, up to the end of a number.
Past(s, t, m) ==
    /\ m \in Nat /\ m <= Len(s) /\ m <= Len(t) /\ Agree(s, t, m)
    /\ At(s, m + 1) \notin Digits /\ At(t, m + 1) \notin Digits

\* The same characters up to the end of a number: the same numbers begin there.
LEMMA SameBegins ==
    ASSUME NEW s \in Chars, NEW t \in Chars, NEW m, Past(s, t, m)
    PROVE  \A i \in 1 .. m : i \in Begins(s) <=> i \in Begins(t)
<1> DEFINE before(r, i) == At(<<Dot>> \o r, i)
<1>1. m \in Nat /\ Len(s) \in Nat /\ Len(t) \in Nat /\ m <= Len(s) /\ m <= Len(t)
  BY DEF Past, Chars
<1>2. \A i \in 1 .. m : s[i] = t[i] /\ i \in DOMAIN s /\ i \in DOMAIN t
  <2> TAKE i \in 1 .. m
  <2>1. i \in 1 .. Len(s) /\ i \in 1 .. Len(t)
    BY <1>1
  <2>2. At(s, i) = At(t, i)
    BY DEF Past, Agree
  <2>3. At(s, i) = s[i] /\ At(t, i) = t[i]
    BY <2>1, AtIs
  <2>4. DOMAIN s = 1 .. Len(s) /\ DOMAIN t = 1 .. Len(t)
    BY DEF Chars
  <2> QED
    BY <2>1, <2>2, <2>3, <2>4
<1>3. \A r \in Chars : before(r, 1) = Dot /\ \A i \in 1 .. Len(r) : before(r, i + 1) = r[i]
  <2> TAKE r \in Chars
  <2> DEFINE e == <<Dot>> \o r
  <2>1. Len(r) \in Nat /\ DOMAIN e = 1 .. Len(r) + 1 /\ e[1] = Dot
        /\ \A i \in 1 .. Len(r) : e[i + 1] = r[i]
    BY ConcatProperties DEF Chars
  <2> HIDE DEF e
  <2>2. 1 \in DOMAIN e /\ \A i \in 1 .. Len(r) : i + 1 \in DOMAIN e
    BY <2>1
  <2>3. before(r, 1) = e[1]
    BY <2>2 DEF At, e
  <2>4. \A i \in 1 .. Len(r) : before(r, i + 1) = e[i + 1]
    BY <2>2 DEF At, e
  <2> QED
    BY <2>1, <2>3, <2>4
<1>4. \A i \in 1 .. m : before(s, i) = before(t, i)
  <2> TAKE i \in 1 .. m
  <2>1. CASE i = 1
    BY <1>3, <2>1
  <2>2. CASE i # 1
    <3>1. i - 1 \in 1 .. m /\ i - 1 \in 1 .. Len(s) /\ i - 1 \in 1 .. Len(t) /\ (i - 1) + 1 = i
      BY <1>1, <2>2
    <3>2. before(s, (i - 1) + 1) = s[i - 1] /\ before(t, (i - 1) + 1) = t[i - 1]
      BY <1>3, <3>1
    <3> QED
      BY <1>2, <3>1, <3>2
  <2> QED
    BY <2>1, <2>2
<1> QED
  BY <1>2, <1>4 DEF Begins

\* And they are the same.
LEMMA SameNumberThere ==
    ASSUME NEW s \in Chars, NEW t \in Chars, NEW m, Past(s, t, m),
           NEW i \in 1 .. m, i \in Begins(s), i \in Begins(t)
    PROVE  NumberAt(s, i) = NumberAt(t, i)
<1> DEFINE r == From(s, i - 1)
           x == From(t, i - 1)
           p == Span(r, Digits)
           q == Span(x, Digits)
           a == NumberAt(s, i)
           b == NumberAt(t, i)
<1>1. m \in Nat /\ Len(s) \in Nat /\ Len(t) \in Nat /\ m <= Len(s) /\ m <= Len(t)
      /\ i - 1 \in Nat /\ i - 1 <= Len(s) /\ i - 1 <= Len(t)
  BY DEF Past, Chars
<1>2. r \in Chars /\ p >= 1 /\ p <= Len(r) /\ AreDigits(r, p)
  BY NumberIs
<1>3. x \in Chars /\ q >= 1 /\ q <= Len(x) /\ AreDigits(x, q)
  BY NumberIs
<1>4. PICK f : Counted(f, r, p) /\ a = f[p]
  BY NumberIs
<1>5. PICK g : Counted(g, x, q) /\ b = g[q]
  BY NumberIs
<1>6. Begun(r, Digits, p) /\ Begun(x, Digits, q)
  BY <1>2, <1>3, SpanIs
<1>7. /\ Len(r) = Len(s) - (i - 1) /\ Len(x) = Len(t) - (i - 1)
      /\ \A k \in Nat : k > 0 => At(r, k) = At(s, (i - 1) + k) /\ At(x, k) = At(t, (i - 1) + k)
  BY <1>1, FromIs
<1> HIDE DEF r, x, p, q, a, b
<1> DEFINE h == m - (i - 1)
<1>8. h \in Nat /\ h >= 1 /\ h <= Len(r) /\ h <= Len(x) /\ (i - 1) + h = m
      /\ (i - 1) + (h + 1) = m + 1 /\ h + 1 \in Nat /\ h + 1 > 0
      /\ Len(r) \in Nat /\ Len(x) \in Nat
      /\ \A k \in 1 .. h : (i - 1) + k \in 1 .. m /\ k \in Nat /\ k > 0
                           /\ k \in 1 .. Len(r) /\ k \in 1 .. Len(x)
  <2> DEFINE lr == Len(r) lx == Len(x) ls == Len(s) lt == Len(t)
  <2>1. lr = ls - (i - 1) /\ lx = lt - (i - 1) /\ ls \in Nat /\ lt \in Nat
        /\ i \in Nat /\ 1 <= i /\ i <= m /\ m \in Nat /\ m <= ls /\ m <= lt
    BY <1>1, <1>7
  <2> HIDE DEF lr, lx, ls, lt
  <2>2. h \in Nat /\ h >= 1 /\ h <= lr /\ h <= lx /\ (i - 1) + h = m
        /\ (i - 1) + (h + 1) = m + 1 /\ h + 1 \in Nat /\ h + 1 > 0
        /\ lr \in Nat /\ lx \in Nat
    BY <2>1
  <2>3. \A k \in 1 .. h : (i - 1) + k \in 1 .. m /\ k \in Nat /\ k > 0
                           /\ k \in 1 .. lr /\ k \in 1 .. lx
    BY <2>1
  <2> QED
    BY <2>2, <2>3 DEF lr, lx
<1> HIDE DEF h
<1>9. \A k \in 1 .. h : r[k] = x[k]
  <2> TAKE k \in 1 .. h
  <2>1. At(s, (i - 1) + k) = At(t, (i - 1) + k)
    BY <1>8 DEF Past, Agree
  <2>2. At(r, k) = At(x, k)
    BY <1>7, <1>8, <2>1
  <2>3. k \in 1 .. Len(r) /\ k \in 1 .. Len(x)
    BY <1>8
  <2>4. At(r, k) = r[k] /\ At(x, k) = x[k]
    BY <1>2, <1>3, <2>3, AtIs
  <2> QED
    BY <2>2, <2>4
<1>10. At(r, h + 1) \notin Digits /\ At(x, h + 1) \notin Digits
  BY <1>7, <1>8 DEF Past
<1>11. p \in Nat /\ q \in Nat
  BY <1>2, <1>3 DEF AreDigits
<1>12. p <= h
  <2> SUFFICES ASSUME p > h PROVE FALSE
    BY <1>8, <1>11
  <2>1. h + 1 \in 1 .. p /\ h + 1 \in 1 .. Len(r)
    BY <1>2, <1>8, <1>11
  <2>2. r[h + 1] \in Digits /\ At(r, h + 1) = r[h + 1]
    BY <1>2, <2>1, AtIs DEF AreDigits
  <2> QED
    BY <1>10, <2>2
<1>13. Begun(x, Digits, p)
  <2>1. \A k \in 1 .. p : k \in 1 .. h
    BY <1>8, <1>11, <1>12
  <2>2. \A k \in 1 .. p : x[k] \in Digits
    BY <1>2, <1>9, <2>1 DEF AreDigits
  <2>3. p <= Len(x)
    BY <1>8, <1>11, <1>12
  <2>4. ASSUME p < Len(x) PROVE x[p + 1] \notin Digits
    <3>1. CASE p = h
      <4>1. h + 1 \in 1 .. Len(x)
        BY <1>8, <2>4, <3>1
      <4> QED
        BY <1>3, <1>10, <3>1, <4>1, AtIs
    <3>2. CASE p # h
      <4>1. p + 1 \in 1 .. h /\ p < Len(r)
        BY <1>8, <1>11, <1>12, <3>2
      <4> QED
        BY <1>6, <1>9, <4>1 DEF Begun
    <3> QED
      BY <3>1, <3>2
  <2> QED
    BY <1>11, <2>2, <2>3, <2>4 DEF Begun
<1>14. q = p
  BY <1>3, <1>6, <1>13, BegunOnce
<1>15. \A k \in 1 .. p : x[k] = r[k]
  <2>1. \A k \in 1 .. p : k \in 1 .. h
    BY <1>8, <1>11, <1>12
  <2> QED
    BY <1>9, <2>1
<1>16. f[p] = g[p]
  BY <1>2, <1>4, <1>5, <1>14, <1>15, CountedSame
<1> QED
  BY <1>4, <1>5, <1>14, <1>16 DEF a, b

\* So that the first numbers of both are the same, as many as begin there.
LEMMA SameNumbers ==
    ASSUME NEW s \in Chars, NEW t \in Chars, NEW m, Past(s, t, m)
    PROVE  /\ Rank(Begins(s), m) = Rank(Begins(t), m) /\ Rank(Begins(s), m) \in Nat
           /\ Rank(Begins(s), m) <= Cardinality(Begins(s))
           /\ \A k \in 1 .. Rank(Begins(s), m) : NumbersOf(s)[k] = NumbersOf(t)[k]
<1> DEFINE B == Begins(s)
           D == Begins(t)
<1>1. B \in SUBSET (1 .. Len(s)) /\ Len(s) \in Nat /\ D \in SUBSET (1 .. Len(t)) /\ Len(t) \in Nat
      /\ m \in Nat /\ m <= Len(s)
      /\ (\A i \in B : i \in Nat /\ i >= 1) /\ (\A i \in D : i \in Nat /\ i >= 1)
  BY NumbersOfIs DEF Past
<1>2. \A i \in 1 .. m : i \in B <=> i \in D
  BY SameBegins
<1>3. /\ \A i \in B : NumbersOf(s)[Rank(B, i)] = NumberAt(s, i)
      /\ \A i \in D : NumbersOf(t)[Rank(D, i)] = NumberAt(t, i)
  BY NumbersOfIs
<1>4. \A i \in 1 .. m : i \in B /\ i \in D => NumberAt(s, i) = NumberAt(t, i)
  BY SameNumberThere
<1> HIDE DEF B, D
<1>5. \A i \in Nat : i <= m => Upto(B, i) = Upto(D, i)
  <2> SUFFICES ASSUME NEW i \in Nat, i <= m PROVE Upto(B, i) = Upto(D, i)
    OBVIOUS
  <2>1. \A j : (j \in Upto(B, i) <=> j \in B /\ j <= i) /\ (j \in Upto(D, i) <=> j \in D /\ j <= i)
    BY DEF Upto
  <2>2. ASSUME NEW j, j \in B \/ j \in D, j <= i PROVE j \in 1 .. m
    <3>1. j \in Nat /\ j >= 1
      BY <1>1, <2>2
    <3> QED
      BY <1>1, <2>2, <3>1
  <2>3. \A j : j \in Upto(B, i) <=> j \in Upto(D, i)
    BY <1>2, <2>1, <2>2
  <2> QED
    BY <2>3
<1>6. \A i \in Nat : i <= m => Rank(B, i) = Rank(D, i)
  BY <1>5 DEF Rank
<1>7. /\ Cardinality(B) \in Nat /\ \A i \in Nat : Rank(B, i) \in Nat
      /\ Rank(B, Len(s)) = Cardinality(B)
      /\ \A i, j \in Nat : i <= j => Rank(B, i) <= Rank(B, j)
      /\ \A i, j \in Nat : i < j /\ j \in B => Rank(B, i) < Rank(B, j)
  BY <1>1, RankIs
<1>8. Rank(B, m) <= Cardinality(B)
  <2>1. Rank(B, m) <= Rank(B, Len(s))
    BY <1>1, <1>7
  <2> QED
    BY <1>7, <2>1
<1>9. ASSUME NEW k \in 1 .. Rank(B, m) PROVE NumbersOf(s)[k] = NumbersOf(t)[k]
  <2>1. k \in 1 .. Cardinality(B) /\ k \in Nat /\ k <= Rank(B, m)
    BY <1>1, <1>7, <1>8
  <2>2. PICK i \in B : Rank(B, i) = k
    BY <1>1, <2>1, RankExists
  <2>3. i <= m
    <3> SUFFICES ASSUME m < i PROVE FALSE
      BY <1>1
    <3>1. Rank(B, m) < Rank(B, i)
      BY <1>1, <1>7
    <3> QED
      BY <1>1, <1>7, <2>1, <2>2, <3>1
  <2>4. i \in 1 .. m /\ i \in Nat
    BY <1>1, <2>3
  <2>5. i \in D /\ Rank(D, i) = k
    BY <1>2, <1>6, <2>2, <2>3, <2>4
  <2> QED
    BY <1>3, <1>4, <2>2, <2>4, <2>5
<1> QED
  BY <1>1, <1>6, <1>7, <1>8, <1>9 DEF B, D

-----------------------------------------------------------------------------
(* VersionCompare: a round and the end.                                    *)

LEMMA FromTwice ==
    ASSUME NEW s \in Chars, NEW m \in Nat, NEW n \in Nat, m + n <= Len(s)
    PROVE  From(From(s, m), n) = From(s, m + n)
<1> DEFINE r == From(s, m)
           x == From(r, n)
           y == From(s, m + n)
<1>1. Len(s) \in Nat /\ m <= Len(s) /\ m + n \in Nat /\ n <= Len(s) - m
  BY DEF Chars
<1>2. /\ r \in Chars /\ Len(r) = Len(s) - m
      /\ \A i \in 1 .. Len(s) - m : r[i] = s[m + i]
  BY <1>1, FromIs
<1>3. /\ y \in Chars /\ Len(y) = Len(s) - (m + n)
      /\ \A i \in 1 .. Len(s) - (m + n) : y[i] = s[(m + n) + i]
  BY <1>1, FromIs
<1> HIDE DEF r, y
<1>4. /\ x \in Chars /\ Len(x) = Len(r) - n
      /\ \A i \in 1 .. Len(r) - n : x[i] = r[n + i]
  BY <1>1, <1>2, FromIs
<1> HIDE DEF x
<1>5. Len(x) = Len(y) /\ Len(y) \in Nat
  BY <1>1, <1>2, <1>3, <1>4
<1>6. ASSUME NEW i \in 1 .. Len(y) PROVE x[i] = y[i]
  <2>1. /\ i \in 1 .. Len(r) - n /\ n + i \in 1 .. Len(s) - m
        /\ m + (n + i) = (m + n) + i /\ i \in 1 .. Len(s) - (m + n)
    BY <1>1, <1>2, <1>3, <1>5
  <2> QED
    BY <1>2, <1>3, <1>4, <2>1
<1>7. x = y
  BY <1>3, <1>4, <1>5, <1>6, SeqEqual DEF Chars
<1> QED
  BY <1>7 DEF x, y, r

\* Behind a number a release ends, or has a dot and the next number.
LEMMA NextNumber ==
    ASSUME NEW s \in Chars, IsRelease(s), NEW m \in Nat, m <= Len(s),
           m > 0 => At(s, m) \in Digits /\ At(s, m + 1) \notin Digits,
           m = 0 \/ m < Len(s)
    PROVE  LET p == SpanNot(From(s, m), Digits) IN
           /\ p = (IF m = 0 THEN 0 ELSE 1) /\ m + p + 1 <= Len(s)
           /\ m > 0 => At(s, m + 1) = Dot
           /\ m + p + 1 \in Begins(s)
           /\ m + 1 \in Begins(s) => m = 0
<1> DEFINE r == From(s, m)
           p == SpanNot(r, Digits)
           n == IF m = 0 THEN 0 ELSE 1
<1>1. /\ Len(s) \in Nat /\ Len(s) # 0 /\ DOMAIN s = 1 .. Len(s)
      /\ \A i \in 1 .. Len(s) : s[i] \in Digits \cup {Dot} /\ At(s, i) = s[i]
  <2>1. Len(s) \in Nat /\ DOMAIN s = 1 .. Len(s) /\ (Len(s) = 0 => s = <<>>)
    BY DEF Chars
  <2>2. s # <<>> /\ \A i \in DOMAIN s : s[i] \in Digits \cup {Dot}
    BY DEF IsRelease
  <2> QED
    BY <2>1, <2>2, AtIs
<1>2. Dot \notin Digits
  BY DEF Dot, Digits
<1>3. At(s, 1) # Dot /\ At(s, Len(s)) # Dot
      /\ \A i \in 1 .. Len(s) - 1 : {s[i], s[i + 1]} # {Dot}
  BY DEF IsRelease
<1>4. m + n + 1 \in 1 .. Len(s) /\ s[m + n + 1] \in Digits
      /\ (m > 0 => m + 1 \in 1 .. Len(s) /\ s[m + 1] = Dot /\ At(s, m + 1) = Dot)
  <2>1. CASE m = 0
    <3>1. 1 \in 1 .. Len(s) /\ m + n + 1 = 1
      BY <1>1, <2>1
    <3> QED
      BY <1>1, <1>3, <2>1, <3>1
  <2>2. CASE m > 0
    <3>1. m + 1 \in 1 .. Len(s) /\ n = 1
      BY <1>1, <2>2
    <3>2. s[m + 1] = Dot /\ At(s, m + 1) = Dot
      BY <1>1, <2>2, <3>1
    <3>3. m + 1 # Len(s)
      BY <1>3, <3>2
    <3>4. m + 1 \in 1 .. Len(s) - 1 /\ (m + 1) + 1 = m + n + 1 /\ m + n + 1 \in 1 .. Len(s)
      <4> HIDE DEF n
      <4>1. m + n + 1 = m + 2
        BY <3>1
      <4>2. m + 1 < Len(s)
        <5>1. Len(s) \in Nat /\ m + 1 <= Len(s)
          BY <1>1, <3>1
        <5> QED
          BY <3>3, <5>1
      <4> QED
        BY <1>1, <4>1, <4>2
    <3>5. s[m + n + 1] # Dot
      BY <1>3, <3>2, <3>4
    <3> QED
      BY <1>1, <3>1, <3>2, <3>4, <3>5
  <2> QED
    BY <2>1, <2>2
<1>5. r \in Chars /\ Len(r) = Len(s) - m /\ \A i \in 1 .. Len(s) - m : r[i] = s[m + i]
  BY FromIs
<1>6. /\ p \in Nat /\ p <= Len(r) /\ \A i \in 1 .. p : r[i] \notin Digits
      /\ p < Len(r) => r[p + 1] \in Digits
  BY <1>5, SpanNotIs
<1> HIDE DEF p, r
<1>7. n \in Nat /\ n + 1 \in 1 .. Len(s) - m /\ m + (n + 1) = m + n + 1
  BY <1>1, <1>4
<1>8. r[n + 1] \in Digits
  BY <1>4, <1>5, <1>7
<1>9. p <= n
  <2> SUFFICES ASSUME p > n PROVE FALSE
    BY <1>6, <1>7
  <2>1. n + 1 \in 1 .. p
    BY <1>6, <1>7
  <2> QED
    BY <1>6, <1>8, <2>1
<1>10. p = n
  <2> SUFFICES ASSUME p < n PROVE FALSE
    BY <1>6, <1>7, <1>9
  <2>1. p = 0 /\ m > 0
    BY <1>6
  <2>2. r[1] = s[m + 1]
    <3>1. 1 \in 1 .. Len(s) - m
      BY <1>7, <2>1
    <3> QED
      BY <1>5, <3>1
  <2>3. p < Len(r) /\ p + 1 = 1
    BY <1>5, <1>7, <2>1
  <2> QED
    BY <1>2, <1>4, <1>6, <2>1, <2>2, <2>3
<1> DEFINE e == <<Dot>> \o s
           i == m + n + 1
<1>11. Len(e) = Len(s) + 1 /\ e[1] = Dot /\ (\A j \in 1 .. Len(s) : e[j + 1] = s[j])
       /\ DOMAIN e = 1 .. Len(s) + 1
  BY <1>1, ConcatProperties DEF Chars
<1> HIDE DEF e
<1>12. e[i] = Dot /\ i \in DOMAIN e
  <2>1. CASE m = 0
    BY <1>1, <1>11, <2>1
  <2>2. CASE m > 0
    <3>1. i = (m + 1) + 1 /\ m + 1 \in 1 .. Len(s) /\ i \in 1 .. Len(s) + 1
      BY <1>1, <1>4, <2>2
    <3> QED
      BY <1>4, <1>11, <2>2, <3>1
  <2> QED
    BY <2>1, <2>2
<1>13. At(e, i) = Dot
  BY <1>12 DEF At
<1>14. i \in Begins(s)
  BY <1>1, <1>4, <1>13 DEF Begins, e
<1>15. m + 1 \in Begins(s) => m = 0
  BY <1>2, <1>4 DEF Begins
<1>16. m + n + 1 <= Len(s)
  BY <1>4
<1> QED
  BY <1>4, <1>10, <1>14, <1>15, <1>16 DEF p, r

\* The order of two lists of numbers.
LEMMA OrderApart ==
    ASSUME NEW v, NEW w, NEW c \in Nat, Len(v) \in Nat, Len(w) \in Nat,
           c < Len(v), c < Len(w), \A k \in 1 .. c : v[k] = w[k], v[c + 1] # w[c + 1]
    PROVE  ReleaseOrder(v, w) = Sign(v[c + 1] - w[c + 1])
<1> DEFINE m == Min({Len(v), Len(w)})
           apart == {k \in 1 .. m : v[k] # w[k]}
<1>1. m \in {Len(v), Len(w)}
  <2>1. {Len(v), Len(w)} \in SUBSET Nat /\ {Len(v), Len(w)} # {}
    OBVIOUS
  <2> QED
    BY <2>1, MinIs
<1>2. ReleaseOrder(v, w) = IF apart = {} THEN Sign(Len(v) - Len(w))
                           ELSE Sign(v[Min(apart)] - w[Min(apart)])
  BY DEF ReleaseOrder
<1> HIDE DEF m
<1>3. m \in Nat /\ c + 1 \in 1 .. m
  BY <1>1
<1>4. c + 1 \in apart /\ \A k \in apart : k > c
  BY <1>3
<1>5. Min(apart) \in apart /\ \A k \in apart : Min(apart) <= k
  <2>1. apart \in SUBSET Nat /\ apart # {}
    BY <1>4
  <2> HIDE DEF apart
  <2> QED
    BY <2>1, MinIs
<1>6. apart \in SUBSET Nat
  OBVIOUS
<1> HIDE DEF apart
<1>7. Min(apart) = c + 1
  <2>1. Min(apart) \in Nat /\ Min(apart) > c /\ Min(apart) <= c + 1
    BY <1>4, <1>5, <1>6
  <2> QED
    BY <2>1
<1> QED
  BY <1>2, <1>4, <1>7

LEMMA OrderBegun ==
    ASSUME NEW v, NEW w, Len(v) \in Nat, Len(w) \in Nat,
           Len(v) <= Len(w), \A k \in 1 .. Len(v) : v[k] = w[k]
    PROVE  /\ ReleaseOrder(v, w) = Sign(Len(v) - Len(w))
           /\ ReleaseOrder(w, v) = Sign(Len(w) - Len(v))
<1>1. Min({Len(v), Len(w)}) = Len(v)
  <2>1. {Len(v), Len(w)} \in SUBSET Nat /\ {Len(v), Len(w)} # {}
    OBVIOUS
  <2>2. /\ Min({Len(v), Len(w)}) \in {Len(v), Len(w)}
        /\ \A j \in {Len(v), Len(w)} : Min({Len(v), Len(w)}) <= j
    BY <2>1, MinIs
  <2> QED
    BY <2>2
<1>2. {Len(w), Len(v)} = {Len(v), Len(w)}
  OBVIOUS
<1>3. {k \in 1 .. Len(v) : v[k] # w[k]} = {} /\ {k \in 1 .. Len(v) : w[k] # v[k]} = {}
  OBVIOUS
<1> QED
  BY <1>1, <1>2, <1>3 DEF ReleaseOrder

\* Two releases that were the same as far as a number goes, in one or in both of
\* which another one follows.
Together(s, t, m) ==
    /\ m \in Nat /\ m <= Len(s) /\ m <= Len(t) /\ Agree(s, t, m)
    /\ m > 0 => At(s, m) \in Digits /\ At(s, m + 1) \notin Digits /\ At(t, m + 1) \notin Digits

LEMMA TogetherTurned ==
    ASSUME NEW s, NEW t, NEW m, Together(s, t, m) PROVE Together(t, s, m)
<1>1. m > 0 => At(t, m) = At(s, m)
  BY DEF Together, Agree
<1> QED
  BY <1>1 DEF Together, Agree

\* The numbers so far, and that of the next.
LEMMA NumbersSoFar ==
    ASSUME NEW s \in Chars, NEW t \in Chars, NEW m, Together(s, t, m)
    PROVE  LET c == Rank(Begins(s), m) IN
           /\ c \in Nat /\ c = Rank(Begins(t), m)
           /\ c <= Len(NumbersOf(s)) /\ c <= Len(NumbersOf(t))
           /\ \A k \in 1 .. c : NumbersOf(s)[k] = NumbersOf(t)[k]
<1> DEFINE B == Begins(s)
           D == Begins(t)
<1>1. B \in SUBSET (1 .. Len(s)) /\ Len(s) \in Nat /\ D \in SUBSET (1 .. Len(t)) /\ Len(t) \in Nat
      /\ m \in Nat /\ Len(NumbersOf(s)) = Cardinality(B) /\ Len(NumbersOf(t)) = Cardinality(D)
  BY NumbersOfIs DEF Together
<1>2. CASE m = 0
  <2>1. Rank(B, 0) = 0 /\ Rank(D, 0) = 0 /\ Cardinality(B) \in Nat /\ Cardinality(D) \in Nat
    <3> HIDE DEF B, D
    <3> QED
      BY <1>1, RankIs
  <2> QED
    BY <1>1, <1>2, <2>1
<1>3. CASE m # 0
  <2>1. Past(s, t, m)
    BY <1>1, <1>3 DEF Past, Together
  <2>2. Past(t, s, m)
    BY <2>1 DEF Past, Agree
  <2>3. Rank(D, m) <= Cardinality(D)
    BY <2>2, SameNumbers
  <2>4. /\ Rank(B, m) = Rank(D, m) /\ Rank(B, m) \in Nat
        /\ Rank(B, m) <= Cardinality(B)
        /\ \A k \in 1 .. Rank(B, m) : NumbersOf(s)[k] = NumbersOf(t)[k]
    BY <2>1, SameNumbers
  <2> QED
    BY <1>1, <2>3, <2>4
<1> QED
  BY <1>2, <1>3

LEMMA NumberNext ==
    ASSUME NEW s \in Chars, IsRelease(s), NEW m \in Nat, m <= Len(s),
           m > 0 => At(s, m) \in Digits /\ At(s, m + 1) \notin Digits,
           m = 0 \/ m < Len(s)
    PROVE  LET i == m + SpanNot(From(s, m), Digits) + 1
               c == Rank(Begins(s), m) IN
           /\ i \in Begins(s) /\ c \in Nat /\ c < Len(NumbersOf(s))
           /\ NumbersOf(s)[c + 1] = NumberAt(s, i)
<1> DEFINE p == SpanNot(From(s, m), Digits)
           i == m + p + 1
           B == Begins(s)
           c == Rank(B, m)
<1>1. /\ p = (IF m = 0 THEN 0 ELSE 1) /\ i \in B /\ (m + 1 \in B => m = 0)
  BY NextNumber
<1>2. /\ B \in SUBSET (1 .. Len(s)) /\ Len(s) \in Nat
      /\ Len(NumbersOf(s)) = Cardinality(B) /\ Cardinality(B) \in Nat
      /\ Rank(B, i) \in 1 .. Cardinality(B)
      /\ NumbersOf(s)[Rank(B, i)] = NumberAt(s, i)
  BY <1>1, NumbersOfIs
<1> HIDE DEF B, p
<1>3. /\ \A j \in Nat : Rank(B, j) \in Nat
      /\ \A j \in Nat : Rank(B, j + 1) = IF j + 1 \in B THEN Rank(B, j) + 1 ELSE Rank(B, j)
  BY <1>2, RankIs
<1>4. Rank(B, i) = c + 1
  <2>1. CASE m = 0
    <3>1. i = m + 1
      BY <1>1, <2>1
    <3> QED
      BY <1>1, <1>3, <3>1
  <2>2. CASE m # 0
    <3>1. i = (m + 1) + 1 /\ m + 1 \in Nat
      BY <1>1, <2>2
    <3>2. Rank(B, m + 1) = c
      BY <1>1, <1>3, <2>2
    <3> QED
      BY <1>1, <1>3, <3>1, <3>2
  <2> QED
    BY <2>1, <2>2
<1>5. c \in Nat /\ c < Cardinality(B)
  BY <1>2, <1>3, <1>4
<1> QED
  BY <1>1, <1>2, <1>4, <1>5 DEF p, B

\* The next number decides if it differs.
LEMMA NextDecides ==
    ASSUME NEW s \in Chars, NEW t \in Chars, IsRelease(s), IsRelease(t), NEW m, Together(s, t, m),
           m = 0 \/ (m < Len(s) /\ m < Len(t))
    PROVE  LET i == m + SpanNot(From(s, m), Digits) + 1
               d == Segment(From(s, i - 1), From(t, i - 1)) IN
           /\ SpanNot(From(s, m), Digits) = SpanNot(From(t, m), Digits)
           /\ m > 0 => At(s, m + 1) = Dot /\ At(t, m + 1) = Dot
           /\ SpanNot(From(s, m), Digits) = IF m = 0 THEN 0 ELSE 1
           /\ m + SpanNot(From(s, m), Digits) + 1 <= Len(s)
           /\ m + SpanNot(From(s, m), Digits) + 1 <= Len(t)
           /\ d # 0 => ReleaseOrder(NumbersOf(s), NumbersOf(t)) = d
<1> DEFINE p == SpanNot(From(s, m), Digits)
           i == m + p + 1
           d == Segment(From(s, i - 1), From(t, i - 1))
           c == Rank(Begins(s), m)
<1>1. m \in Nat /\ m <= Len(s) /\ m <= Len(t)
      /\ (m > 0 => At(s, m) \in Digits /\ At(s, m + 1) \notin Digits)
      /\ (m > 0 => At(t, m) \in Digits /\ At(t, m + 1) \notin Digits)
  BY TogetherTurned DEF Together
<1>2. p = (IF m = 0 THEN 0 ELSE 1) /\ i <= Len(s) /\ (m > 0 => At(s, m + 1) = Dot)
  BY <1>1, NextNumber
<1>3. /\ SpanNot(From(t, m), Digits) = (IF m = 0 THEN 0 ELSE 1)
      /\ m + SpanNot(From(t, m), Digits) + 1 <= Len(t)
      /\ (m > 0 => At(t, m + 1) = Dot)
  BY <1>1, NextNumber
<1>4. SpanNot(From(t, m), Digits) = p
  BY <1>2, <1>3
<1>5. i \in Begins(s) /\ c \in Nat /\ c < Len(NumbersOf(s)) /\ NumbersOf(s)[c + 1] = NumberAt(s, i)
  BY <1>1, NumberNext
<1>6. c = Rank(Begins(t), m) /\ \A k \in 1 .. c : NumbersOf(s)[k] = NumbersOf(t)[k]
  BY NumbersSoFar
<1>7. i \in Begins(t) /\ c < Len(NumbersOf(t)) /\ NumbersOf(t)[c + 1] = NumberAt(t, i)
  BY <1>1, <1>4, <1>6, NumberNext
<1>8. NumberAt(s, i) \in Nat /\ NumberAt(t, i) \in Nat /\ d = Sign(NumberAt(s, i) - NumberAt(t, i))
  BY <1>5, <1>7, SegmentOrders
<1>9. ASSUME d # 0 PROVE ReleaseOrder(NumbersOf(s), NumbersOf(t)) = d
  <2> DEFINE v == NumbersOf(s)
             w == NumbersOf(t)
  <2>1. v[c + 1] # w[c + 1] /\ d = Sign(v[c + 1] - w[c + 1])
    BY <1>5, <1>7, <1>8, <1>9 DEF Sign
  <2>2. Len(v) \in Nat /\ Len(w) \in Nat
    BY NumbersOfIs
  <2> HIDE DEF v, w, c, d
  <2>3. c \in Nat /\ c < Len(v) /\ c < Len(w) /\ \A k \in 1 .. c : v[k] = w[k]
    BY <1>5, <1>6, <1>7 DEF v, w
  <2>4. ReleaseOrder(v, w) = Sign(v[c + 1] - w[c + 1])
    BY <2>1, <2>2, <2>3, OrderApart
  <2> QED
    BY <2>1, <2>4 DEF v, w
<1> QED
  BY <1>2, <1>3, <1>4, <1>9

\* A release that ends where another goes on is older.
LEMMA ShorterIsOlder ==
    ASSUME NEW s \in Chars, NEW t \in Chars, IsRelease(t), NEW m, Together(s, t, m),
           m > 0, m = Len(s), m < Len(t)
    PROVE  /\ ReleaseOrder(NumbersOf(s), NumbersOf(t)) = -1
           /\ ReleaseOrder(NumbersOf(t), NumbersOf(s)) = 1
           /\ At(t, m + 1) = Dot
<1> DEFINE v == NumbersOf(s)
           w == NumbersOf(t)
           c == Rank(Begins(s), m)
<1>1. m \in Nat /\ m <= Len(t) /\ At(t, m) \in Digits /\ At(t, m + 1) \notin Digits
  BY TogetherTurned DEF Together
<1>2. c = Rank(Begins(t), m) /\ \A k \in 1 .. c : v[k] = w[k]
  BY NumbersSoFar
<1>3. c \in Nat /\ c < Len(w)
  BY <1>1, <1>2, NumberNext
<1>4. Len(v) = c
  <2>1. /\ Begins(s) \in SUBSET (1 .. Len(s)) /\ Len(s) \in Nat
        /\ Len(v) = Cardinality(Begins(s))
    BY NumbersOfIs
  <2>2. Rank(Begins(s), Len(s)) = Cardinality(Begins(s))
    BY <2>1, RankIs
  <2> QED
    BY <2>1, <2>2
<1>5. Len(w) \in Nat
  BY NumbersOfIs
<1>6. At(t, m + 1) = Dot
  BY <1>1, NextNumber
<1> HIDE DEF v, w, c
<1>7. /\ ReleaseOrder(v, w) = Sign(Len(v) - Len(w))
      /\ ReleaseOrder(w, v) = Sign(Len(w) - Len(v))
  BY <1>2, <1>3, <1>4, <1>5, OrderBegun
<1>8. Len(v) - Len(w) \in Int /\ Len(v) - Len(w) < 0 /\ Len(w) - Len(v) \in Int /\ Len(w) - Len(v) > 0
  BY <1>3, <1>4, <1>5
<1>9. Sign(Len(v) - Len(w)) = -1 /\ Sign(Len(w) - Len(v)) = 1
  BY <1>8, SignIs
<1> QED
  BY <1>6, <1>7, <1>9 DEF v, w

\* Where the numbers are the same the loop goes on behind them.
LEMMA GoesOn ==
    ASSUME NEW s \in Chars, NEW t \in Chars, NEW m \in Nat, NEW p \in Nat,
           m + p < Len(s), m + p < Len(t), Agree(s, t, m), Agree(From(s, m), From(t, m), p),
           NEW x, x = From(s, m + p), NEW y, y = From(t, m + p),
           s[m + p + 1] \in Digits, SameNumber(x, y)
    PROVE  LET n == Span(x, Digits) k == m + p + n IN
           /\ Together(s, t, k) /\ Span(y, Digits) = n
           /\ From(x, n) = From(s, k) /\ From(y, n) = From(t, k)
<1> DEFINE n == Span(x, Digits)
           k == m + p + n
<1>1. /\ Len(s) \in Nat /\ Len(t) \in Nat /\ m <= Len(s) /\ m <= Len(t)
      /\ m + p \in Nat /\ m + p <= Len(s) /\ m + p <= Len(t)
  BY DEF Chars
<1>2. Agree(s, t, m + p)
  BY <1>1, FromAgrees
<1>3. /\ x \in Chars /\ Len(x) = Len(s) - (m + p)
      /\ (\A i \in 1 .. Len(s) - (m + p) : x[i] = s[(m + p) + i])
      /\ \A i \in Nat : i > 0 => At(x, i) = At(s, (m + p) + i)
  BY <1>1, FromIs
<1>4. /\ y \in Chars /\ Len(y) = Len(t) - (m + p)
      /\ \A i \in Nat : i > 0 => At(y, i) = At(t, (m + p) + i)
  BY <1>1, FromIs
<1>5. Begun(x, Digits, n) /\ Begun(y, Digits, n) /\ Agree(x, y, n) /\ Span(y, Digits) = n
  BY <1>3, <1>4, SpanIs DEF SameNumber
<1> HIDE DEF n
<1>6. n \in Nat /\ n <= Len(x) /\ n <= Len(y)
  BY <1>5 DEF Begun
<1>7. n >= 1
  <2> SUFFICES ASSUME n = 0 PROVE FALSE
    BY <1>6
  <2>1. 0 < Len(x) /\ 1 \in 1 .. Len(s) - (m + p)
    BY <1>1, <1>3
  <2>2. x[0 + 1] \notin Digits
    BY <1>5, <2>1 DEF Begun
  <2>3. x[1] = s[m + p + 1]
    BY <1>3, <2>1
  <2> QED
    BY <2>2, <2>3
<1>8. k \in Nat /\ k > 0 /\ k <= Len(s) /\ k <= Len(t) /\ (m + p) + n = k
      /\ (m + p) + (n + 1) = k + 1 /\ n + 1 \in Nat /\ n + 1 > 0 /\ n > 0
  <2> DEFINE ls == Len(s) lt == Len(t)
  <2>1. n <= ls - (m + p) /\ n <= lt - (m + p) /\ ls \in Nat /\ lt \in Nat
    BY <1>1, <1>3, <1>4, <1>6
  <2> HIDE DEF ls, lt
  <2>2. k \in Nat /\ k > 0 /\ k <= ls /\ k <= lt /\ (m + p) + n = k
        /\ (m + p) + (n + 1) = k + 1 /\ n + 1 \in Nat /\ n + 1 > 0 /\ n > 0
    BY <1>6, <1>7, <2>1
  <2> QED
    BY <2>2 DEF ls, lt
<1>9. Agree(s, t, (m + p) + n)
  BY <1>1, <1>2, <1>5, <1>6, FromAgrees
<1>10. ASSUME NEW r \in Chars, Begun(r, Digits, n) PROVE At(r, n + 1) \notin Digits
  <2>1. Len(r) \in Nat /\ n <= Len(r)
    BY <1>10 DEF Begun, Chars
  <2>2. CASE n < Len(r)
    <3>1. n + 1 \in 1 .. Len(r)
      BY <1>6, <2>1, <2>2
    <3>2. At(r, n + 1) = r[n + 1] /\ r[n + 1] \notin Digits
      BY <1>10, <2>2, <3>1, AtIs DEF Begun
    <3> QED
      BY <3>2
  <2>3. CASE ~(n < Len(r))
    <3>1. n + 1 > Len(r) /\ n + 1 \in Nat
      BY <1>6, <2>1, <2>3
    <3>2. At(r, n + 1) = 0
      BY <3>1, AtIs
    <3> QED
      BY <3>2 DEF Digits
  <2> QED
    BY <2>2, <2>3
<1>11. At(s, k + 1) \notin Digits /\ At(t, k + 1) \notin Digits
  <2>1. At(x, n + 1) = At(s, (m + p) + (n + 1)) /\ At(y, n + 1) = At(t, (m + p) + (n + 1))
    BY <1>3, <1>4, <1>8
  <2>2. At(x, n + 1) \notin Digits /\ At(y, n + 1) \notin Digits
    BY <1>3, <1>4, <1>5, <1>10
  <2> QED
    BY <1>8, <2>1, <2>2
<1>12. At(s, k) \in Digits
  <2>1. n \in 1 .. n /\ n \in 1 .. Len(x)
    BY <1>3, <1>1, <1>6, <1>7
  <2>2. x[n] \in Digits /\ At(x, n) = x[n]
    BY <1>3, <1>5, <2>1, AtIs DEF Begun
  <2>3. At(x, n) = At(s, (m + p) + n)
    BY <1>3, <1>6, <1>8
  <2> QED
    BY <1>8, <2>2, <2>3
<1>13. Together(s, t, k)
  BY <1>8, <1>9, <1>11, <1>12 DEF Together
<1>14. From(x, n) = From(s, (m + p) + n) /\ From(y, n) = From(t, (m + p) + n)
  <2>1. (m + p) + n <= Len(s) /\ (m + p) + n <= Len(t)
    BY <1>8
  <2> QED
    BY <1>1, <1>6, <2>1, FromTwice
<1> QED
  BY <1>5, <1>8, <1>13, <1>14 DEF n

\* Equal versions are never told apart.
LEMMA SameIsSame ==
    ASSUME NEW s \in Chars, NEW n \in Nat PROVE Compared(s, s, n) = 0 /\ SameNumber(s, s)
<1>1. \A j : Agree(s, s, j)
  BY DEF Agree
<1> QED
  BY <1>1, ComparedIs DEF SameNumber

-----------------------------------------------------------------------------
(* VersionCompare: the loop.                                               *)

\* The loop has passed m characters, which are the same in both versions and end
\* with a number that ends there.
Passed(m) ==
    /\ Together(pair[1], pair[2], m)
    /\ rest = <<From(pair[1], m), From(pair[2], m)>>

VersionInv ==
    /\ pair \in Chars \X Chars
    /\ order = Open => \E m : Passed(m)
    /\ ReleasesByNumber

LEMMA AllFrom == ASSUME NEW s \in Chars PROVE From(s, 0) = s
<1> DEFINE r == From(s, 0)
<1>1. Len(s) \in Nat
  BY DEF Chars
<1>2. r \in Chars /\ Len(r) = Len(s) - 0 /\ \A i \in 1 .. Len(s) - 0 : r[i] = s[0 + i]
  BY <1>1, FromIs
<1> HIDE DEF r
<1>3. Len(r) = Len(s) /\ \A i \in 1 .. Len(s) : r[i] = s[i]
  BY <1>1, <1>2
<1>4. r = s
  BY <1>2, <1>3, SeqEqual DEF Chars
<1> QED
  BY <1>4 DEF r

LEMMA VersionStarts == VersionInit => VersionInv
<1> SUFFICES ASSUME VersionInit PROVE VersionInv
  OBVIOUS
<1>1. pair \in Chars \X Chars /\ order = Open /\ rest = pair
  BY VersionAssumption DEF VersionInit, Chars
<1>2. Len(pair[1]) \in Nat /\ Len(pair[2]) \in Nat
  BY <1>1 DEF Chars
<1>3. rest = <<From(pair[1], 0), From(pair[2], 0)>>
  BY <1>1, AllFrom
<1>4. Passed(0)
  BY <1>2, <1>3 DEF Passed, Together, Agree
<1> QED
  BY <1>1, <1>4 DEF VersionInv, ReleasesByNumber

\* Both strings of the same kind, with a number in both.
LEMMA AlikeIs ==
    ASSUME NEW s \in Chars, NEW t \in Chars, NEW m, Together(s, t, m),
           Alike(From(s, m), From(t, m)), NEW p, p = SpanNot(From(s, m), Digits)
    PROVE  /\ p \in Nat /\ m \in Nat /\ m + p < Len(s) /\ m + p < Len(t)
           /\ s[m + p + 1] \in Digits
           /\ From(s, m) \in Chars /\ From(t, m) \in Chars
           /\ From(From(s, m), p) = From(s, m + p) /\ From(From(t, m), p) = From(t, m + p)
           /\ From(s, m + p) \in Chars /\ From(t, m + p) \in Chars
<1> DEFINE r == From(s, m)
           x == From(t, m)
<1>1. /\ Len(s) \in Nat /\ Len(t) \in Nat /\ m \in Nat /\ m <= Len(s) /\ m <= Len(t)
  BY DEF Together, Chars
<1>2. /\ r \in Chars /\ Len(r) = Len(s) - m /\ x \in Chars /\ Len(x) = Len(t) - m
      /\ \A i \in 1 .. Len(s) - m : r[i] = s[m + i]
  BY <1>1, FromIs
<1>3. p < Len(r) /\ p < Len(x)
  BY DEF Alike
<1> HIDE DEF r, x
<1>4. p \in Nat /\ (p < Len(r) => r[p + 1] \in Digits)
  BY <1>2, SpanNotIs DEF r
<1>5. m + p < Len(s) /\ m + p < Len(t) /\ m + p <= Len(s) /\ m + p <= Len(t) /\ m + p \in Nat
      /\ p + 1 \in 1 .. Len(s) - m /\ m + (p + 1) = m + p + 1
  <2> DEFINE ls == Len(s) lt == Len(t)
  <2>1. p < ls - m /\ p < lt - m /\ ls \in Nat /\ lt \in Nat /\ m \in Nat
    BY <1>1, <1>2, <1>3
  <2> HIDE DEF ls, lt
  <2>2. m + p < ls /\ m + p < lt /\ m + p <= ls /\ m + p <= lt /\ m + p \in Nat
        /\ p + 1 \in 1 .. ls - m /\ m + (p + 1) = m + p + 1
    BY <1>4, <2>1
  <2> QED
    BY <2>2 DEF ls, lt
<1>6. s[m + p + 1] \in Digits
  BY <1>2, <1>3, <1>4, <1>5
<1>7. From(r, p) = From(s, m + p) /\ From(x, p) = From(t, m + p)
  BY <1>1, <1>4, <1>5, FromTwice DEF r, x
<1>8. From(s, m + p) \in Chars /\ From(t, m + p) \in Chars
  BY <1>5, FromIs
<1> QED
  BY <1>1, <1>2, <1>4, <1>5, <1>6, <1>7, <1>8 DEF r, x

LEMMA RoundStep == ASSUME VersionInv, Round PROVE VersionInv'
<1> DEFINE s == pair[1]
           t == pair[2]
<1>1. s \in Chars /\ t \in Chars /\ order = Open /\ pair' = pair
  BY DEF VersionInv, Round
<1>2. PICK m : Passed(m)
  BY <1>1 DEF VersionInv
<1>3. Together(s, t, m) /\ rest[1] = From(s, m) /\ rest[2] = From(t, m)
  BY <1>2 DEF Passed
<1> DEFINE r1 == From(s, m)
           r2 == From(t, m)
           p == SpanNot(r1, Digits)
           x == From(r1, p)
           y == From(r2, p)
           first == Compared(r1, r2, p)
           verdict == IF first # 0 THEN first ELSE Segment(x, y)
<1>4. /\ Alike(r1, r2)
      /\ \/ verdict # 0 /\ order' = verdict
         \/ /\ verdict = 0 /\ order' = Open
            /\ rest' = <<From(x, Span(x, Digits)), From(y, Span(y, Digits))>>
  BY <1>1, <1>3 DEF Round
<1> HIDE DEF s, t
<1>5. /\ p \in Nat /\ m \in Nat /\ m + p < Len(s) /\ m + p < Len(t)
      /\ s[m + p + 1] \in Digits /\ r1 \in Chars /\ r2 \in Chars
      /\ x = From(s, m + p) /\ y = From(t, m + p) /\ x \in Chars /\ y \in Chars
  BY <1>1, <1>3, <1>4, AlikeIs
<1>6. first \in Verdicts /\ (first = 0 <=> Agree(r1, r2, p))
  BY <1>5, ComparedSign DEF Verdicts
<1>7. Segment(x, y) \in Verdicts /\ (Segment(x, y) = 0 <=> SameNumber(x, y))
  BY <1>5, SegmentIs
<1>8. ASSUME verdict = 0, order' = Open,
             rest' = <<From(x, Span(x, Digits)), From(y, Span(y, Digits))>>
      PROVE  VersionInv'
  <2> DEFINE k == m + p + Span(x, Digits)
  <2>1. Agree(r1, r2, p) /\ SameNumber(x, y)
    BY <1>6, <1>7, <1>8
  <2>2. Agree(s, t, m)
    BY <1>3 DEF Together
  <2> HIDE DEF p, x, y, r1, r2
  <2>3. Together(s, t, k) /\ From(x, Span(x, Digits)) = From(s, k)
        /\ From(y, Span(y, Digits)) = From(t, k)
    BY <1>1, <1>5, <2>1, <2>2, GoesOn DEF r1, r2
  <2> HIDE DEF k
  <2>4. PICK j : j = k
    OBVIOUS
  <2>5. rest' = <<From(s, j), From(t, j)>> /\ pair'[1] = s /\ pair'[2] = t
    BY <1>1, <1>8, <2>3, <2>4 DEF s, t
  <2>6. Together(s, t, j)
    BY <2>3, <2>4
  <2>7. Passed(j)'
    BY <2>5, <2>6 DEF Passed
  <2> QED
    BY <1>1, <1>8, <2>7 DEF VersionInv, ReleasesByNumber, s, t
<1>9. ASSUME verdict # 0, order' = verdict PROVE VersionInv'
  <2>1. order' \in Verdicts /\ order' # 0
    BY <1>6, <1>7, <1>9
  <2>2. s # t
    <3> SUFFICES ASSUME s = t PROVE FALSE
      OBVIOUS
    <3>1. r1 = r2 /\ x = y
      OBVIOUS
    <3>2. first = 0
      BY <1>5, <3>1, SameIsSame
    <3>3. SameNumber(x, y)
      BY <1>5, <3>1, SameIsSame
    <3> QED
      BY <1>7, <1>9, <3>2, <3>3
  <2>3. ASSUME IsRelease(s), IsRelease(t)
        PROVE  order' = ReleaseOrder(NumbersOf(s), NumbersOf(t))
    <3> DEFINE i == m + p + 1
               d == Segment(From(s, i - 1), From(t, i - 1))
    <3>1. m = 0 \/ (m < Len(s) /\ m < Len(t))
      <4>1. Len(s) \in Nat /\ Len(t) \in Nat
        BY <1>1 DEF Chars
      <4> HIDE DEF p
      <4> QED
        BY <1>5, <4>1
    <3>2. /\ m > 0 => At(s, m + 1) = Dot /\ At(t, m + 1) = Dot
          /\ p = IF m = 0 THEN 0 ELSE 1
          /\ d # 0 => ReleaseOrder(NumbersOf(s), NumbersOf(t)) = d
      BY <1>1, <1>3, <2>3, <3>1, NextDecides
    <3>3. i - 1 = m + p
      <4> HIDE DEF p
      <4> QED
        BY <1>5
    <3>4. d = Segment(x, y)
      BY <1>5, <3>3
    <3>5. Agree(r1, r2, p)
      <4>1. CASE m = 0
        BY <3>2, <4>1 DEF Agree
      <4>2. CASE m # 0
        <5>1. m > 0 /\ p = 1 /\ m <= Len(s) /\ m <= Len(t)
          BY <1>3, <1>5, <3>2, <4>2 DEF Together
        <5>2. At(r1, 1) = At(s, m + 1) /\ At(r2, 1) = At(t, m + 1)
          BY <1>1, <1>5, <5>1, FromIs
        <5>3. At(r1, 1) = At(r2, 1)
          BY <3>2, <5>1, <5>2
        <5> HIDE DEF r1, r2, p
        <5>4. \A j \in 1 .. p : j = 1
          BY <5>1
        <5> QED
          BY <5>3, <5>4 DEF Agree
      <4> QED
        BY <4>1, <4>2
    <3>6. verdict = d /\ d # 0
      BY <1>6, <1>9, <3>4, <3>5
    <3> QED
      BY <1>9, <3>2, <3>6
  <2>4. ReleasesByNumber'
    BY <1>1, <2>1, <2>2, <2>3 DEF ReleasesByNumber, s, t
  <2>5. order' # Open
    BY <2>1 DEF Verdicts, Open
  <2> QED
    BY <1>1, <2>4, <2>5 DEF VersionInv, s, t
<1> QED
  BY <1>4, <1>8, <1>9

\* Strings that are the same as far as the longer one goes are the same.
LEMMA AgreeAll ==
    ASSUME NEW s \in Chars, NEW t \in Chars, NEW n \in Nat, Len(s) <= n, Len(t) <= n, Agree(s, t, n)
    PROVE  s = t
<1>1. Len(s) \in Nat /\ Len(t) \in Nat
  BY DEF Chars
<1>2. ASSUME NEW u \in Chars, NEW w \in Chars, Len(u) < Len(w), Len(w) <= n, Agree(u, w, n)
      PROVE  FALSE
  <2>1. Len(u) \in Nat /\ Len(w) \in Nat
    BY DEF Chars
  <2>2. Len(u) + 1 \in 1 .. n /\ Len(u) + 1 \in 1 .. Len(w) /\ Len(u) + 1 > Len(u) /\ Len(u) + 1 \in Nat
    BY <1>2, <2>1
  <2>3. At(u, Len(u) + 1) = 0
    BY <2>2, AtIs
  <2>4. At(w, Len(u) + 1) # 0
    BY <2>2, AtIs
  <2> QED
    BY <1>2, <2>2, <2>3, <2>4 DEF Agree
<1>3. Agree(t, s, n)
  BY DEF Agree
<1>4. ~(Len(s) < Len(t)) /\ ~(Len(t) < Len(s))
  BY <1>2, <1>3
<1>5. Len(s) = Len(t)
  BY <1>1, <1>4
<1>6. \A i \in 1 .. Len(s) : s[i] = t[i]
  <2> TAKE i \in 1 .. Len(s)
  <2>1. i \in 1 .. n /\ i \in 1 .. Len(t)
    BY <1>1, <1>5
  <2> QED
    BY <2>1, AtIs DEF Agree
<1> QED
  BY <1>5, <1>6, SeqEqual DEF Chars

LEMMA FirstApart ==
    ASSUME NEW s \in Chars, NEW t \in Chars, NEW n \in Nat, n >= 1, At(s, 1) # At(t, 1)
    PROVE  Compared(s, t, n) = Sign(At(s, 1) - At(t, 1))
<1>1. ~Agree(s, t, n)
  <2>1. 1 \in 1 .. n
    OBVIOUS
  <2> QED
    BY <2>1 DEF Agree
<1>2. PICK k \in 1 .. n : Agree(s, t, k - 1) /\ Compared(s, t, n) = Sign(At(s, k) - At(t, k))
  BY <1>1, ComparedIs
<1>3. k = 1
  <2> SUFFICES ASSUME k > 1 PROVE FALSE
    OBVIOUS
  <2>1. 1 \in 1 .. k - 1
    OBVIOUS
  <2> QED
    BY <1>2, <2>1 DEF Agree
<1> QED
  BY <1>2, <1>3

\* The strings that are left, where one of two releases ends and the other goes on.
LEMMA EndedFirst ==
    ASSUME NEW s \in Chars, NEW t \in Chars, IsRelease(t), NEW m, Together(s, t, m),
           m > 0, m = Len(s), m < Len(t), NEW n \in Nat, n >= 1
    PROVE  /\ Compared(From(s, m), From(t, m), n) = ReleaseOrder(NumbersOf(s), NumbersOf(t))
           /\ Compared(From(t, m), From(s, m), n) = ReleaseOrder(NumbersOf(t), NumbersOf(s))
<1> DEFINE x == From(s, m)
           y == From(t, m)
<1>1. m \in Nat /\ m <= Len(s) /\ m <= Len(t)
  BY DEF Together
<1>2. x \in Chars /\ y \in Chars /\ At(x, 1) = At(s, m + 1) /\ At(y, 1) = At(t, m + 1)
  <2>1. x \in Chars /\ \A i \in Nat : i > 0 => At(x, i) = At(s, m + i)
    BY <1>1, FromIs
  <2>2. y \in Chars /\ \A i \in Nat : i > 0 => At(y, i) = At(t, m + i)
    BY <1>1, FromIs
  <2> HIDE DEF x, y
  <2> QED
    BY <2>1, <2>2
<1>3. /\ ReleaseOrder(NumbersOf(s), NumbersOf(t)) = -1
      /\ ReleaseOrder(NumbersOf(t), NumbersOf(s)) = 1
      /\ At(t, m + 1) = Dot
  BY ShorterIsOlder
<1>4. At(s, m + 1) = 0
  <2>1. m + 1 \in Nat /\ m + 1 > Len(s)
    BY <1>1
  <2> QED
    BY <2>1, AtIs
<1> HIDE DEF x, y
<1>5. At(x, 1) = 0 /\ At(y, 1) = 46
  BY <1>2, <1>3, <1>4 DEF Dot
<1>6. Compared(x, y, n) = Sign(0 - 46) /\ Compared(y, x, n) = Sign(46 - 0)
  <2>1. At(x, 1) # At(y, 1)
    BY <1>5
  <2> QED
    BY <1>2, <1>5, <2>1, FirstApart
<1>7. Sign(0 - 46) = -1 /\ Sign(46 - 0) = 1
  BY DEF Sign
<1> QED
  BY <1>3, <1>6, <1>7 DEF x, y

LEMMA FinishStep == ASSUME VersionInv, Finish PROVE VersionInv'
<1> DEFINE s == pair[1]
           t == pair[2]
<1>1. s \in Chars /\ t \in Chars /\ order = Open /\ pair' = pair
  BY DEF VersionInv, Finish
<1>2. PICK m : Passed(m)
  BY <1>1 DEF VersionInv
<1>3. Together(s, t, m) /\ rest[1] = From(s, m) /\ rest[2] = From(t, m)
  BY <1>2 DEF Passed
<1> DEFINE r1 == From(s, m)
           r2 == From(t, m)
           n == Max({Len(r1), Len(r2)})
<1>4. ~Alike(r1, r2) /\ order' = Compared(r1, r2, n)
  BY <1>1, <1>3 DEF Finish
<1> HIDE DEF s, t
<1>5. /\ m \in Nat /\ Len(s) \in Nat /\ Len(t) \in Nat /\ m <= Len(s) /\ m <= Len(t)
      /\ Agree(s, t, m)
  BY <1>1, <1>3 DEF Together, Chars
<1>6. /\ r1 \in Chars /\ Len(r1) = Len(s) - m /\ r2 \in Chars /\ Len(r2) = Len(t) - m
  BY <1>1, <1>5, FromIs
<1> HIDE DEF r1, r2
<1>7. n \in Nat /\ Len(r1) <= n /\ Len(r2) <= n
  <2>1. Len(r1) \in Nat /\ Len(r2) \in Nat
    BY <1>6 DEF Chars
  <2>2. /\ Len(r1) + Len(r2) \in Nat
        /\ {Len(r1), Len(r2)} \in SUBSET (0 .. Len(r1) + Len(r2)) /\ {Len(r1), Len(r2)} # {}
    BY <2>1
  <2>3. n \in {Len(r1), Len(r2)} /\ \A j \in {Len(r1), Len(r2)} : j <= n
    BY <2>2, MaxIs
  <2> QED
    BY <2>1, <2>3
<1> HIDE DEF n
<1>8. order' \in Verdicts /\ (order' = 0 <=> Agree(r1, r2, n))
  BY <1>4, <1>6, <1>7, ComparedSign DEF Verdicts
<1>9. order' = 0 <=> s = t
  <2>1. ASSUME s = t PROVE Agree(r1, r2, n)
    BY <2>1 DEF Agree, r1, r2
  <2>2. ASSUME Agree(r1, r2, n) PROVE s = t
    <3>1. Agree(s, t, m + n)
      BY <1>1, <1>5, <1>7, <2>2, FromAgrees DEF r1, r2
    <3>2. m + n \in Nat /\ Len(s) <= m + n /\ Len(t) <= m + n
      BY <1>5, <1>6, <1>7
    <3> QED
      BY <1>1, <3>1, <3>2, AgreeAll
  <2> QED
    BY <1>8, <2>1, <2>2
<1>10. ASSUME IsRelease(s), IsRelease(t)
       PROVE  order' = ReleaseOrder(NumbersOf(s), NumbersOf(t))
  <2>1. m > 0 /\ (m = Len(s) \/ m = Len(t))
    <3> SUFFICES ASSUME m = 0 \/ (m < Len(s) /\ m < Len(t)) PROVE FALSE
      BY <1>5
    <3> DEFINE p == SpanNot(r1, Digits)
    <3>1. /\ SpanNot(r2, Digits) = p /\ p = (IF m = 0 THEN 0 ELSE 1)
          /\ m + p + 1 <= Len(s) /\ m + p + 1 <= Len(t)
      BY <1>1, <1>3, <1>10, NextDecides DEF r1, r2
    <3> HIDE DEF p
    <3>2. p \in Nat
      BY <3>1
    <3>3. p < Len(r1) /\ p < Len(r2)
      <4> DEFINE ls == Len(s) lt == Len(t)
      <4>1. ls \in Nat /\ lt \in Nat /\ m + p + 1 <= ls /\ m + p + 1 <= lt
        BY <1>5, <3>1
      <4> HIDE DEF ls, lt
      <4>2. p < ls - m /\ p < lt - m
        BY <1>5, <3>2, <4>1
      <4> QED
        BY <1>6, <4>2 DEF ls, lt
    <3> QED
      BY <1>4, <3>1, <3>3 DEF Alike, p
  <2>2. CASE m = Len(s) /\ m = Len(t)
    <3>1. s = t
      BY <1>1, <1>5, <2>2, AgreeAll
    <3> DEFINE v == NumbersOf(s)
    <3>2. Len(v) \in Nat
      BY <1>1, NumbersOfIs
    <3> HIDE DEF v
    <3>3. ReleaseOrder(v, v) = Sign(Len(v) - Len(v))
      BY <3>2, OrderBegun
    <3>4. ReleaseOrder(v, v) = 0
      BY <3>2, <3>3 DEF Sign
    <3> QED
      BY <1>9, <3>1, <3>4 DEF v
  <2>3. CASE m = Len(s) /\ m < Len(t)
    <3>1. n >= 1
      BY <1>5, <1>6, <1>7, <2>3
    <3> QED
      BY <1>1, <1>3, <1>4, <1>7, <1>10, <2>1, <2>3, <3>1, EndedFirst DEF r1, r2
  <2>4. CASE m = Len(t) /\ m < Len(s)
    <3>1. n >= 1
      BY <1>5, <1>6, <1>7, <2>4
    <3>2. Together(t, s, m)
      BY <1>3, TogetherTurned
    <3> QED
      BY <1>1, <1>4, <1>7, <1>10, <2>1, <2>4, <3>1, <3>2, EndedFirst DEF r1, r2
  <2> QED
    BY <1>5, <2>1, <2>2, <2>3, <2>4
<1>11. ReleasesByNumber'
  BY <1>1, <1>9, <1>10 DEF ReleasesByNumber, s, t
<1>12. order' # Open
  BY <1>8 DEF Verdicts, Open
<1> QED
  BY <1>1, <1>11, <1>12 DEF VersionInv, s, t

\* ykpers_check_version tells releases apart by their numbers: 1.9.0 is older
\* than 1.20.0 and 1.20 older than 1.20.0, whatever the length of the versions
\* and of the numbers in them, and 0 is returned for the same version only.
THEOREM ReleasesAreOrdered == VersionSpec => []ReleasesByNumber
<1>1. VersionInit => VersionInv
  BY VersionStarts
<1>2. VersionInv /\ [VersionNext]_versionVars => VersionInv'
  <2> SUFFICES ASSUME VersionInv, [VersionNext]_versionVars PROVE VersionInv'
    OBVIOUS
  <2>1. CASE Round
    BY <2>1, RoundStep
  <2>2. CASE Finish
    BY <2>2, FinishStep
  <2>3. CASE UNCHANGED versionVars
    <3>1. pair' = pair /\ rest' = rest /\ order' = order
      BY <2>3 DEF versionVars
    <3>2. order = Open => (\E m : Passed(m))'
      <4> SUFFICES ASSUME order = Open PROVE (\E m : Passed(m))'
        OBVIOUS
      <4>1. PICK m : Passed(m)
        BY DEF VersionInv
      <4>2. Passed(m)'
        BY <3>1, <4>1 DEF Passed
      <4> QED
        BY <4>2
    <3> QED
      BY <3>1, <3>2 DEF VersionInv, ReleasesByNumber
  <2> QED
    BY <2>1, <2>2, <2>3 DEF VersionNext
<1>3. VersionInv => ReleasesByNumber
  BY DEF VersionInv
<1> QED
  BY <1>1, <1>2, <1>3, PTL DEF VersionSpec

=============================================================================
