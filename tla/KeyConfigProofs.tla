-------------------------- MODULE KeyConfigProofs ---------------------------
(***************************************************************************)
(* What the calls of KeyConfig leave of a configuration, whatever it is:   *)
(* lemmas on the tables of flags and on the setters, and that the length   *)
(* of the key and the mode are worked out alike.                           *)
(***************************************************************************)
EXTENDS KeyConfig, WellFoundedInduction, TLAPS

Fields(d) == [tkt |-> d.tkt, cfg |-> d.cfg, ext |-> d.ext, imf |-> d.imf,
              command |-> d.command, version |-> d.version]
IsConfig(d) == d = Fields(d)

\* d is the configuration e but for flags and the moving factor.
Keeps(d, e) == IsConfig(d) /\ d.command = e.command /\ d.version = e.version

Row(f) == f.word \in {"tkt", "cfg", "ext"}

-----------------------------------------------------------------------------
(* Recursion over the first numbers: what a function that is defined by    *)
(* its own earlier values is.                                              *)

LEMMA Least ==
    ASSUME NEW S \in SUBSET Nat, S # {} PROVE \E k \in S : \A j \in S : k <= j
<1> DEFINE R == OpToRel(<, Nat)
<1>1. PICK k \in S : \A j \in S : <<j, k>> \notin R
  <2> HIDE DEF R
  <2>1. IsWellFoundedOn(R, Nat)
    BY NatLessThanWellFounded DEF R
  <2> QED
    BY <2>1, WFMin
<1>2. \A j \in S : ~(j < k)
  BY <1>1 DEF OpToRel
<1> QED
  BY <1>2

\* f starts with base and goes on as step says.
Runs(f, m, S, base, step) ==
    /\ f \in [0 .. m -> S] /\ f[0] = base
    /\ \A i \in 1 .. m : f[i] = step[<<i, f[i - 1]>>]

LEMMA Recursion ==
    ASSUME NEW n \in Nat, NEW S, NEW base \in S, NEW step \in [(1 .. n) \X S -> S]
    PROVE  \E f : Runs(f, n, S, base, step)
<1> DEFINE bad == {m \in 0 .. n : ~ \E f : Runs(f, m, S, base, step)}
<1>1. SUFFICES bad = {}
  <2>1. n \notin bad
    BY <1>1
  <2> QED
    BY <2>1
<1>2. SUFFICES ASSUME bad # {} PROVE FALSE
  OBVIOUS
<1>3. PICK m \in bad : \A j \in bad : m <= j
  <2>1. bad \in SUBSET Nat
    OBVIOUS
  <2> HIDE DEF bad
  <2> QED
    BY <1>2, <2>1, Least
<1>4. m # 0
  <2>1. Runs([i \in 0 .. 0 |-> base], 0, S, base, step)
    BY DEF Runs
  <2> QED
    BY <2>1
<1>5. PICK f : Runs(f, m - 1, S, base, step)
  <2>1. m - 1 \in 0 .. n /\ m - 1 < m
    BY <1>4
  <2>2. m - 1 \notin bad
    BY <1>3, <2>1
  <2> QED
    BY <2>1, <2>2
<1> DEFINE g == [i \in 0 .. m |-> IF i = m THEN step[<<m, f[m - 1]>>] ELSE f[i]]
<1>6. Runs(g, m, S, base, step)
  <2>1. m \in 1 .. n /\ m - 1 \in 0 .. m - 1 /\ f[m - 1] \in S
    BY <1>4, <1>5 DEF Runs
  <2>2. step[<<m, f[m - 1]>>] \in S
    BY <2>1
  <2>3. g \in [0 .. m -> S]
    BY <1>5, <2>2 DEF Runs
  <2>4. g[0] = base
    BY <1>4, <1>5, <2>1 DEF Runs
  <2>5. \A i \in 1 .. m : g[i] = step[<<i, g[i - 1]>>]
    <3> TAKE i \in 1 .. m
    <3>1. CASE i = m
      <4>1. g[m - 1] = f[m - 1]
        BY <2>1
      <4>2. g[m] = step[<<m, f[m - 1]>>]
        BY <2>1
      <4> QED
        BY <3>1, <4>1, <4>2
    <3>2. CASE i # m
      <4>1. i \in 1 .. m - 1 /\ i \in 0 .. m /\ i - 1 \in 0 .. m /\ i - 1 # m
        BY <2>1, <3>2
      <4>2. f[i] = step[<<i, f[i - 1]>>]
        BY <1>5, <4>1 DEF Runs
      <4> QED
        BY <3>2, <4>1, <4>2
    <3> QED
      BY <3>1, <3>2
  <2> QED
    BY <2>3, <2>4, <2>5 DEF Runs
<1> QED
  BY <1>6

-----------------------------------------------------------------------------
(* The setters leave the command and the version alone.                    *)

LEMMA TicketRows == \A i \in DOMAIN TicketFlags : Row(TicketFlags[i])
BY DEF TicketFlags, Ticket, Flag, Row

LEMMA ConfigRows == \A i \in DOMAIN ConfigFlags : Row(ConfigFlags[i])
BY SMTT(90) DEF ConfigFlags, Ticket, Flag, Row

LEMMA ExtendedRows == \A i \in DOMAIN ExtendedFlags : Row(ExtendedFlags[i])
BY DEF ExtendedFlags, Flag, Row

LEMMA NamedRows == \A name \in DOMAIN FlagNamed : Row(FlagNamed[name])
<1>1. \A f \in Flags : Row(f)
  BY TicketRows, ConfigRows, ExtendedRows DEF Flags, ToSet
<1> QED
  BY <1>1 DEF FlagNamed

LEMMA PutKeeps ==
    ASSUME NEW d, IsConfig(d), NEW f, Row(f), NEW state \in BOOLEAN
    PROVE  Keeps(Put(d, f, state), d)
<1> DEFINE bits == IF state THEN d[f.word] \cup f.bits ELSE d[f.word] \ f.bits
<1>1. Put(d, f, state) = [d EXCEPT ![f.word] = bits]
  BY DEF Put
<1> HIDE DEF bits
<1>2. CASE f.word = "tkt"
  BY <1>1, <1>2 DEF IsConfig, Fields, Keeps
<1>3. CASE f.word = "cfg"
  BY <1>1, <1>3 DEF IsConfig, Fields, Keeps
<1>4. CASE f.word = "ext"
  BY <1>1, <1>4 DEF IsConfig, Fields, Keeps
<1> QED
  BY <1>2, <1>3, <1>4 DEF Row

LEMMA ClearKeeps == ASSUME NEW d, IsConfig(d) PROVE Keeps(ClearConfig(d), d)
<1>1. ClearConfig(d) = [[[d EXCEPT !.tkt = {}] EXCEPT !.cfg = {}] EXCEPT !.ext = {}]
  BY DEF ClearConfig
<1>2. ClearConfig(d) = [tkt |-> {}, cfg |-> {}, ext |-> {}, imf |-> d.imf,
                        command |-> d.command, version |-> d.version]
  BY <1>1 DEF IsConfig, Fields
<1> QED
  BY <1>2 DEF IsConfig, Fields, Keeps

\* Nor do they touch the moving factor.
LEMMA PutImf ==
    ASSUME NEW d, IsConfig(d), NEW f, Row(f), NEW state \in BOOLEAN
    PROVE  Put(d, f, state).imf = d.imf
<1> DEFINE bits == IF state THEN d[f.word] \cup f.bits ELSE d[f.word] \ f.bits
<1>1. Put(d, f, state) = [d EXCEPT ![f.word] = bits]
  BY DEF Put
<1> HIDE DEF bits
<1> QED
  BY <1>1 DEF IsConfig, Fields, Row

LEMMA ClearImf == ASSUME NEW d, IsConfig(d) PROVE ClearConfig(d).imf = d.imf
BY DEF ClearConfig, IsConfig, Fields

LEMMA SetNamedKeeps ==
    ASSUME NEW d, IsConfig(d), NEW name \in DOMAIN FlagNamed
    PROVE  Keeps(SetNamed(d, name), d)
BY NamedRows, PutKeeps DEF SetNamed, SetIfCan, Keeps

LEMMA SetImfKeeps == ASSUME NEW d, IsConfig(d), NEW seed PROVE Keeps(SetImf(d, seed), d)
BY DEF SetImf, IsConfig, Fields, Keeps

-----------------------------------------------------------------------------
(* The bits.                                                               *)

Words == {"tkt", "cfg", "ext"}

\* The flags that make the mode: bit 6 of the ticket flags is theirs alone.
TicketRow(f) ==
    /\ f.name \in {"OATH_HOTP", "CHAL_RESP"} => f.word = "tkt" /\ f.bits = {6}
    /\ f.word = "tkt" /\ 6 \in f.bits => f.name \in {"OATH_HOTP", "CHAL_RESP"}
ConfigModes == {"CHAL_YUBICO", "CHAL_HMAC", "STATIC_TICKET"}
ConfigRow(f) ==
    f.name \in ConfigModes =>
        f.word = "cfg" /\ f.bits = IF f.name = "CHAL_HMAC" THEN {1, 5} ELSE {5}
ModeRow(f) == TicketRow(f) /\ ConfigRow(f)

LEMMA ModeRows == \A f \in Flags : ModeRow(f)
<1>1. ASSUME NEW i \in DOMAIN TicketFlags PROVE ModeRow(TicketFlags[i])
  <2>1. TicketRow(TicketFlags[i])
    BY SMTT(30) DEF TicketFlags, Ticket, Flag, TicketRow
  <2>2. TicketFlags[i].name \notin ConfigModes
    BY DEF TicketFlags, Ticket, Flag, ConfigModes
  <2> QED
    BY <2>1, <2>2 DEF ModeRow, ConfigRow
<1>2. ASSUME NEW i \in DOMAIN ConfigFlags PROVE ModeRow(ConfigFlags[i])
  <2>1. TicketRow(ConfigFlags[i])
    <3>1. ConfigFlags[i].word = "cfg"
      BY SMTT(60) DEF ConfigFlags, Ticket, Flag
    <3>2. ConfigFlags[i].name \notin {"OATH_HOTP", "CHAL_RESP"}
      BY SMTT(60) DEF ConfigFlags, Ticket, Flag
    <3> QED
      BY <3>1, <3>2 DEF TicketRow
  <2>2. i \notin {1, 2, 14} => ConfigFlags[i].name \notin ConfigModes
    BY SMTT(60) DEF ConfigFlags, Ticket, Flag, ConfigModes
  <2>3. /\ ConfigFlags[1].word = "cfg" /\ ConfigFlags[1].bits = {5}
        /\ ConfigFlags[1].name = "CHAL_YUBICO"
    BY SMTT(60) DEF ConfigFlags, Ticket, Flag
  <2>4. /\ ConfigFlags[2].word = "cfg" /\ ConfigFlags[2].bits = {1, 5}
        /\ ConfigFlags[2].name = "CHAL_HMAC"
    BY SMTT(60) DEF ConfigFlags, Ticket, Flag
  <2>5. /\ ConfigFlags[14].word = "cfg" /\ ConfigFlags[14].bits = {5}
        /\ ConfigFlags[14].name = "STATIC_TICKET"
    BY SMTT(60) DEF ConfigFlags, Ticket, Flag
  <2>6. ConfigRow(ConfigFlags[i])
    BY <2>2, <2>3, <2>4, <2>5 DEF ConfigRow
  <2> QED
    BY <2>1, <2>6 DEF ModeRow
<1>3. ASSUME NEW i \in DOMAIN ExtendedFlags PROVE ModeRow(ExtendedFlags[i])
  <2>1. TicketRow(ExtendedFlags[i])
    BY SMTT(30) DEF ExtendedFlags, Flag, TicketRow
  <2>2. ExtendedFlags[i].name \notin ConfigModes
    BY DEF ExtendedFlags, Flag, ConfigModes
  <2> QED
    BY <2>1, <2>2 DEF ModeRow, ConfigRow
<1> QED
  BY <1>1, <1>2, <1>3 DEF Flags, ToSet

LEMMA NamedModes ==
    /\ {"OATH_HOTP", "CHAL_RESP", "CHAL_YUBICO", "CHAL_HMAC", "STATIC_TICKET"}
         \subseteq DOMAIN FlagNamed
    /\ \A name \in DOMAIN FlagNamed : FlagNamed[name].name = name /\ ModeRow(FlagNamed[name])
<1>1. /\ TicketFlags[8].name = "OATH_HOTP" /\ 8 \in DOMAIN TicketFlags
      /\ TicketFlags[9].name = "CHAL_RESP" /\ 9 \in DOMAIN TicketFlags
  BY DEF TicketFlags, Ticket, Flag
<1>2. /\ ConfigFlags[1].name = "CHAL_YUBICO" /\ 1 \in DOMAIN ConfigFlags
      /\ ConfigFlags[2].name = "CHAL_HMAC" /\ 2 \in DOMAIN ConfigFlags
      /\ ConfigFlags[14].name = "STATIC_TICKET" /\ 14 \in DOMAIN ConfigFlags
  BY SMTT(60) DEF ConfigFlags, Ticket, Flag
<1>3. {"OATH_HOTP", "CHAL_RESP", "CHAL_YUBICO", "CHAL_HMAC", "STATIC_TICKET"}
         \subseteq DOMAIN FlagNamed
  BY <1>1, <1>2 DEF FlagNamed, Flags, ToSet
<1>4. ASSUME NEW name \in DOMAIN FlagNamed
      PROVE  FlagNamed[name] \in Flags /\ FlagNamed[name].name = name
  <2>1. \E f \in Flags : f.name = name
    BY <1>4 DEF FlagNamed
  <2>2. FlagNamed[name] = CHOOSE f \in Flags : f.name = name
    BY <1>4 DEF FlagNamed
  <2> QED
    BY <2>1, <2>2
<1> QED
  BY <1>3, <1>4, ModeRows

LEMMA NoMode ==
    ASSUME NEW d, 6 \notin d.tkt
    PROVE  ~HasNamed(d, "OATH_HOTP") /\ ~HasNamed(d, "CHAL_RESP")
BY NamedModes DEF ModeRow, TicketRow, ConfigRow, ConfigModes, HasNamed, IsSet

LEMMA HasMode ==
    ASSUME NEW d, ~HasNamed(d, "OATH_HOTP") PROVE 6 \notin d.tkt
BY NamedModes DEF ModeRow, TicketRow, ConfigRow, ConfigModes, HasNamed, IsSet

\* What a setter leaves of each word.
LEMMA PutFlags ==
    ASSUME NEW d, IsConfig(d), NEW f, Row(f), NEW state \in BOOLEAN, NEW word \in Words
    PROVE  Put(d, f, state)[word] \subseteq
               IF state /\ word = f.word THEN d[word] \cup f.bits ELSE d[word]
<1> DEFINE bits == IF state THEN d[f.word] \cup f.bits ELSE d[f.word] \ f.bits
<1>1. Put(d, f, state) = [d EXCEPT ![f.word] = bits]
  BY DEF Put
<1>2. Put(d, f, state)[word] = IF word = f.word THEN bits ELSE d[word]
  <2> HIDE DEF bits
  <2> QED
    BY <1>1 DEF IsConfig, Fields, Words, Row
<1> QED
  BY <1>2

-----------------------------------------------------------------------------
(* What the setters and an import add.                                     *)

\* The bits of a set of flags in a word.
Bits(S, word) == UNION {f.bits : f \in {g \in S : g.word = word}}

\* d has the flags of e, and those of S.
Adds(d, e, S) ==
    /\ IsConfig(d) /\ IsConfig(e) /\ d.version = e.version
    /\ \A word \in Words : d[word] = e[word] \cup Bits(S, word)

LEMMA AddsTwice ==
    ASSUME NEW d, NEW e, NEW f, NEW S, NEW T, Adds(d, e, S), Adds(e, f, T)
    PROVE  Adds(d, f, S \cup T)
<1>1. \A word : Bits(S \cup T, word) = Bits(S, word) \cup Bits(T, word)
  BY DEF Bits
<1> QED
  BY <1>1 DEF Adds

LEMMA SetNamedAdds ==
    ASSUME NEW d, IsConfig(d), NEW name \in DOMAIN FlagNamed
    PROVE  Adds(SetNamed(d, name), d,
                IF CanSet(d, FlagNamed[name]) THEN {FlagNamed[name]} ELSE {})
<1> DEFINE f == FlagNamed[name]
<1>1. Row(f)
  BY NamedRows
<1>2. CASE CanSet(d, f)
  <2>1. SetNamed(d, name) = [d EXCEPT ![f.word] = d[f.word] \cup f.bits]
    BY <1>2 DEF SetNamed, SetIfCan, Put
  <2>2. IsConfig(SetNamed(d, name)) /\ SetNamed(d, name).version = d.version
    BY SetNamedKeeps DEF Keeps
  <2>3. ASSUME NEW word \in Words PROVE Bits({f}, word) = IF word = f.word THEN f.bits ELSE {}
    BY DEF Bits
  <2> HIDE DEF f
  <2>4. ASSUME NEW word \in Words
        PROVE  SetNamed(d, name)[word] = d[word] \cup Bits({f}, word)
    BY <1>1, <2>1, <2>3 DEF IsConfig, Fields, Words, Row
  <2> QED
    BY <1>2, <2>2, <2>4 DEF Adds, f
<1>3. CASE ~CanSet(d, f)
  <2>1. SetNamed(d, name) = d /\ \A word : Bits({}, word) = {}
    BY <1>3 DEF SetNamed, SetIfCan, Bits
  <2> QED
    BY <1>3, <2>1 DEF Adds
<1> QED
  BY <1>2, <1>3

\* The options of a file that a configuration takes.
TakenOf(d, file) == {g \in Flags \cap file.options : /\ g.json /\ file.mode \in g.modes
                                                    /\ CanSet(d, g)}

LEMMA TakeOptionsAdds ==
    ASSUME NEW d, IsConfig(d), NEW file
    PROVE  /\ Adds(TakeOptions(d, file), d, TakenOf(d, file))
           /\ TakeOptions(d, file).command = d.command
           /\ TakeOptions(d, file).imf = d.imf
<1> DEFINE t == Taken(d, file, "tkt")
           g == Taken(d, file, "cfg")
           x == Taken(d, file, "ext")
<1>1. \A word \in Words : Taken(d, file, word) = Bits(TakenOf(d, file), word)
  BY DEF Taken, Bits, TakenOf
<1>2. TakeOptions(d, file) = [[[d EXCEPT !.tkt = d.tkt \cup t]
                                  EXCEPT !.cfg = d.cfg \cup g] EXCEPT !.ext = d.ext \cup x]
  BY DEF TakeOptions, IsConfig, Fields
<1> HIDE DEF t, g, x
<1>3. TakeOptions(d, file) = [tkt |-> d.tkt \cup t, cfg |-> d.cfg \cup g, ext |-> d.ext \cup x,
                              imf |-> d.imf, command |-> d.command, version |-> d.version]
  BY <1>2 DEF IsConfig, Fields
<1>4. \A word \in Words : TakeOptions(d, file)[word] = d[word] \cup Bits(TakenOf(d, file), word)
  BY <1>1, <1>3 DEF Words, t, g, x
<1>5. IsConfig(TakeOptions(d, file)) /\ TakeOptions(d, file).version = d.version
  BY <1>3 DEF IsConfig, Fields
<1>6. TakeOptions(d, file).command = d.command /\ TakeOptions(d, file).imf = d.imf
  BY <1>3
<1> QED
  BY <1>4, <1>5, <1>6 DEF Adds

\* d and e are configurations for the same key, with the same flags.
Matches(d, e) == Adds(d, e, {})

LEMMA MatchesIs ==
    ASSUME NEW d, NEW e
    PROVE  Matches(d, e) <=> /\ IsConfig(d) /\ IsConfig(e) /\ d.version = e.version
                           /\ \A word \in Words : d[word] = e[word]
<1>1. \A word : Bits({}, word) = {}
  BY DEF Bits
<1> QED
  BY <1>1 DEF Matches, Adds

LEMMA AddedMatches ==
    ASSUME NEW d, NEW e, NEW f, NEW g, NEW S, Adds(f, d, S), Adds(g, e, S), Matches(d, e)
    PROVE  Matches(f, g)
BY MatchesIs DEF Adds

LEMMA SetNamedMatches ==
    ASSUME NEW d, NEW e, Matches(d, e), NEW name \in DOMAIN FlagNamed
    PROVE  Matches(SetNamed(d, name), SetNamed(e, name))
<1> DEFINE S == IF CanSet(d, FlagNamed[name]) THEN {FlagNamed[name]} ELSE {}
<1>1. S = IF CanSet(e, FlagNamed[name]) THEN {FlagNamed[name]} ELSE {}
  BY MatchesIs DEF CanSet
<1>2. Adds(SetNamed(d, name), d, S) /\ Adds(SetNamed(e, name), e, S)
  BY <1>1, SetNamedAdds, MatchesIs
<1> HIDE DEF S
<1> QED
  BY <1>2, AddedMatches

LEMMA SetImfMatches ==
    ASSUME NEW d, IsConfig(d), NEW seed PROVE Matches(SetImf(d, seed), d)
<1>1. \A word \in Words : SetImf(d, seed)[word] = d[word]
  BY DEF SetImf, IsConfig, Fields, Words
<1> QED
  BY <1>1, SetImfKeeps, MatchesIs DEF Keeps

LEMMA MatchesTrans ==
    ASSUME NEW d, NEW e, NEW f, Matches(d, e), Matches(e, f) PROVE Matches(d, f)
BY MatchesIs

LEMMA MatchesSym == ASSUME NEW d, NEW e, Matches(d, e) PROVE Matches(e, d)
BY MatchesIs

LEMMA TakeOptionsMatches ==
    ASSUME NEW d, NEW e, Matches(d, e), NEW file
    PROVE  Matches(TakeOptions(d, file), TakeOptions(e, file))
<1>1. TakenOf(d, file) = TakenOf(e, file)
  BY MatchesIs DEF TakenOf, CanSet
<1> QED
  BY <1>1, MatchesIs, TakeOptionsAdds, AddedMatches

\* The flags of OATH_HOTP8, which NamedModes leaves out.
LEMMA Hotp8 == "OATH_HOTP8" \in DOMAIN FlagNamed
<1>1. ConfigFlags[5].name = "OATH_HOTP8" /\ 5 \in DOMAIN ConfigFlags
  BY SMTT(60) DEF ConfigFlags, Ticket, Flag
<1> QED
  BY <1>1 DEF FlagNamed, Flags, ToSet

LEMMA EnterModeMatches ==
    ASSUME NEW d, NEW e, Matches(d, e), NEW file \in Saves
    PROVE  Matches(EnterMode(d, file), EnterMode(e, file))
<1>1. CASE file.mode = "OATH_HOTP"
  <2> DEFINE a == SetNamed(d, "OATH_HOTP")
             b == SetNamed(e, "OATH_HOTP")
             f == IF file.digits = 8 THEN SetNamed(a, "OATH_HOTP8") ELSE a
             g == IF file.digits = 8 THEN SetNamed(b, "OATH_HOTP8") ELSE b
  <2>1. Matches(a, b)
    BY NamedModes, SetNamedMatches
  <2>2. Matches(f, g)
    <3> HIDE DEF a, b
    <3> QED
      BY <2>1, Hotp8, SetNamedMatches
  <2>3. /\ EnterMode(d, file) = IF file.random THEN f ELSE SetImf(f, file.seed)
        /\ EnterMode(e, file) = IF file.random THEN g ELSE SetImf(g, file.seed)
    BY <1>1 DEF EnterMode
  <2> HIDE DEF f, g
  <2>4. Matches(SetImf(f, file.seed), f) /\ Matches(SetImf(g, file.seed), g)
    BY <2>2, MatchesIs, SetImfMatches
  <2>5. Matches(SetImf(f, file.seed), SetImf(g, file.seed))
    <3>1. Matches(SetImf(f, file.seed), g) /\ Matches(g, SetImf(g, file.seed))
      BY <2>2, <2>4, MatchesTrans, MatchesSym
    <3> QED
      BY <3>1, MatchesTrans
  <2> QED
    BY <2>2, <2>3, <2>5
<1>2. CASE file.mode \in ChalResp
  <2>1. Matches(SetNamed(d, "CHAL_RESP"), SetNamed(e, "CHAL_RESP"))
    BY NamedModes, SetNamedMatches
  <2>2. \A name \in ChalResp : Matches(SetNamed(SetNamed(d, "CHAL_RESP"), name),
                                    SetNamed(SetNamed(e, "CHAL_RESP"), name))
    BY <2>1, NamedModes, SetNamedMatches DEF ChalResp
  <2> QED
    BY <1>2, <2>2 DEF EnterMode, ChalResp
<1>3. CASE file.mode = "STATIC_TICKET"
  BY <1>3, NamedModes, SetNamedMatches DEF EnterMode
<1>4. CASE file.mode = "OTP_YUBICO"
  BY <1>4 DEF EnterMode
<1> QED
  BY <1>1, <1>2, <1>3, <1>4 DEF Saves, Modes, ChalResp

LEMMA ImportTargetMatches ==
    ASSUME NEW d, IsConfig(d), NEW file
    PROVE  /\ Matches(ImportTarget(d, file), d) /\ ImportTarget(d, file).imf = d.imf
           /\ ImportTarget(d, file).command \in {d.command, file.target}
           /\ d.command # "none" => ImportTarget(d, file).command = d.command
<1> DEFINE e == ImportTarget(d, file)
<1>1. e = d \/ (d.command = "none" /\ e = [d EXCEPT !.command = file.target])
  BY DEF ImportTarget
<1> HIDE DEF e
<1>2. /\ IsConfig(e) /\ e.version = d.version /\ e.imf = d.imf
      /\ e.command \in {d.command, file.target}
      /\ d.command # "none" => e.command = d.command
      /\ \A word \in Words : e[word] = d[word]
  BY <1>1 DEF IsConfig, Fields, Words
<1> QED
  BY <1>2, MatchesIs DEF e

\* A configuration that was refused for the target, or for a random seed.
WrongTarget(d, file) == file.target # "none" /\ d.command \notin {"none", file.target}
RandomSeed(file) == file.mode = "OATH_HOTP" /\ file.random

LEMMA ImportIs ==
    ASSUME NEW d, NEW file
    PROVE  LET e == EnterMode(ImportTarget(d, file), file) IN
           /\ ImportJson(d, file).ok <=> ~WrongTarget(d, file) /\ ~RandomSeed(file)
           /\ ImportJson(d, file).c = IF WrongTarget(d, file) THEN d
                                      ELSE IF RandomSeed(file) THEN e ELSE TakeOptions(e, file)
BY DEF ImportJson, WrongTarget, RandomSeed

LEMMA EnterModeKeeps ==
    ASSUME NEW d, IsConfig(d), NEW file \in Saves PROVE Keeps(EnterMode(d, file), d)
<1> DEFINE a == SetNamed(d, "OATH_HOTP")
           b == IF file.digits = 8 THEN SetNamed(a, "OATH_HOTP8") ELSE a
           r == SetNamed(d, "CHAL_RESP")
<1>1. Keeps(a, d) /\ Keeps(r, d) /\ Keeps(SetNamed(d, "STATIC_TICKET"), d) /\ Keeps(d, d)
  BY NamedModes, SetNamedKeeps DEF Keeps
<1>2. Keeps(b, d) /\ \A name \in ChalResp : Keeps(SetNamed(r, name), d)
  <2> HIDE DEF a, r
  <2>1. Keeps(b, d)
    BY <1>1, Hotp8, SetNamedKeeps DEF Keeps
  <2>2. \A name \in ChalResp : Keeps(SetNamed(r, name), d)
    <3>1. IsConfig(r)
      BY <1>1 DEF Keeps
    <3>2. \A name \in ChalResp : Keeps(SetNamed(r, name), r)
      BY <3>1, NamedModes, SetNamedKeeps DEF ChalResp
    <3> HIDE DEF b
    <3> QED
      BY <1>1, <3>2 DEF Keeps
  <2> QED
    BY <2>1, <2>2
<1>3. Keeps(SetImf(b, file.seed), d)
  <2> HIDE DEF b
  <2> QED
    BY <1>2, SetImfKeeps DEF Keeps
<1>4. CASE file.mode = "OATH_HOTP"
  <2>1. EnterMode(d, file) = IF file.random THEN b ELSE SetImf(b, file.seed)
    BY <1>4 DEF EnterMode
  <2> QED
    BY <1>2, <1>3, <2>1
<1>5. CASE file.mode \in ChalResp
  BY <1>2, <1>5 DEF EnterMode, ChalResp
<1>6. CASE file.mode \in {"STATIC_TICKET", "OTP_YUBICO"}
  BY <1>1, <1>6 DEF EnterMode
<1> QED
  BY <1>4, <1>5, <1>6 DEF Saves, Modes, ChalResp

\* What an import leaves of the rest.
LEMMA ImportKeeps ==
    ASSUME NEW d, IsConfig(d), NEW file \in Saves
    PROVE  LET r == ImportJson(d, file).c IN
           /\ IsConfig(r) /\ r.version = d.version
           /\ r.command \in {d.command, file.target}
<1> DEFINE t == ImportTarget(d, file)
           e == EnterMode(t, file)
<1>1. /\ IsConfig(t) /\ t.version = d.version /\ t.command \in {d.command, file.target}
  BY ImportTargetMatches, MatchesIs
<1>2. Keeps(e, t)
  <2> HIDE DEF t
  <2> QED
    BY <1>1, EnterModeKeeps
<1>3. /\ IsConfig(TakeOptions(e, file)) /\ TakeOptions(e, file).version = e.version
      /\ TakeOptions(e, file).command = e.command
  <2> HIDE DEF e
  <2> QED
    BY <1>2, TakeOptionsAdds DEF Adds, Keeps
<1>4. ImportJson(d, file).c \in {d, e, TakeOptions(e, file)}
  BY ImportIs
<1> HIDE DEF t, e
<1> QED
  BY <1>1, <1>2, <1>3, <1>4 DEF Keeps

\* Imports of a file into configurations with the same flags leave the same flags.
LEMMA ImportMatches ==
    ASSUME NEW d, NEW e, Matches(d, e), NEW file \in Saves,
           ImportJson(d, file).ok, ImportJson(e, file).ok
    PROVE  Matches(ImportJson(d, file).c, ImportJson(e, file).c)
<1> DEFINE t == ImportTarget(d, file)
           u == ImportTarget(e, file)
<1>1. Matches(t, u)
  <2>1. Matches(t, d) /\ Matches(u, e)
    BY MatchesIs, ImportTargetMatches
  <2> HIDE DEF t, u
  <2>2. Matches(t, e) /\ Matches(e, u)
    BY <2>1, MatchesTrans, MatchesSym
  <2> QED
    BY <2>2, MatchesTrans
<1>2. Matches(TakeOptions(EnterMode(t, file), file), TakeOptions(EnterMode(u, file), file))
  <2> HIDE DEF t, u
  <2> QED
    BY <1>1, EnterModeMatches, TakeOptionsMatches
<1> QED
  BY <1>2, ImportIs

LEMMA ClearedMatches ==
    ASSUME NEW d, NEW e, IsConfig(d), IsConfig(e), d.version = e.version
    PROVE  Matches(ClearConfig(d), ClearConfig(e))
<1>1. ASSUME NEW f, IsConfig(f), NEW word \in Words PROVE ClearConfig(f)[word] = {}
  <2>1. ClearConfig(f) = [[[f EXCEPT !.tkt = {}] EXCEPT !.cfg = {}] EXCEPT !.ext = {}]
    BY DEF ClearConfig
  <2>2. ClearConfig(f) = [tkt |-> {}, cfg |-> {}, ext |-> {}, imf |-> f.imf,
                          command |-> f.command, version |-> f.version]
    BY <1>1, <2>1 DEF IsConfig, Fields
  <2> QED
    BY <2>2 DEF Words
<1> QED
  BY <1>1, ClearKeeps, MatchesIs DEF Keeps

\* Importing a file again, into what the first import left, leaves the same flags.
LEMMA ImportAgain ==
    ASSUME NEW d, IsConfig(d), NEW file \in Saves, ImportJson(ClearConfig(d), file).ok,
           NEW r, r = ImportJson(ClearConfig(d), file).c
    PROVE  IsConfig(r) /\ Matches(ImportJson(ClearConfig(r), file).c, r)
<1> DEFINE cleared == ClearConfig(d)
<1>1. IsConfig(cleared) /\ cleared.version = d.version
  BY ClearKeeps DEF Keeps
<1>2. /\ IsConfig(r) /\ r.version = d.version /\ r.command \in {cleared.command, file.target}
  <2> HIDE DEF cleared
  <2>1. r = ImportJson(cleared, file).c
    BY DEF cleared
  <2> QED
    BY <1>1, <2>1, ImportKeeps
<1>3. ImportJson(ClearConfig(r), file).ok
  <2>1. ClearConfig(r).command = r.command
    BY <1>2, ClearKeeps DEF Keeps
  <2>2. ~WrongTarget(cleared, file) /\ ~RandomSeed(file)
    BY ImportIs
  <2> QED
    BY <1>2, <2>1, <2>2, ImportIs DEF WrongTarget
<1>4. Matches(ClearConfig(r), cleared)
  BY <1>2, ClearedMatches
<1> QED
  BY <1>2, <1>3, <1>4, ImportMatches

LEMMA ModeBits ==
    ASSUME NEW d
    PROVE  /\ HasNamed(d, "OATH_HOTP") <=> 6 \in d.tkt
           /\ HasNamed(d, "CHAL_RESP") <=> 6 \in d.tkt
           /\ HasNamed(d, "CHAL_YUBICO") <=> 5 \in d.cfg
           /\ HasNamed(d, "CHAL_HMAC") <=> {1, 5} \subseteq d.cfg
           /\ HasNamed(d, "STATIC_TICKET") <=> 5 \in d.cfg
BY NamedModes DEF ModeRow, TicketRow, ConfigRow, ConfigModes, HasNamed, IsSet

LEMMA KeyLengthIs ==
    \A d : KeyLength(d) = IF 6 \in d.tkt /\ ({1, 5} \subseteq d.cfg \/ 5 \notin d.cfg)
                          THEN 20 ELSE 16
BY ModeBits DEF KeyLength

\* 20 bytes are the key of OATH-HOTP and of challenge-response by HMAC, and of no
\* other mode: ykp_get_supported_key_length and the exports look at different flags,
\* which share bits, and agree on every configuration (KeyFitsMode).
THEOREM KeyLengthIsOfMode ==
    \A d : KeyLength(d) = 20 <=> ModeOf(d) \in {"OATH_HOTP", "CHAL_HMAC"}
<1> SUFFICES ASSUME NEW d
             PROVE  KeyLength(d) = 20 <=> ModeOf(d) \in {"OATH_HOTP", "CHAL_HMAC"}
  OBVIOUS
<1>1. ModeOf(d) \in {"OATH_HOTP", "CHAL_HMAC"} <=>
          6 \in d.tkt /\ ({1, 5} \subseteq d.cfg \/ 5 \notin d.cfg)
  BY ModeBits DEF ModeOf
<1> QED
  BY <1>1, KeyLengthIs
=============================================================================
