------------------------ MODULE ConfigSessionProofs -------------------------
(***************************************************************************)
(* ConfigSession for all firmwares, flags, seeds and files.  What is saved *)
(* can be loaded again: a file has the flags of the mode and the options,  *)
(* all of which are in the configuration that was saved, so that a loaded  *)
(* one has no bit more than it, and all that make its mode.                *)
(***************************************************************************)
EXTENDS ConfigSession, KeyConfigProofs, SequenceTheorems

\* Only a firmware that has a moving factor has one.
FactorFits(d) == /\ d.imf \in Nat
                 /\ d.imf # 0 => Has(d.version, "oath_imf")

ConfigInv == IsConfig(c) /\ FactorFits(c)

LEMMA SetImfFits ==
    ASSUME NEW d, IsConfig(d), FactorFits(d), NEW seed \in Nat
    PROVE  FactorFits(SetImf(d, seed))
<1>1. seed \div 16 \in Nat
  OBVIOUS
<1> DEFINE imf == seed \div 16
<1>2. SetImf(d, seed) = d \/ (Has(d.version, "oath_imf") /\ SetImf(d, seed) = [d EXCEPT !.imf = imf])
  BY DEF SetImf
<1> HIDE DEF imf
<1>3. CASE Has(d.version, "oath_imf") /\ SetImf(d, seed) = [d EXCEPT !.imf = imf]
  <2>1. SetImf(d, seed).imf = imf /\ SetImf(d, seed).version = d.version
    BY <1>3 DEF IsConfig, Fields
  <2> QED
    BY <1>1, <1>3, <2>1 DEF FactorFits, imf
<1> QED
  BY <1>2, <1>3

\* Two configurations for the same key with the same moving factor.
LEMMA SameFits ==
    ASSUME NEW d, NEW e, FactorFits(e), d.imf = e.imf, d.version = e.version
    PROVE  FactorFits(d)
BY DEF FactorFits

LEMMA SetNamedImf ==
    ASSUME NEW d, IsConfig(d), NEW name \in DOMAIN FlagNamed
    PROVE  SetNamed(d, name).imf = d.imf
BY NamedRows, PutImf DEF SetNamed, SetIfCan

LEMMA EnterModeFits ==
    ASSUME NEW d, IsConfig(d), FactorFits(d), NEW file \in Saves
    PROVE  FactorFits(EnterMode(d, file))
<1> DEFINE a == SetNamed(d, "OATH_HOTP")
           b == IF file.digits = 8 THEN SetNamed(a, "OATH_HOTP8") ELSE a
           r == SetNamed(d, "CHAL_RESP")
           Like(e) == IsConfig(e) /\ FactorFits(e)
<1>1. ASSUME NEW e, Like(e), NEW name \in DOMAIN FlagNamed PROVE Like(SetNamed(e, name))
  BY <1>1, SetNamedKeeps, SetNamedImf, SameFits DEF Keeps
<1>2. Like(a) /\ Like(r) /\ FactorFits(SetNamed(d, "STATIC_TICKET"))
  <2>1. Like(d)
    OBVIOUS
  <2> HIDE DEF Like
  <2>2. Like(a) /\ Like(r) /\ Like(SetNamed(d, "STATIC_TICKET"))
    BY <1>1, <2>1, NamedModes
  <2> QED
    BY <2>2 DEF Like
<1>3. Like(b) /\ \A name \in ChalResp : Like(SetNamed(r, name))
  <2> HIDE DEF a, r, Like
  <2> QED
    BY <1>1, <1>2, NamedModes, Hotp8 DEF ChalResp
<1>4. FactorFits(SetImf(b, file.seed))
  <2>1. file.seed \in Nat
    BY DEF Saves
  <2> HIDE DEF b
  <2> QED
    BY <1>3, <2>1, SetImfFits
<1>5. CASE file.mode = "OATH_HOTP"
  <2>1. EnterMode(d, file) = IF file.random THEN b ELSE SetImf(b, file.seed)
    BY <1>5 DEF EnterMode
  <2> HIDE DEF b
  <2> QED
    BY <1>3, <1>4, <2>1
<1>6. CASE file.mode \in ChalResp
  BY <1>3, <1>6 DEF EnterMode, ChalResp
<1>7. CASE file.mode \in {"STATIC_TICKET", "OTP_YUBICO"}
  BY <1>2, <1>7 DEF EnterMode
<1> QED
  BY <1>5, <1>6, <1>7 DEF Saves, Modes, ChalResp

LEMMA ImportFits ==
    ASSUME NEW d, IsConfig(d), FactorFits(d), NEW file \in Saves
    PROVE  FactorFits(ImportJson(d, file).c)
<1> DEFINE t == ImportTarget(d, file)
           e == EnterMode(t, file)
<1>1. IsConfig(t) /\ FactorFits(t)
  BY ImportTargetMatches, MatchesIs, SameFits
<1>2. IsConfig(e) /\ FactorFits(e)
  <2> HIDE DEF t
  <2> QED
    BY <1>1, EnterModeFits, EnterModeKeeps DEF Keeps
<1>3. FactorFits(TakeOptions(e, file))
  <2> HIDE DEF e
  <2>1. TakeOptions(e, file).imf = e.imf /\ TakeOptions(e, file).version = e.version
    BY <1>2, TakeOptionsAdds DEF Adds
  <2> QED
    BY <1>2, <2>1, SameFits
<1> QED
  BY <1>2, <1>3, ImportIs

LEMMA InitConfig == Init => ConfigInv
BY DEF Init, EmptyConfig, ConfigInv, FactorFits, IsConfig, Fields

LEMMA ConfigureForStep == ASSUME ConfigInv, NEW n \in {1, 2}, ConfigureFor(n) PROVE ConfigInv'
<1> DEFINE flags == DefaultFlags(n)
           command == IF Supported(c.version, IF n = 1 THEN "CONFIG" ELSE "CONFIG2")
                      THEN IF n = 1 THEN "CONFIG" ELSE "CONFIG2" ELSE c.command
<1>1. c' = [[[[[c EXCEPT !.tkt = flags.tkt] EXCEPT !.cfg = flags.cfg] EXCEPT !.ext = flags.ext]
              EXCEPT !.imf = 0] EXCEPT !.command = command]
  BY DEF ConfigureFor, ConfigInv, IsConfig, Fields
<1> HIDE DEF flags, command
<1>2. c' = [tkt |-> flags.tkt, cfg |-> flags.cfg, ext |-> flags.ext, imf |-> 0,
            command |-> command, version |-> c.version]
  BY <1>1 DEF ConfigInv, IsConfig, Fields
<1> QED
  BY <1>2 DEF ConfigInv, IsConfig, Fields, FactorFits

LEMMA StepConfig == ConfigInv /\ [Next]_c => ConfigInv'
<1> SUFFICES ASSUME ConfigInv, [Next]_c PROVE ConfigInv'
  OBVIOUS
<1>1. CASE c' = c
  BY <1>1 DEF ConfigInv
<1>2. ASSUME NEW command \in Targets, ConfigureCommand(command) PROVE ConfigInv'
  BY <1>2 DEF ConfigureCommand, ConfigInv, IsConfig, Fields, FactorFits
<1>3. ASSUME NEW name \in Names, NEW state \in BOOLEAN, SetFlag(name, state) PROVE ConfigInv'
  <2>1. name \in DOMAIN FlagNamed
    BY NamesAssumption DEF FlagNamed
  <2>2. Keeps(c', c) /\ c'.imf = c.imf
    BY <1>3, <2>1, NamedRows, PutKeeps, PutImf DEF SetFlag, ConfigInv
  <2> QED
    BY <2>2, SameFits DEF ConfigInv, Keeps
<1>4. ASSUME NEW seed \in Imfs, SetOathImf(seed) PROVE ConfigInv'
  BY <1>4, NamesAssumption, SetImfKeeps, SetImfFits DEF SetOathImf, ConfigInv, Keeps
<1>5. CASE Clear
  <2>1. Keeps(c', c) /\ c'.imf = c.imf
    BY <1>5, ClearKeeps, ClearImf DEF Clear, ConfigInv
  <2> QED
    BY <2>1, SameFits DEF ConfigInv, Keeps
<1>6. ASSUME NEW file \in Files, Import(file) PROVE ConfigInv'
  BY <1>6, NamesAssumption, ImportKeeps, ImportFits DEF Import, ConfigInv
<1> QED
  BY <1>1, <1>2, <1>3, <1>4, <1>5, <1>6, ConfigureForStep DEF Next

LEMMA ConfigHolds == Spec => []ConfigInv
BY InitConfig, StepConfig, PTL DEF Spec

\* In whatever order an application calls the setters, the length of the key and the
\* mode, which different functions work out from shared bits, agree.
THEOREM KeyAlwaysFits == Spec => []KeyFitsMode
<1>1. KeyFitsMode
  BY KeyLengthIsOfMode DEF KeyFitsMode
<1> QED
  BY <1>1, PTL

-----------------------------------------------------------------------------
(* What is saved can be loaded.                                            *)

LEMMA Exported ==
    ASSUME ConfigInv
    PROVE  LET file == ExportJson(c) IN
           /\ file \in Saves
           /\ file.mode = ModeOf(c) /\ file.options = Options(c)
           /\ file.digits = 8 <=> HasNamed(c, "OATH_HOTP8")
           /\ file.random <=> c.imf \notin {0, 1}
           /\ ~file.random => file.seed = 16 * c.imf
           /\ file.target = IF c.command \in {"CONFIG", "CONFIG2"} THEN c.command ELSE "none"
<1> DEFINE file == ExportJson(c)
           mode == ModeOf(c)
           options == Options(c)
           digits == IF HasNamed(c, "OATH_HOTP8") THEN 8 ELSE 6
           random == c.imf \notin {0, 1}
           seed == IF c.imf \in {0, 1} THEN 16 * c.imf ELSE 0
           target == IF c.command \in {"CONFIG", "CONFIG2"} THEN c.command ELSE "none"
<1>1. mode \in Modes
  BY DEF ModeOf, Modes
<1>2. options \in SUBSET Flags
  BY DEF Options
<1>3. digits \in Int /\ random \in BOOLEAN /\ seed \in Nat
      /\ target \in {"none", "CONFIG", "CONFIG2"}
  OBVIOUS
<1>4. file = [mode |-> mode, target |-> target, options |-> options, digits |-> digits,
              random |-> random, seed |-> seed]
  BY DEF ExportJson
<1>5. (digits = 8 <=> HasNamed(c, "OATH_HOTP8")) /\ (~random => seed = 16 * c.imf)
  OBVIOUS
<1>6. random <=> c.imf \notin {0, 1}
  OBVIOUS
<1> HIDE DEF file, mode, options, digits, random, seed
<1>7. file \in Saves
  BY <1>1, <1>2, <1>3, <1>4 DEF Saves
<1>8. /\ file.mode = mode /\ file.options = options /\ file.digits = digits
      /\ file.random = random /\ file.seed = seed /\ file.target = target
  BY <1>4
<1> QED
  BY <1>5, <1>6, <1>7, <1>8 DEF file, mode, options

\* The configuration that is loaded into.
Fresh == EmptyConfig(c.version, c.command)

LEMMA FreshIs ==
    /\ IsConfig(Fresh) /\ Fresh.version = c.version /\ Fresh.command = c.command
    /\ Fresh.imf = 0 /\ \A word \in Words : Fresh[word] = {}
BY DEF Fresh, EmptyConfig, IsConfig, Fields, Words

\* The target of the file is the command that is there already.
LEMMA TargetFits ==
    ASSUME ConfigInv
    PROVE  /\ ImportTarget(Fresh, ExportJson(c)) = Fresh
           /\ ~WrongTarget(Fresh, ExportJson(c))
<1>1. ~Supported(c.version, "none")
  BY DEF Supported
<1>2. c.command = "none" => ExportJson(c).target = "none"
  BY Exported
<1> QED
  BY <1>1, <1>2, Exported, FreshIs DEF ImportTarget, WrongTarget

Legal == \A f \in Options(c) \cup ModeFlags(c) : CanSet(c, f)

\* Entering the mode sets its flags, and the moving factor that was saved.
LEMMA Entered ==
    ASSUME ConfigInv, Legal, ~RandomSeed(ExportJson(c)),
           NEW e, e = EnterMode(Fresh, ExportJson(c))
    PROVE  /\ Adds(e, Fresh, ModeFlags(c)) /\ e.command = c.command
           /\ ModeOf(c) = "OATH_HOTP" => e.imf = c.imf
<1> DEFINE file == ExportJson(c)
<1>1. Keeps(e, Fresh)
  BY Exported, FreshIs, EnterModeKeeps
<1>2. ASSUME NEW d, IsConfig(d), d.version = c.version, NEW name \in DOMAIN FlagNamed,
             FlagNamed[name] \in ModeFlags(c)
      PROVE  Adds(SetNamed(d, name), d, {FlagNamed[name]})
  BY <1>2, SetNamedAdds DEF Legal, CanSet
<1>3. Adds(e, Fresh, ModeFlags(c)) /\ (ModeOf(c) = "OATH_HOTP" => e.imf = c.imf)
  <2>1. CASE ModeOf(c) = "OATH_HOTP"
    <3> DEFINE a == SetNamed(Fresh, "OATH_HOTP")
               b == SetNamed(a, "OATH_HOTP8")
               g == IF file.digits = 8 THEN b ELSE a
    <3>1. ModeFlags(c) = {FlagNamed["OATH_HOTP"]}
             \cup (IF file.digits = 8 THEN {FlagNamed["OATH_HOTP8"]} ELSE {})
      BY <2>1, Exported DEF ModeFlags, ChalResp
    <3>2. Adds(a, Fresh, {FlagNamed["OATH_HOTP"]}) /\ a.imf = 0
      BY <1>2, <3>1, FreshIs, NamedModes, SetNamedImf
    <3>3. file.digits = 8 => Adds(b, a, {FlagNamed["OATH_HOTP8"]}) /\ b.imf = 0
      <4> HIDE DEF a
      <4> QED
        BY <1>2, <3>1, <3>2, Hotp8, FreshIs, SetNamedImf DEF Adds
    <3>4. Adds(g, Fresh, ModeFlags(c)) /\ g.imf = 0
      <4> HIDE DEF a, b
      <4>1. file.digits = 8 =>
               Adds(b, Fresh, {FlagNamed["OATH_HOTP8"]} \cup {FlagNamed["OATH_HOTP"]})
        BY <3>2, <3>3, AddsTwice
      <4>2. {FlagNamed["OATH_HOTP8"]} \cup {FlagNamed["OATH_HOTP"]}
                = {FlagNamed["OATH_HOTP"]} \cup {FlagNamed["OATH_HOTP8"]}
        OBVIOUS
      <4>3. {FlagNamed["OATH_HOTP"]} \cup {} = {FlagNamed["OATH_HOTP"]}
        OBVIOUS
      <4> QED
        BY <3>1, <3>2, <3>3, <4>1, <4>2, <4>3
    <3>5. file.mode = "OATH_HOTP" /\ ~file.random /\ file.seed = 16 * c.imf /\ c.imf \in {0, 1}
      BY <2>1, Exported DEF RandomSeed
    <3>6. e = SetImf(g, file.seed)
      BY <3>5 DEF EnterMode
    <3> HIDE DEF g, file
    <3>7. Matches(e, g)
      BY <3>4, <3>6, SetImfMatches DEF Adds
    <3>8. Adds(e, Fresh, {} \cup ModeFlags(c))
      BY <3>4, <3>7, AddsTwice DEF Matches
    <3>9. e.imf = c.imf
      <4>1. CASE c.imf = 0
        <5>1. file.seed = 0 /\ 0 \div 16 = 0
          BY <3>5, <4>1
        <5> QED
          BY <3>4, <3>6, <4>1, <5>1 DEF SetImf, Adds, IsConfig, Fields
      <4>2. CASE c.imf = 1
        <5>1. file.seed = 16 /\ 16 \div 16 = 1 /\ 16 <= 65535 * 16 /\ 16 % 16 = 0
          BY <3>5, <4>2
        <5>2. Has(g.version, "oath_imf")
          BY <3>4, <4>2, FreshIs DEF ConfigInv, FactorFits, Adds
        <5>3. e = [g EXCEPT !.imf = 1]
          BY <3>6, <5>1, <5>2 DEF SetImf
        <5> QED
          BY <3>4, <4>2, <5>3 DEF Adds, IsConfig, Fields
      <4> QED
        BY <3>5, <4>1, <4>2
    <3> QED
      BY <3>8, <3>9
  <2>2. CASE ModeOf(c) \in ChalResp
    <3> DEFINE a == SetNamed(Fresh, "CHAL_RESP")
               mode == ModeOf(c)
               b == SetNamed(a, mode)
    <3>1. ModeFlags(c) = {FlagNamed["CHAL_RESP"], FlagNamed[mode]}
      BY <2>2 DEF ModeFlags, ChalResp
    <3>2. Adds(a, Fresh, {FlagNamed["CHAL_RESP"]})
      BY <1>2, <3>1, FreshIs, NamedModes
    <3>3. Adds(b, a, {FlagNamed[mode]})
      <4>1. mode \in DOMAIN FlagNamed
        BY <2>2, NamedModes DEF ChalResp
      <4> HIDE DEF a, mode
      <4> QED
        BY <1>2, <3>1, <3>2, <4>1, FreshIs DEF Adds
    <3>4. Adds(b, Fresh, {FlagNamed[mode]} \cup {FlagNamed["CHAL_RESP"]})
      <4> HIDE DEF a, b, mode
      <4> QED
        BY <3>2, <3>3, AddsTwice
    <3>5. {FlagNamed[mode]} \cup {FlagNamed["CHAL_RESP"]} = ModeFlags(c)
      BY <3>1
    <3>6. e = b
      BY <2>2, Exported DEF EnterMode, ChalResp
    <3> QED
      BY <2>2, <3>4, <3>5, <3>6 DEF ChalResp
  <2>3. CASE ModeOf(c) = "STATIC_TICKET"
    <3>1. ModeFlags(c) = {FlagNamed["STATIC_TICKET"]}
      BY <2>3 DEF ModeFlags, ChalResp
    <3>2. e = SetNamed(Fresh, "STATIC_TICKET")
      BY <2>3, Exported DEF EnterMode
    <3> QED
      BY <1>2, <2>3, <3>1, <3>2, FreshIs, NamedModes
  <2>4. CASE ModeOf(c) = "OTP_YUBICO"
    <3>1. ModeFlags(c) = {} /\ e = Fresh
      BY <2>4, Exported DEF ModeFlags, ChalResp, EnterMode
    <3>2. \A word : Bits({}, word) = {}
      BY DEF Bits
    <3> QED
      BY <2>4, <3>1, <3>2, FreshIs DEF Adds
  <2> QED
    BY <2>1, <2>2, <2>3, <2>4, Exported DEF Saves, Modes, ChalResp
<1> QED
  BY <1>1, <1>3, FreshIs DEF Keeps

\* Every flag of the mode and every option is set in the configuration that is saved.
LEMMA SavedAreSet ==
    \A f \in Options(c) \cup ModeFlags(c) : f \in Flags /\ Row(f) /\ IsSet(c, f)
<1>1. \A f \in Flags : Row(f)
  BY TicketRows, ConfigRows, ExtendedRows DEF Flags, ToSet
<1>2. \A f \in ModeFlags(c) : \E name \in DOMAIN FlagNamed : f = FlagNamed[name] /\ HasNamed(c, name)
  <2>1. CASE ModeOf(c) = "OATH_HOTP"
    BY <2>1, NamedModes, Hotp8 DEF ModeFlags, ChalResp, ModeOf
  <2>2. CASE ModeOf(c) \in ChalResp
    <3>1. HasNamed(c, "CHAL_RESP") /\ HasNamed(c, ModeOf(c))
      BY <2>2, ModeBits DEF ChalResp, ModeOf
    <3>2. ModeFlags(c) = {FlagNamed["CHAL_RESP"], FlagNamed[ModeOf(c)]}
      BY <2>2 DEF ModeFlags, ChalResp
    <3> QED
      BY <2>2, <3>1, <3>2, NamedModes DEF ChalResp
  <2>3. CASE ModeOf(c) \in {"STATIC_TICKET", "OTP_YUBICO"}
    BY <2>3, NamedModes DEF ModeFlags, ChalResp, ModeOf
  <2> QED
    BY <2>1, <2>2, <2>3 DEF ModeOf, ChalResp
<1>3. ASSUME NEW name \in DOMAIN FlagNamed PROVE FlagNamed[name] \in Flags
  <2>1. \E f \in Flags : f.name = name
    BY <1>3 DEF FlagNamed
  <2>2. FlagNamed[name] = CHOOSE f \in Flags : f.name = name
    BY <1>3 DEF FlagNamed
  <2> QED
    BY <2>1, <2>2
<1>4. \A f \in ModeFlags(c) : f \in Flags /\ IsSet(c, f)
  BY <1>2, <1>3 DEF HasNamed
<1>5. \A f \in Options(c) : f \in Flags /\ IsSet(c, f)
  BY DEF Options
<1> QED
  BY <1>1, <1>4, <1>5

\* What is loaded has the bits of the mode and of the options, which are all bits of
\* what was saved.
LEMMA Loaded ==
    ASSUME ConfigInv, Legal, ~RandomSeed(ExportJson(c)),
           NEW b, b = ImportJson(Fresh, ExportJson(c)).c
    PROVE  /\ b.tkt \subseteq c.tkt /\ b.cfg \subseteq c.cfg /\ b.ext \subseteq c.ext
           /\ \A f \in Options(c) \cup ModeFlags(c) : IsSet(b, f)
           /\ b.command = c.command
           /\ ModeOf(c) = "OATH_HOTP" => b.imf = c.imf
<1> DEFINE file == ExportJson(c)
           e == EnterMode(Fresh, file)
           F == Options(c) \cup ModeFlags(c)
<1>1. b = TakeOptions(e, file)
  BY TargetFits, ImportIs
<1>2. /\ Adds(e, Fresh, ModeFlags(c)) /\ e.command = c.command
      /\ ModeOf(c) = "OATH_HOTP" => e.imf = c.imf
  BY Entered
<1>3. TakenOf(e, file) = Options(c)
  <2> HIDE DEF e, file
  <2>1. e.version = c.version /\ file.options = Options(c) /\ file.mode = ModeOf(c)
    BY <1>2, FreshIs, Exported DEF Adds, file
  <2>2. \A f \in Options(c) : CanSet(e, f) /\ f \in Flags /\ f.json /\ ModeOf(c) \in f.modes
    BY <2>1 DEF Legal, CanSet, Options
  <2> QED
    BY <2>1, <2>2 DEF TakenOf
<1> HIDE DEF e, file
<1>4. Adds(b, e, Options(c)) /\ b.command = e.command /\ b.imf = e.imf
  BY <1>1, <1>2, <1>3, TakeOptionsAdds DEF Adds
<1>5. Adds(b, Fresh, F)
  BY <1>2, <1>4, AddsTwice
<1>6. \A f \in F : Row(f) /\ IsSet(c, f)
  BY SavedAreSet
<1> HIDE DEF F
<1>7. \A word \in Words : b[word] = Bits(F, word)
  BY <1>5, FreshIs DEF Adds
<1>8. \A word \in Words : b[word] \subseteq c[word]
  BY <1>6, <1>7 DEF Bits, IsSet
<1>9. \A f \in F : IsSet(b, f)
  BY <1>6, <1>7 DEF Bits, IsSet, Row, Words
<1> QED
  BY <1>2, <1>4, <1>8, <1>9 DEF Words, F

LEMMA LoadedMode ==
    ASSUME NEW b, b.tkt \subseteq c.tkt, b.cfg \subseteq c.cfg,
           \A f \in ModeFlags(c) : IsSet(b, f)
    PROVE  ModeOf(b) = ModeOf(c)
<1>1. CASE ModeOf(c) = "OATH_HOTP"
  <2>1. HasNamed(b, "OATH_HOTP")
    BY <1>1 DEF ModeFlags, ChalResp, HasNamed
  <2>2. 5 \notin c.cfg
    BY <1>1, ModeBits DEF ModeOf
  <2> QED
    BY <1>1, <2>1, <2>2, ModeBits DEF ModeOf
<1>2. CASE ModeOf(c) = "CHAL_HMAC"
  <2>1. HasNamed(b, "CHAL_RESP") /\ HasNamed(b, "CHAL_HMAC")
    BY <1>2 DEF ModeFlags, ChalResp, HasNamed
  <2> QED
    BY <1>2, <2>1, ModeBits DEF ModeOf
<1>3. CASE ModeOf(c) = "CHAL_YUBICO"
  <2>1. HasNamed(b, "CHAL_RESP") /\ HasNamed(b, "CHAL_YUBICO")
    BY <1>3 DEF ModeFlags, ChalResp, HasNamed
  <2>2. 1 \notin c.cfg
    BY <1>3, ModeBits DEF ModeOf
  <2> QED
    BY <1>3, <2>1, <2>2, ModeBits DEF ModeOf
<1>4. CASE ModeOf(c) = "STATIC_TICKET"
  <2>1. HasNamed(b, "STATIC_TICKET")
    BY <1>4 DEF ModeFlags, ChalResp, HasNamed
  <2>2. 6 \notin c.tkt
    BY <1>4, ModeBits DEF ModeOf
  <2> QED
    BY <1>4, <2>1, <2>2, ModeBits DEF ModeOf
<1>5. CASE ModeOf(c) = "OTP_YUBICO"
  <2>1. 6 \notin c.tkt /\ 5 \notin c.cfg
    BY <1>5, ModeBits DEF ModeOf
  <2> QED
    BY <1>5, <2>1, ModeBits DEF ModeOf
<1> QED
  BY <1>1, <1>2, <1>3, <1>4, <1>5 DEF ModeOf

\* For every configuration that the calls can make, for every firmware: a file that
\* was saved of it is refused for its random seed alone, and where the firmware takes
\* each of the flags by name, the file loads to the same mode, key length and options,
\* and to the same file again.
THEOREM SavedIsKept == Spec => []SavedIsLoaded
<1>1. ConfigInv => SavedIsLoaded
  <2> SUFFICES ASSUME ConfigInv PROVE SavedIsLoaded
    OBVIOUS
  <2> DEFINE file == ExportJson(c)
             back == ImportJson(Fresh, file)
  <2>1. back.ok <=> ~RandomSeed(file)
    BY TargetFits, ImportIs
  <2>2. file.mode = "OATH_HOTP" /\ c.imf > 1 <=> ~back.ok
    BY <2>1, Exported DEF RandomSeed, ConfigInv, FactorFits
  <2>3. ASSUME back.ok, Legal
        PROVE  /\ ModeOf(back.c) = ModeOf(c) /\ KeyLength(back.c) = KeyLength(c)
               /\ Options(back.c) = Options(c)
               /\ file.mode = "OATH_HOTP" => ExportJson(back.c) = file
    <3> DEFINE b == back.c
    <3>1. /\ b.tkt \subseteq c.tkt /\ b.cfg \subseteq c.cfg /\ b.ext \subseteq c.ext
          /\ \A f \in Options(c) \cup ModeFlags(c) : IsSet(b, f)
          /\ b.command = c.command /\ (ModeOf(c) = "OATH_HOTP" => b.imf = c.imf)
      BY <2>1, <2>3, Loaded
    <3> HIDE DEF b
    <3>2. ModeOf(b) = ModeOf(c)
      BY <3>1, LoadedMode
    <3>3. KeyLength(b) = KeyLength(c)
      <4>1. KeyLength(b) = 20 <=> KeyLength(c) = 20
        BY <3>2, KeyLengthIsOfMode
      <4> QED
        BY <4>1, KeyLengthIs
    <3>4. Options(b) = Options(c)
      <4>1. \A f \in Flags : IsSet(b, f) => IsSet(c, f)
        BY <3>1, TicketRows, ConfigRows, ExtendedRows DEF Flags, ToSet, Row, IsSet
      <4>2. Options(b) \subseteq Options(c)
        BY <3>2, <4>1 DEF Options
      <4>3. Options(c) \subseteq Options(b)
        BY <3>1, <3>2 DEF Options
      <4> QED
        BY <4>2, <4>3
    <3>5. ASSUME file.mode = "OATH_HOTP" PROVE ExportJson(b) = file
      <4>1. ModeOf(c) = "OATH_HOTP"
        BY <3>5, Exported
      <4>2. HasNamed(b, "OATH_HOTP8") <=> HasNamed(c, "OATH_HOTP8")
        <5>1. HasNamed(c, "OATH_HOTP8") => HasNamed(b, "OATH_HOTP8")
          BY <3>1, <4>1 DEF ModeFlags, ChalResp, HasNamed
        <5>2. Row(FlagNamed["OATH_HOTP8"])
          BY NamedRows, Hotp8
        <5> QED
          BY <3>1, <5>1, <5>2 DEF HasNamed, IsSet, Row
      <4> QED
        BY <3>1, <3>2, <3>4, <4>1, <4>2 DEF ExportJson
    <3> QED
      BY <3>2, <3>3, <3>4, <3>5 DEF b
  <2> HIDE DEF file
  <2> QED
    BY <2>2, <2>3 DEF SavedIsLoaded, Legal, Fresh, file
<1> QED
  BY <1>1, ConfigHolds, PTL

-----------------------------------------------------------------------------
(* The listing: the loop over the table, one flag after the other.         *)

Table == {ConfigFlags[i] : i \in 1 .. Len(ConfigFlags)}

\* A round of the listing's loop.
ShowOne(d, shown, f) ==
    IF Shown(d, f) /\ f.bits \subseteq shown.left
    THEN [flags |-> Append(shown.flags, f), left |-> shown.left \ f.bits]
    ELSE shown
Loop(d, g) ==
    [i \in 0 .. Len(ConfigFlags) |->
        IF i = 0 THEN [flags |-> <<>>, left |-> d.cfg]
        ELSE ShowOne(d, g[i - 1], ConfigFlags[i])]
Listings(d) == [flags : Seq(Table), left : SUBSET d.cfg]

LEMMA TableSize == Len(ConfigFlags) \in Nat
BY SMTT(60) DEF ConfigFlags

LEMMA ShownIs ==
    ASSUME NEW d, NEW shown \in Listings(d), NEW f \in Table
    PROVE  ShowOne(d, shown, f) \in Listings(d)
<1> HIDE DEF Table
<1>1. Append(shown.flags, f) \in Seq(Table)
  BY DEF Listings
<1> QED
  BY <1>1 DEF ShowOne, Listings

LEMMA ListingIs ==
    ASSUME NEW d
    PROVE  \E g : g = Loop(d, g) /\ Listing(d) = g[Len(ConfigFlags)].flags
<1> DEFINE n == Len(ConfigFlags)
           S == Listings(d)
           base == [flags |-> <<>>, left |-> d.cfg]
           step == [p \in (1 .. n) \X S |-> ShowOne(d, p[2], ConfigFlags[p[1]])]
<1>1. n \in Nat /\ base \in S
  BY TableSize DEF Listings
<1>2. step \in [(1 .. n) \X S -> S]
  <2>1. ASSUME NEW i \in 1 .. n, NEW shown \in S
        PROVE  ShowOne(d, shown, ConfigFlags[i]) \in S
    <3>1. ConfigFlags[i] \in Table
      BY DEF Table
    <3> QED
      BY <3>1, ShownIs
  <2> HIDE DEF n, S
  <2> QED
    BY <2>1
<1>3. PICK f : Runs(f, n, S, base, step)
  <2> HIDE DEF n, S, base, step
  <2> QED
    BY <1>1, <1>2, Recursion
<1>4. \A i \in 1 .. n : f[i] = ShowOne(d, f[i - 1], ConfigFlags[i])
  <2> TAKE i \in 1 .. n
  <2>1. i - 1 \in 0 .. n
    BY <1>1
  <2>2. <<i, f[i - 1]>> \in (1 .. n) \X S
    BY <1>3, <2>1 DEF Runs
  <2> HIDE DEF n, S, base
  <2> QED
    BY <1>3, <2>2 DEF Runs
<1> HIDE DEF S, step
<1>5. f = Loop(d, f)
  BY <1>1, <1>3, <1>4 DEF Loop, Runs
<1>6. Listing(d) = (CHOOSE g : g = Loop(d, g))[n].flags
  BY DEF Listing, Loop, ShowOne
<1> QED
  BY <1>5, <1>6

\* What was shown is apart, and apart from what is left.
Apart(shown) ==
    /\ \A i \in 1 .. Len(shown.flags) : shown.flags[i].bits \cap shown.left = {}
    /\ \A i, j \in 1 .. Len(shown.flags) :
          i # j => shown.flags[i].bits \cap shown.flags[j].bits = {}

LEMMA ShowApart ==
    ASSUME NEW d, NEW shown \in Listings(d), Apart(shown), NEW f \in Table
    PROVE  Apart(ShowOne(d, shown, f))
<1> HIDE DEF Table
<1> DEFINE flags == shown.flags
           new == Append(flags, f)
           left == shown.left \ f.bits
<1>1. CASE ~(Shown(d, f) /\ f.bits \subseteq shown.left)
  BY <1>1 DEF ShowOne
<1>2. CASE f.bits \subseteq shown.left /\ Shown(d, f)
  <2>1. ShowOne(d, shown, f) = [flags |-> new, left |-> left]
    BY <1>2 DEF ShowOne
  <2>2. flags \in Seq(Table)
    BY DEF Listings
  <2> HIDE DEF flags
  <2>3. /\ Len(new) = Len(flags) + 1 /\ Len(flags) \in Nat
        /\ \A i \in 1 .. Len(flags) : new[i] = flags[i]
        /\ new[Len(flags) + 1] = f
    BY <2>2, AppendProperties
  <2> HIDE DEF new
  <2>4. \A i \in 1 .. Len(new) : new[i].bits \cap left = {}
    <3> TAKE i \in 1 .. Len(new)
    <3>1. CASE i = Len(flags) + 1
      BY <2>3, <3>1
    <3>2. CASE i # Len(flags) + 1
      <4>1. i \in 1 .. Len(flags) /\ new[i] = flags[i]
        BY <2>3, <3>2
      <4> QED
        BY <4>1 DEF Apart, flags
    <3> QED
      BY <3>1, <3>2
  <2>5. \A i, j \in 1 .. Len(new) : i # j => new[i].bits \cap new[j].bits = {}
    <3>1. ASSUME NEW i \in 1 .. Len(flags), NEW j \in 1 .. Len(flags), i # j
          PROVE  new[i].bits \cap new[j].bits = {}
      BY <2>3, <3>1 DEF Apart, flags
    <3>2. ASSUME NEW i \in 1 .. Len(flags)
          PROVE  new[i].bits \cap f.bits = {}
      BY <1>2, <2>3 DEF Apart, flags
    <3>3. \A i \in 1 .. Len(new) :
            i \in 1 .. Len(flags) \/ (new[i] = f /\ i = Len(flags) + 1)
      BY <2>3
    <3> QED
      BY <3>1, <3>2, <3>3
  <2> HIDE DEF left
  <2> QED
    BY <2>1, <2>4, <2>5 DEF Apart
<1> QED
  BY <1>1, <1>2

LEMMA ListedApart ==
    ASSUME NEW d PROVE \A i, j \in 1 .. Len(Listing(d)) :
                          i # j => Listing(d)[i].bits \cap Listing(d)[j].bits = {}
<1> DEFINE n == Len(ConfigFlags)
<1>1. PICK g : g = Loop(d, g) /\ Listing(d) = g[n].flags
  BY ListingIs
<1>2. n \in Nat
  BY TableSize
<1> DEFINE Good(i) == g[i] \in Listings(d) /\ Apart(g[i])
           bad == {i \in 0 .. n : ~Good(i)}
<1>3. Good(0)
  <2>1. g[0] = [flags |-> <<>>, left |-> d.cfg]
    BY <1>1, <1>2 DEF Loop
  <2> QED
    BY <2>1 DEF Listings, Apart
<1>4. ASSUME NEW i \in 1 .. n, Good(i - 1) PROVE Good(i)
  <2>1. g[i] = ShowOne(d, g[i - 1], ConfigFlags[i])
    BY <1>1, <1>2 DEF Loop
  <2>2. ConfigFlags[i] \in Table
    BY DEF Table
  <2> QED
    BY <1>4, <2>1, <2>2, ShownIs, ShowApart
<1> HIDE DEF Good
<1>5. bad = {}
  <2> SUFFICES ASSUME bad # {} PROVE FALSE
    OBVIOUS
  <2>1. PICK m \in bad : \A j \in bad : m <= j
    <3>1. bad \in SUBSET Nat
      OBVIOUS
    <3> HIDE DEF bad
    <3> QED
      BY <3>1, Least
  <2>2. m \in 1 .. n
    BY <1>2, <1>3, <2>1
  <2>3. m - 1 \in 0 .. n /\ ~ m <= m - 1
    BY <1>2, <2>2
  <2>4. Good(m - 1)
    BY <2>1, <2>3
  <2> QED
    BY <1>4, <2>1, <2>2, <2>4
<1>6. Good(n)
  BY <1>2, <1>5
<1> QED
  BY <1>1, <1>6 DEF Good, Apart

\* The listing of every configuration the calls can lead to (_ykp_legacy_export_config)
\* names no bit twice, although the flags of the table share them.
THEOREM ListingHasNoDoubles == Spec => []ListedOnce
<1>1. ListedOnce
  BY ListedApart DEF ListedOnce
<1> QED
  BY <1>1, PTL
=============================================================================
