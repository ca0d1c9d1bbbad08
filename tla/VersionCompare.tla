--------------------------- MODULE VersionCompare ---------------------------
(***************************************************************************)
(* ykpers_check_version and the comparison of version strings behind it,   *)
(* my_strverscmp, one round of its loop at a time.  From ykpers-version.c. *)
(* A string is a sequence of character codes.                              *)
(***************************************************************************)
EXTENDS Integers, Sequences, SequencesExt, FiniteSetsExt

CONSTANT Versions    \* the versions that are compared

ASSUME VersionAssumption == Versions \subseteq Seq(Nat \ {0})

VARIABLES
    pair,            \* the two versions
    rest,            \* s1 and s2, as the loop moves them on
    order            \* the sign of what is returned, "open" before

versionVars == <<pair, rest, order>>

Open == 2
Digits == 48 .. 57
ZeroDigit == 48

VersionInit ==
    /\ pair \in Versions \X Versions /\ rest = pair /\ order = Open

\* The character at place n, from 1, the terminator behind the last one.
At(s, n) == IF n \in DOMAIN s THEN s[n] ELSE 0
From(s, n) == SubSeq(s, n + 1, Len(s))

\* strspn and strcspn: how many characters of the set, or not of it, s begins with.
Span(s, chars) == Max({n \in 0 .. Len(s) : \A i \in 1 .. n : s[i] \in chars})
SpanNot(s, chars) == Max({n \in 0 .. Len(s) : \A i \in 1 .. n : s[i] \notin chars})

Sign(n) == IF n < 0 THEN -1 ELSE IF n > 0 THEN 1 ELSE 0

\* The sign of strncmp(s, t, n), with n as large as it need be for strcmp.
Compared(s, t, n) ==
    LET apart == {i \in 1 .. n : At(s, i) # At(t, i)} IN
    IF apart = {} THEN 0 ELSE Sign(At(s, Min(apart)) - At(t, Min(apart)))

\* Mutant of Numbers: digit by digit, as text.
NumbersAsText(s, t) == Compared(s, t, Max({Span(s, Digits), Span(t, Digits)}))

\* Two numbers as numbers: the longer one is larger, and the loop goes on (0)
\* with what follows equal ones.
Numbers(s, t) ==
    LET p == Span(s, Digits) q == Span(t, Digits) IN
    IF p # q THEN Sign(p - q) ELSE Compared(s, t, p)

\* Numbers that both begin with a zero, once as many zeros as they have in
\* common are taken off.  The code says why in a comment: a number that is
\* nothing but zeros is the larger one, and of two that go on with other
\* digits the shorter is.
Fractions(s, t) ==
    LET p == Span(s, Digits) q == Span(t, Digits)
        n == Min({p, q}) IN
    CASE p = 0 /\ q > 0 -> 1
      [] q = 0 /\ p > 0 -> -1
      [] At(s, 1) # At(t, 1) /\ ZeroDigit \notin {At(s, 1), At(t, 1)} /\ p # q
            -> Sign(q - p)
      [] OTHER -> IF p # q /\ Compared(s, t, n) # 0 THEN Compared(s, t, n)
                  ELSE Numbers(s, t)

\* Two numbers: one with a leading zero comes before one without.
Segment(s, t) ==
    LET zeros == Min({Span(s, {ZeroDigit}), Span(t, {ZeroDigit})}) IN
    CASE At(s, 1) = ZeroDigit /\ At(t, 1) # ZeroDigit -> -1
      [] At(s, 1) # ZeroDigit /\ At(t, 1) = ZeroDigit -> 1
      [] At(s, 1) # ZeroDigit /\ At(t, 1) # ZeroDigit -> Numbers(s, t)
      [] At(s, 1) = ZeroDigit /\ At(t, 1) = ZeroDigit
            -> Fractions(From(s, zeros), From(t, zeros))

\* The loop's condition: as much text before the next number, and one there.
Alike(s, t) ==
    LET p == SpanNot(s, Digits) q == SpanNot(t, Digits) IN
    p = q /\ p < Len(s) /\ q < Len(t)

\* One round of the loop.
Round ==
    LET s == rest[1] t == rest[2]
        p == SpanNot(s, Digits)
        text == Compared(s, t, p)
        verdict == IF text # 0 THEN text ELSE Segment(From(s, p), From(t, p))
        Behind(r) == LET number == From(r, p) IN From(number, Span(number, Digits)) IN
    /\ order = Open /\ Alike(s, t)
    /\ \/ verdict # 0 /\ order' = verdict /\ UNCHANGED rest
       \/ verdict = 0 /\ rest' = <<Behind(s), Behind(t)>> /\ UNCHANGED order
    /\ UNCHANGED pair

\* return strcmp(s1, s2).
Finish ==
    LET s == rest[1] t == rest[2] IN
    /\ order = Open /\ ~Alike(s, t)
    /\ order' = Compared(s, t, Max({Len(s), Len(t)}))
    /\ UNCHANGED <<pair, rest>>

VersionNext == Round \/ Finish

VersionSpec == VersionInit /\ [][VersionNext]_versionVars

-----------------------------------------------------------------------------
(* Properties.                                                             *)

Dot == 46

\* The places where a number of s begins, and the number at such a place.
Begins(s) == {i \in DOMAIN s : s[i] \in Digits /\ At(<<Dot>> \o s, i) = Dot}
NumberAt(s, i) ==
    LET n == Span(From(s, i - 1), Digits)
        value[k \in 0 .. n] ==
            IF k = 0 THEN 0 ELSE 10 * value[k - 1] + (s[i + k - 1] - ZeroDigit)
    IN value[n]

\* A release: numbers without a leading zero, with a dot between.
IsRelease(s) ==
    /\ s # <<>>
    /\ \A i \in DOMAIN s : s[i] \in Digits \cup {Dot}
    /\ At(s, 1) # Dot /\ At(s, Len(s)) # Dot
    /\ \A i \in 1 .. Len(s) - 1 : {s[i], s[i + 1]} # {Dot}
    /\ \A i \in Begins(s) : s[i] = ZeroDigit => NumberAt(s, i) = 0 /\ At(s, i + 1) \notin Digits

\* The numbers of a release.
NumbersOf(s) == [k \in 1 .. Cardinality(Begins(s)) |->
                 NumberAt(s, CHOOSE i \in Begins(s) :
                               Cardinality({j \in Begins(s) : j <= i}) = k)]

\* Releases are told apart by the first number that differs, and one that ends
\* earlier comes first.
ReleaseOrder(v, w) ==
    LET apart == {k \in 1 .. Min({Len(v), Len(w)}) : v[k] # w[k]} IN
    IF apart = {} THEN Sign(Len(v) - Len(w)) ELSE Sign(v[Min(apart)] - w[Min(apart)])

\* A release is as old as its numbers say: ykpers_check_version, which asks for
\* order <= 0, takes 1.9.0 to be older than 1.20.0.  And no two versions are
\* told to be the same.
ReleasesByNumber ==
    order # Open =>
        /\ IsRelease(pair[1]) /\ IsRelease(pair[2]) =>
              order = ReleaseOrder(NumbersOf(pair[1]), NumbersOf(pair[2]))
        /\ order = 0 <=> pair[1] = pair[2]
=============================================================================
