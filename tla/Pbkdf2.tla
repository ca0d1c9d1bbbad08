------------------------------- MODULE Pbkdf2 -------------------------------
(***************************************************************************)
(* yk_pbkdf2: a key from a passphrase, one call of the pseudo-random       *)
(* function at a time.  From ykpbkdf2.c.                                   *)
(*                                                                         *)
(* The function is a free one: nothing is known of a byte it returns but   *)
(* the input it was computed from and the byte's place.  A byte is then    *)
(* the set of the atoms that were XORed into it, and XOR takes out what    *)
(* occurs twice.  The passphrase is the one argument that all calls share: *)
(* what strlen finds of it, up to its first byte 0.                        *)
(***************************************************************************)
EXTENDS Integers, Sequences

CONSTANTS
    OutputSize,      \* prf_method->output_size
    ArraySize,       \* sizeof(block), 256
    NumberSize,      \* the bytes of a block's number, 4
    SaltLimit,       \* the longest salt that is taken, 256
    MaxSalt,         \* bounds the salt
    MaxLength,       \* bounds the key
    MaxIterations    \* bounds the iterations

ASSUME Pbkdf2Assumption ==
    /\ OutputSize \in Nat \ {0} /\ ArraySize \in Nat /\ OutputSize <= ArraySize
    /\ NumberSize \in Nat /\ SaltLimit \in Nat /\ MaxSalt \in Nat
    /\ MaxLength \in Nat \ {0} /\ MaxIterations \in Nat \ {0}

VARIABLES
    asked,           \* the arguments: salt_len, iterations and dklen
    dk,              \* the key
    at,              \* how far the pointer dk has moved
    left,            \* dklen, which the code counts down
    block,           \* the input of the next call: block, up to block_len
    count,           \* block_count
    iteration,       \* the calls made for this block
    returned         \* what yk_pbkdf2 returned, "nothing" before; or
                     \* "undefined", when it may do anything

pbkdf2Vars == <<asked, dk, at, left, block, count, iteration, returned>>

Byte(input, place) == {[of |-> input, place |-> place]}
Xor(a, b) == (a \cup b) \ (a \cap b)
Zero == {}

\* The bytes of the salt, those of a block's number, what lies behind the output
\* in the array block -- the end of a long salt, or what an automatic array holds
\* where nothing was written -- which no call changes, and what lies behind the
\* array: other locals, iteration and i among them, which change.
Given(what, i) == Byte(<<>>, <<what, i>>)
Salt(n) == [i \in 1 .. n |-> Given("salt", i)]
Number(n) == [i \in 1 .. NumberSize |-> Given("number", <<n, i>>)]
Behind(i) == Given("behind", <<count, i>>)
Outside(n, call, i) == Given("past", <<n, call, i>>)

Prf(input) == [i \in 1 .. OutputSize |-> Byte(input, <<"output", i>>)]

\* The number of block n is put behind the salt, and behind the array when the
\* salt is too long for both: what is read there may be something else by then,
\* and what was overwritten may be anything.
Overruns == asked.salt + NumberSize > ArraySize
FirstInputs(n) ==
    LET whole == Salt(asked.salt) \o Number(n)
        cut == [i \in 1 .. asked.salt + NumberSize |->
                   IF i > ArraySize THEN Outside(n, 0, i) ELSE whole[i]] IN
    {whole} \cup IF Overruns THEN {cut} ELSE {}
GoingOn == {"nothing"} \cup IF Overruns THEN {"undefined"} ELSE {}

\* l, the number of blocks.
Blocks(length) == (length - 1 + OutputSize) \div OutputSize

Pbkdf2Init ==
    /\ asked \in [salt : 0 .. MaxSalt, iterations : 1 .. MaxIterations,
                  length : 1 .. MaxLength]
    /\ dk = [i \in 1 .. asked.length |-> Zero]
    /\ at = 0 /\ left = asked.length
    /\ block \in FirstInputs(1)
    /\ count = 1 /\ iteration = 0
    /\ returned \in IF asked.salt > SaltLimit THEN {"failure"} ELSE GoingOn

\* Mutant of Added: nothing but the last call's output.
AddedLast(output, steady) ==
    [i \in DOMAIN dk |-> IF i - at \in 1 .. OutputSize THEN output[i - at] ELSE dk[i]]

\* Each call's output is XORed into all of the key that is left, along with what
\* lies behind the output in block and, in a key longer than it, behind block;
\* there, steady says that no call changed it.
Added(output, steady) ==
    [i \in DOMAIN dk |->
        CASE i <= at -> dk[i]
          [] i - at \in 1 .. OutputSize -> Xor(dk[i], output[i - at])
          [] i - at > OutputSize /\ (i - at <= ArraySize \/ steady)
                -> Xor(dk[i], Behind(i - at))
          [] i - at > ArraySize /\ ~steady
                -> Xor(dk[i], Outside(count, iteration + 1, i - at))]

\* One call of the pseudo-random function, which may fail.
Iterate ==
    /\ returned = "nothing" /\ iteration < asked.iterations
    /\ \/ /\ \E steady \in BOOLEAN : dk' = Added(Prf(block), steady)
          /\ block' = Prf(block)
          /\ iteration' = iteration + 1 /\ returned' = returned
       \/ returned' = "failure" /\ UNCHANGED <<dk, block, iteration>>
    /\ UNCHANGED <<asked, at, left, count>>

\* How far the pointer moves on: by what is left in the last block.
Step == IF OutputSize > left THEN left ELSE OutputSize

\* The next block, after the last of which the loop ends.
NextBlock ==
    /\ returned = "nothing" /\ iteration = asked.iterations
    /\ at' = at + Step /\ left' = left - Step
    /\ count' = count + 1 /\ iteration' = 0
    /\ IF count + 1 > Blocks(asked.length)
       THEN returned' = "success" /\ UNCHANGED block
       ELSE returned' \in GoingOn /\ block' \in FirstInputs(count + 1)
    /\ UNCHANGED <<asked, dk>>

Pbkdf2Next == Iterate \/ NextBlock

Pbkdf2Spec == Pbkdf2Init /\ [][Pbkdf2Next]_pbkdf2Vars

-----------------------------------------------------------------------------
(* The definition of the standard: block n is the XOR of the iterated      *)
(* function of the salt and n, and the key is the first bytes of them all. *)

StandardByte(i) ==
    LET n == ((i - 1) \div OutputSize) + 1
        place == ((i - 1) % OutputSize) + 1
        chain[j \in 0 .. asked.iterations] ==
            IF j = 0 THEN Salt(asked.salt) \o Number(n) ELSE Prf(chain[j - 1])
        sum[j \in 0 .. asked.iterations] ==
            IF j = 0 THEN Zero ELSE Xor(sum[j - 1], chain[j][place])
    IN sum[asked.iterations]

\* The key is the one of the standard, for the passphrase up to its first byte 0,
\* when salt and number fit into block (a salt of 253 to 256 bytes is taken, and
\* does not), and either it is no longer than one output or it is no longer than
\* block and the number of iterations is even.  With an odd number each block
\* leaves what lay behind its output in the bytes of the following ones, and a
\* longer key takes up what lies behind the array.  The one caller
\* (ykpers.c:397) has a salt of at most 8 bytes and a key of one output.
DerivedIsStandard ==
    /\ returned = "success"
    /\ asked.salt + NumberSize <= ArraySize
    /\ \/ asked.length <= OutputSize
       \/ asked.length <= ArraySize /\ asked.iterations % 2 = 0
    => \A i \in 1 .. asked.length : dk[i] = StandardByte(i)
=============================================================================
