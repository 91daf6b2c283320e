---------------------------- MODULE Identifiers ----------------------------
(***************************************************************************)
(* Packages id and rid: a Sonyflake hands out numbers, NewCode turns a     *)
(* number into a short code of l characters by arithmetic in machine words *)
(* and bytes, ResourceID.New uses it with its own characters and salt.     *)
(* Characters are told by their position, so that a code is a function to  *)
(* numbers below chars. Word and Byte are 2^64 and 2^8 in the program.     *)
(*                                                                         *)
(* A definition Name_Mistake is a mistake one could make in Name; nothing  *)
(* uses it but the experiments that put it in Name's place.                *)
(***************************************************************************)
EXTENDS Integers, FiniteSets

CONSTANTS
  Word,        \* the values of uint64 are 0..Word-1
  Byte,        \* those of byte 0..Byte-1
  CharSets,    \* sizes of the character sets in use
  Multipliers, \* values of n1 and n2
  Lengths,     \* values of l
  Salts,       \* salts passed; 0 keeps the one there is
  DefaultSalt,
  Numbers,     \* the numbers a Sonyflake or a counter may give
  MaxCodes     \* bound: codes kept

ASSUME IdentifiersAssumption ==
  /\ Word \in Nat \ {0} /\ Byte \in Nat \ {0}
  /\ CharSets \subseteq 1..(Byte - 1) /\ Multipliers \subseteq Nat
  /\ Lengths \subseteq 1..(Byte - 1) /\ Salts \subseteq Nat /\ DefaultSalt \in Nat
  /\ Numbers \subseteq Nat /\ MaxCodes \in Nat

VARIABLES
  codeOptions, \* CodeOptions
  generator,   \* the Sonyflake: "none", "ready", "exhausted", "failed", "panicked"
  latest,      \* the last number it gave
  codes        \* history: the codes made with these options

idVars == <<codeOptions, generator, latest, codes>>

Options == [chars : CharSets, n1 : Multipliers, n2 : Multipliers, l : Lengths, salt : Salts]

IdInit ==
  /\ codeOptions = [chars |-> 1, n1 |-> 1, n2 |-> 1, l |-> 1, salt |-> DefaultSalt]
  /\ generator = "none"
  /\ latest = 0
  /\ codes = {}

\* WithCodeChars, WithCodeN1 and so on, over getCodeOptionsOrSetDefault; a
\* resource's ResourceID.New passes its own each time.
Choose(o) ==
  /\ codeOptions' = [o EXCEPT !.salt = IF @ > 0 THEN @ ELSE DefaultSalt]
  /\ codes' = {}
  /\ UNCHANGED <<generator, latest>>

-----------------------------------------------------------------------------
(* NewCode *)

\* The number, spread out and salted, as a machine word.
Salted(o, id) == (id * o.n1 + o.salt) % Word

\* What is left of the number after i digits.
Shifted(o, n) ==
  LET rest[i \in Nat] == IF i = 0 THEN n ELSE rest[i - 1] \div o.chars IN rest

Digit(o, n, i) == Shifted(o, n)[i] % o.chars

\* The last digit goes into all others, by byte arithmetic.
Diffused(o, n, i) == ((Digit(o, n, i) + i * Digit(o, n, 0)) % Byte) % o.chars

Permuted_OneShort(o, i) == ((i * (o.n2 % Byte)) % Byte) % (IF o.l > 1 THEN o.l - 1 ELSE 1)

Permuted(o, i) == ((i * (o.n2 % Byte)) % Byte) % o.l

NewCode(o, id) == [i \in 0..(o.l - 1) |-> Diffused(o, Salted(o, id), Permuted(o, i))]

MakeCode(id) ==
  /\ Cardinality(codes) < MaxCodes
  /\ codes' = codes \cup {[id |-> id, code |-> NewCode(codeOptions, id)]}
  /\ UNCHANGED <<codeOptions, generator>>

-----------------------------------------------------------------------------
(* Sonyflake *)

\* NewSonyflake: a start time ahead of the clock gives no instance, and taking
\* a number from none panics; one too long ago is an error.
NewSonyflake ==
  /\ generator = "none"
  /\ generator' \in {"ready", "failed", "panicked"}
  /\ UNCHANGED <<codeOptions, latest, codes>>

\* Id gives the next number, and the code for it is made.
Id ==
  /\ generator = "ready"
  /\ \E id \in Numbers : id > latest /\ latest' = id /\ MakeCode(id)

\* Id of a Sonyflake with an error is 0.
IdFailed == generator = "failed" /\ latest' = 0 /\ MakeCode(0)

\* The time of the generator is over: Id sleeps and tries again, for ever.
Exhausted ==
  /\ generator = "ready"
  /\ generator' = "exhausted"
  /\ UNCHANGED <<codeOptions, latest, codes>>

IdNext == (\E o \in Options : Choose(o)) \/ NewSonyflake \/ Id \/ IdFailed \/ Exhausted

IdSpec == IdInit /\ [][IdNext]_idVars

-----------------------------------------------------------------------------
(* Properties *)

Power(b) == LET power[i \in Nat] == IF i = 0 THEN 1 ELSE b * power[i - 1] IN power

Coprime(a, b) == \A d \in 2..b : ~(a % d = 0 /\ b % d = 0)

\* Two numbers a code of this length has room for, in one range of the word,
\* multiplied and permuted as the comments of options.go:61-64 ask.
Distinguishable(o, a, b) ==
  /\ a # b
  /\ (a * o.n1 + o.salt) \div Word = (b * o.n1 + o.salt) \div Word
  /\ (IF a < b THEN b - a ELSE a - b) < Power(o.chars)[o.l]
  /\ Coprime(o.n1, o.chars) /\ Coprime(o.n2, o.l)

\* The sums of NewCode are those of numbers, not of bytes that wrap.
BytesSuffice(o) == o.l * (o.chars - 1) < Byte /\ (o.l - 1) * o.n2 < Byte

\* Different numbers have different codes as long as the sums stay in a byte:
\* the salt, the diffusion and the permutation lose nothing (code.go, NewCode).
CodesDistinct ==
  \A a, b \in codes :
    BytesSuffice(codeOptions) /\ Distinguishable(codeOptions, a.id, b.id) => a.code # b.code

\* "NewCode 可以通过 id 获取一个唯一的编码（需要确保 id 是唯一的）": whatever the
\* length and the characters.
CodesUnique ==
  \A a, b \in codes : Distinguishable(codeOptions, a.id, b.id) => a.code # b.code
=============================================================================
