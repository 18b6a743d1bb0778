----------------------------- MODULE MoneyText -----------------------------
(***************************************************************************)
(* The column `valor` of a campaign's file: parseMoneyCents turns its text  *)
(* into cents without floating point, within an integer of a given width.   *)
(* A text is its parts between the dots; a part is an optional minus sign    *)
(* and digits, or something no number has.                                  *)
(***************************************************************************)
EXTENDS Integers, SequencesExt

CONSTANTS
    Largest,        \* the largest integer: 2^63 - 1 in the code
    Wholes,         \* sequences of digits tried before the dot
    Fractions       \* and after it

ASSUME MoneyWidth == Largest \in Nat \ {0}
ASSUME MoneyDigits == \A d \in Wholes \cup Fractions : d \in Seq(0 .. 9)

VARIABLES
    valor,          \* the text of a line
    parsed          \* what it was read as: cents, or Rejected

moneyVars == <<valor, parsed>>

-----------------------------------------------------------------------------
Rejected == 0

Part(minus, digits) == [minus |-> minus, digits |-> digits]

\* One, two or three parts.
MoneyTexts ==
    LET heads == {Part(minus, d) : minus \in BOOLEAN, d \in Wholes}
        tails == {Part(minus, d) : minus \in BOOLEAN, d \in Fractions}
    IN  {<<w>> : w \in heads} \cup {<<w, f>> : w \in heads, f \in tails}
        \cup {<<w, f, f>> : w \in heads, f \in tails}

Length(part) == Len(part.digits) + (IF part.minus THEN 1 ELSE 0)

Magnitude(digits) == FoldLeft(LAMBDA n, d : 10 * n + d, 0, digits)

\* strconv.ParseInt refuses a part without digits or out of range.
IsInt(part) == part.digits # <<>> /\ Magnitude(part.digits) <= Largest

IntOf(part) == IF part.minus THEN -Magnitude(part.digits) ELSE Magnitude(part.digits)

\* f += "0" if it is one character, "00" if it is none.
Hundredths(part) ==
    IF Length(part) = 0 THEN Part(FALSE, <<0, 0>>)
    ELSE IF Length(part) = 1 THEN Part(part.minus, Append(part.digits, 0))
    ELSE part

\* An integer of the code's width, wrapped.
Int64(n) == ((n + Largest + 1) % (2 * (Largest + 1))) - Largest - 1

\* Mutant: only the sign of the product tells that it has wrapped.
FitsAlways(whole, frac) == TRUE

\* Negative cents wrap the bound to a negative one, which nothing fits.
Fits(whole, frac) ==
    LET room == Int64(Largest - frac)
    IN  room >= 0 /\ whole <= room \div 100

ParseMoneyCents(text) ==
    LET frac == IF Len(text) = 2 THEN Hundredths(text[2]) ELSE Part(FALSE, <<0, 0>>)
        whole == IntOf(text[1])
        cents == Int64(whole * 100 + IntOf(frac))
    IN  IF /\ Len(text) <= 2
           /\ Length(text[1]) > 0
           /\ Len(text) = 2 => Length(text[2]) <= 2
           /\ IsInt(text[1]) /\ whole >= 0
           /\ IsInt(frac)
           /\ Fits(whole, IntOf(frac))
           /\ cents > 0
        THEN cents ELSE Rejected

MoneyInit ==
    /\ valor = <<>>
    /\ parsed = Rejected

ReadsValor(text) ==
    /\ valor = <<>>
    /\ valor' = text
    /\ parsed' = ParseMoneyCents(text)

MoneyNext == \E text \in MoneyTexts : ReadsValor(text)

MoneySpec == MoneyInit /\ [][MoneyNext]_moneyVars

-----------------------------------------------------------------------------
\* What a text without a sign says, in cents: digits, and at most two more
\* after one dot.
IsPlain(text) ==
    /\ Len(text) \in {1, 2}
    /\ text[1].digits # <<>>
    /\ \A i \in DOMAIN text : ~text[i].minus
    /\ Len(text) = 2 => Len(text[2].digits) <= 2

Says(text) ==
    LET after == IF Len(text) = 2 THEN text[2].digits ELSE <<>>
    IN  Magnitude(text[1].digits \o after) * <<100, 10, 1>>[Len(after) + 1]

Signed(text) == \E i \in DOMAIN text : text[i].minus

\* An amount is read to the cent or not at all: a text of digits and at most two
\* decimals is accepted exactly if it says a positive amount that fits, and as
\* that amount, up to the largest integer; of the other texts only some with a
\* minus sign are accepted.
MoneyIsExact ==
    valor # <<>> =>
        IF IsPlain(valor)
        THEN parsed = IF Says(valor) \in 1 .. Largest THEN Says(valor) ELSE Rejected
        ELSE parsed # Rejected => Signed(valor)
=============================================================================
