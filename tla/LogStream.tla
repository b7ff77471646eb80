----------------------------- MODULE LogStream -----------------------------
(***************************************************************************)
(* Log::LogStream: a line is composed in a buffer of SIZE characters, into  *)
(* which strings are copied if they fit and numbers are converted if there  *)
(* are kMaxNumericSize characters left.  Header and Tail are what Logger    *)
(* writes before and after the user's items, kept as short as the SIZE.     *)
(***************************************************************************)
EXTENDS Integers, SequencesExt

CONSTANTS SIZE, kMaxNumericSize,
          Bits              \* of a number

ASSUME StreamAssumption == {SIZE, Bits} \subseteq Nat \ {0} /\ kMaxNumericSize \in Nat

\* A negative number, or an unsigned one.
Number == (-(2^(Bits - 1)))..(2^Bits - 1)

ASSUME PowerAssumption == 0 \in Number     \* which a prover that knows no powers must be told

digits == <<"9", "8", "7", "6", "5", "4", "3", "2", "1",
            "0", "1", "2", "3", "4", "5", "6", "7", "8", "9">>
digitsHex == <<"0", "1", "2", "3", "4", "5", "6", "7", "8", "9", "A", "B", "C", "D", "E", "F">>
zero(lsd) == digits[10 + lsd]

\* C's division and remainder, which round towards zero.
Quotient(i, n) == IF i < 0 THEN -((-i) \div n) ELSE i \div n
Rest(i, n) == i - n * Quotient(i, n)

convert(value) ==
    LET reversed[i \in Number] ==
            <<zero(Rest(i, 10))>> \o
            (IF Quotient(i, 10) = 0 THEN <<>> ELSE reversed[Quotient(i, 10)])
    IN  Reverse(reversed[value] \o (IF value < 0 THEN <<"-">> ELSE <<>>))

convertHex(value) ==
    LET reversed[i \in Number \cap Nat] ==
            <<digitsHex[1 + (i % 16)]>> \o (IF i \div 16 = 0 THEN <<>> ELSE reversed[i \div 16])
    IN  Reverse(reversed[value])

\* kMaxNumericSize characters, 32 in the code, hold any number and the zero behind it.
ASSUME NumericAssumption ==
    /\ \A value \in Number : Len(convert(value)) < kMaxNumericSize
    /\ \A value \in Number \cap Nat : Len(convertHex(value)) + 2 < kMaxNumericSize

Left(stream) == SIZE - Len(stream)

appendText(stream, text) == IF Left(stream) > Len(text) THEN stream \o text ELSE stream

\* Mutated form of formatInteger: any room will do.
formatInteger_Room(stream, v) ==
    IF Left(stream) > 1 THEN stream \o convert(v) ELSE stream

formatInteger(stream, v) ==
    IF Left(stream) >= kMaxNumericSize THEN stream \o convert(v) ELSE stream

formatPointer(stream, v) ==
    IF Left(stream) >= kMaxNumericSize THEN stream \o <<"0", "x">> \o convertHex(v) ELSE stream

Numeric == [kind : {"integer"}, value : Number] \cup [kind : {"pointer"}, value : Number \cap Nat]
Item == [kind : {"text"}, text : Seq({"t"})] \cup Numeric

Inserted(stream, item) ==
    CASE item.kind = "text" -> appendText(stream, item.text)
      [] item.kind = "integer" -> formatInteger(stream, item.value)
      [] item.kind = "pointer" -> formatPointer(stream, item.value)

Header == <<"t">>
Tail1 == <<"t", "n">>

\* A Logger, from its constructor to finish().
Begun == appendText(<<>>, Header)
Finished(stream) == appendText(stream, Tail1)
Composed(items) == Finished(FoldLeft(Inserted, Begun, items))

-----------------------------------------------------------------------------
(* What a number reads as.                                                  *)

DigitValue(d) == (CHOOSE i \in 1..16 : digitsHex[i] = d) - 1
Reads(text, base, value) ==
    /\ Range(text) \subseteq Range(digitsHex)
    /\ FoldLeft(LAMBDA sum, d : base * sum + DigitValue(d), 0, text) = value

\* text is the numeral of a number, with no more digits than it needs.
IsNumeral(text, item) ==
    IF item.kind = "pointer"
    THEN /\ Len(text) > 2 /\ SubSeq(text, 1, 2) = <<"0", "x">>
         /\ Reads(SubSeq(text, 3, Len(text)), 16, item.value)
         /\ Len(text) > 3 => text[3] # "0"
    ELSE LET minus == item.value < 0
             number == IF minus THEN SubSeq(text, 2, Len(text)) ELSE text
         IN  /\ minus => text[1] = "-"
             /\ Reads(number, 10, IF minus THEN -item.value ELSE item.value)
             /\ Len(number) > 1 => number[1] # "0"

\* Into any stream an item is inserted whole or not at all, a number as its numeral, and
\* there is room left for the terminating zero that convert() writes.
InsertsWhole(items) ==
    \A n \in 0..(SIZE - 1) : \A item \in items :
        LET old == [i \in 1..n |-> "t"]
            new == Inserted(old, item)
        IN  new # old =>
                /\ IsStrictPrefix(old, new) /\ Len(new) < SIZE
                /\ LET text == SubSeq(new, n + 1, Len(new))
                   IN  IF item.kind = "text" THEN text = item.text ELSE IsNumeral(text, item)
=============================================================================
