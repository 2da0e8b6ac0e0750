--------------------------- MODULE MCCharacterData ---------------------------
(* Texts over two digits, a sign, white space and another character.        *)
EXTENDS CharacterData

CONSTANTS D1, D2, MaxPiece

MCDigit == {D1, D2}
MCEnclosing == << <<Other>> >>
MCPiece == UNION {[1..n -> Char] : n \in 1..MaxPiece}
\* Short pieces, and a number after so much white space that pieces within it are read from
\* before the text, or appended to memory that nobody wrote.
Padded(n) == [i \in 1..n + 1 |-> IF i <= n THEN Space ELSE D1]
MCShortPiece == [1..1 -> Char] \union [1..2 -> Char \ {D2}] \union {Padded(3)}
=============================================================================
