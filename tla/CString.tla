------------------------------ MODULE CString -------------------------------
(***************************************************************************)
(* Texts in the char arrays of the libraries.  A text is a sequence of     *)
(* characters; a field is an array of cells, in which a text ends at the   *)
(* first Nul.  Both libraries copy with strncpy(field, text, strlen(text)),*)
(* which writes the characters and nothing after them.                     *)
(***************************************************************************)
EXTENDS Integers, Sequences

CONSTANT Nul

\* memset(field, 0, n)
Zeros(n) == [i \in 1..n |-> Nul]

\* strncpy(field, text, strlen(text)), for a text no longer than the field.
StrNCpy(field, text) ==
    [i \in 1..Len(field) |-> IF i <= Len(text) THEN text[i] ELSE field[i]]

\* strlen(field): the cells before the first Nul.
StrLen(field) ==
    CHOOSE n \in 0..Len(field) :
        /\ \A i \in 1..n : field[i] # Nul
        /\ n < Len(field) => field[n + 1] = Nul

\* The text a reader of the field finds.
Str(field) == [i \in 1..StrLen(field) |-> field[i]]

\* A text and what may follow it.
Begins(whole, text) ==
    Len(text) <= Len(whole) /\ \A i \in 1..Len(text) : whole[i] = text[i]

\* Texts of characters out of S that fill a field of n cells at most.
Texts(S, n) == UNION {[1..k -> S] : k \in 0..n}
=============================================================================
