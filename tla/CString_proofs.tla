--------------------------- MODULE CString_proofs ---------------------------
(***************************************************************************)
(* What strlen() and strncpy() of CString do, for fields and texts of any  *)
(* length: the facts that the proofs about both devices share.             *)
(***************************************************************************)
EXTENDS CString, WellFoundedInduction, TLAPS

\* Every set of naturals has a least element.
LEMMA LeastNat ==
    ASSUME NEW T, T \subseteq Nat, T # {}
    PROVE  \E x \in T : \A y \in T : x <= y
<1> DEFINE R == OpToRel(<, Nat)
<1>1. \A x, y \in Nat : y < x => <<y, x>> \in R
  BY DEF OpToRel
<1>2. IsWellFoundedOn(R, Nat)
  BY NatLessThanWellFounded, Zenon
<1> HIDE DEF R
<1>3. PICK x \in T : \A y \in T : ~ (<<y, x>> \in R)
  BY <1>2, WFMin
<1>4. \A y \in T : ~ (y < x)
  BY <1>1, <1>3
<1> QED  BY <1>4

\* strlen() of any field, whatever it holds: the cells before the first Nul.
LEMMA StrLenFacts ==
    ASSUME NEW field, NEW n \in Nat, Len(field) = n
    PROVE  /\ StrLen(field) \in 0..n
           /\ \A i \in 1..StrLen(field) : field[i] # Nul
           /\ StrLen(field) < n => field[StrLen(field) + 1] = Nul
<1> DEFINE T == {m \in 0..n : m < n => field[m + 1] = Nul}
           Ends(m) == /\ \A i \in 1..m : field[i] # Nul
                      /\ m < Len(field) => field[m + 1] = Nul
<1>1. T \subseteq Nat /\ n \in T
  OBVIOUS
<1>2. PICK x \in T : \A y \in T : x <= y
  <2> HIDE DEF T
  <2> QED  BY <1>1, LeastNat
<1>3. ASSUME NEW i \in 1..x
      PROVE  field[i] # Nul
  <2>1. i - 1 \in 0..n /\ i - 1 < n /\ ~(x <= i - 1)
    BY <1>2
  <2>2. i - 1 \notin T
    <3> HIDE DEF T
    <3> QED  BY <1>2, <2>1
  <2>3. field[(i - 1) + 1] # Nul
    BY <2>1, <2>2
  <2> QED  BY <2>3
<1>4. x \in 0..Len(field) /\ Ends(x)
  BY <1>2, <1>3
<1>5. StrLen(field) \in 0..Len(field) /\ Ends(StrLen(field))
  <2> HIDE DEF Ends
  <2>1. (CHOOSE m \in 0..Len(field) : Ends(m)) \in 0..Len(field)
        /\ Ends(CHOOSE m \in 0..Len(field) : Ends(m))
    BY <1>4
  <2> QED  BY <2>1, Zenon DEF StrLen, Ends
<1> QED  BY <1>5

\* What a reader finds in a field of characters out of C is a text of them.
LEMMA StrInTexts ==
    ASSUME NEW C, NEW n \in Nat, NEW field \in [1..n -> C \cup {Nul}]
    PROVE  Str(field) \in Texts(C, n)
<1> DEFINE k == StrLen(field)
<1>1. Len(field) = n
  OBVIOUS
<1>2. k \in 0..n /\ \A i \in 1..k : field[i] # Nul
  BY <1>1, StrLenFacts
<1> HIDE DEF k
<1>3. \A i \in 1..k : i \in 1..n /\ field[i] \in C
  BY <1>2
<1>4. [i \in 1..k |-> field[i]] \in [1..k -> C]
  BY <1>3
<1> QED  BY <1>2, <1>4 DEF Str, Texts, k

\* What a reader finds where a text was copied to: the text and what the field
\* held behind it, or the text alone if the field ends there.
LEMMA CopiedText ==
    ASSUME NEW size \in Nat, NEW f, Len(f) = size,
           NEW n \in 0..size, NEW text, Len(text) = n, text = [i \in 1..n |-> text[i]],
           \A i \in 1..n : text[i] # Nul
    PROVE  /\ Begins(Str(StrNCpy(f, text)), text)
           /\ (n < size => f[n + 1] = Nul) => Str(StrNCpy(f, text)) = text
<1> DEFINE field == StrNCpy(f, text)
           k == StrLen(field)
<1>3. field = [i \in 1..size |-> IF i <= n THEN text[i] ELSE f[i]]
  BY DEF StrNCpy
<1> HIDE DEF field, k
<1>4. Len(field) = size
  BY <1>3
<1>5. /\ \A i \in 1..n : field[i] = text[i]
      /\ n < size => field[n + 1] = f[n + 1]
  <2>1. ASSUME NEW i \in 1..n PROVE field[i] = text[i]
    BY <1>3
  <2>2. ASSUME n < size PROVE field[n + 1] = f[n + 1]
    BY <1>3, <2>2
  <2> QED  BY <2>1, <2>2
<1>6. /\ k \in 0..size /\ \A i \in 1..k : field[i] # Nul
      /\ k < size => field[k + 1] = Nul
  BY <1>4, StrLenFacts DEF k
<1>7. Str(field) = [i \in 1..k |-> field[i]]
  BY DEF Str, k
<1>8. n <= k
  <2> SUFFICES ASSUME k < n PROVE FALSE
    BY <1>6
  <2>1. k + 1 \in 1..n /\ k < size
    BY <1>6
  <2> QED  BY <1>5, <1>6, <2>1
<1>9. Len(Str(field)) = k /\ \A i \in 1..k : Str(field)[i] = field[i]
  BY <1>6, <1>7
<1>10. Begins(Str(field), text)
  <2>1. \A i \in 1..n : i \in 1..k
    BY <1>6, <1>8
  <2> QED  BY <1>5, <1>8, <1>9, <2>1 DEF Begins
<1>11. ASSUME n < size => f[n + 1] = Nul
       PROVE  Str(field) = text
  <2>1. k = n
    <3> SUFFICES ASSUME n < k PROVE FALSE
      BY <1>6, <1>8
    <3>1. n + 1 \in 1..k /\ n < size
      BY <1>6
    <3> QED  BY <1>5, <1>6, <1>11, <3>1
  <2> QED  BY <1>5, <1>7, <2>1
<1> QED  BY <1>10, <1>11 DEF field
=============================================================================
