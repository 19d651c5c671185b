-------------------------------- MODULE Text --------------------------------
(***************************************************************************)
(* truncateUTF8 (persistence/outbox.go), which shortens the reason stored  *)
(* in the utf8mb4 column last_error.  A string is a sequence of bytes, and *)
(* a byte is what the decoder tells apart: an ASCII character, the first   *)
(* byte of a rune of two or of three bytes, or a continuation byte.        *)
(***************************************************************************)
EXTENDS Naturals, Sequences, FiniteSets

Bytes == {"ascii", "lead2", "lead3", "cont"}

Width(b) == CASE b = "lead2" -> 2 [] b = "lead3" -> 3 [] OTHER -> 1

RuneStart(b) == b # "cont"

(* A whole rune begins at i.                                               *)
RuneAt(s, i) ==
    /\ RuneStart(s[i])
    /\ i + Width(s[i]) - 1 <= Len(s)
    /\ \A j \in i + 1 .. i + Width(s[i]) - 1 : s[j] = "cont"

(* The bytes of s that belong to a whole rune.                             *)
InRunes(s) ==
    {i \in DOMAIN s : \E j \in 1 .. i : RuneAt(s, j) /\ i < j + Width(s[j])}

IsValidUTF8(s) == InRunes(s) = DOMAIN s

(* Where position i of a byte comes among the positions of K.             *)
Rank(K, i) == Cardinality({k \in K : k <= i})

(* strings.ToValidUTF8(s, ""): the other bytes are dropped, so that byte j *)
(* of the result is the j-th byte kept.                                    *)
ToValidUTF8(s) ==
    LET kept == InRunes(s)
    IN  [j \in 1 .. Cardinality(kept) |-> s[CHOOSE i \in kept : Rank(kept, i) = j]]

(* Mutant: what fits is stored as it came.                                 *)
TruncateOnly(s, maxBytes) ==
    IF Len(s) <= maxBytes THEN s
    ELSE LET cut == CHOOSE n \in 0 .. maxBytes :
                        /\ n = 0 \/ RuneStart(s[n + 1])
                        /\ \A k \in n + 1 .. maxBytes : ~RuneStart(s[k + 1])
         IN  ToValidUTF8(SubSeq(s, 1, cut))

(* The cut goes back to the last byte that begins a rune, s[maxBytes] in   *)
(* the code being the first byte left out.                                 *)
truncateUTF8(s, maxBytes) ==
    IF Len(s) <= maxBytes THEN ToValidUTF8(s)
    ELSE LET cut == CHOOSE n \in 0 .. maxBytes :
                        /\ n = 0 \/ RuneStart(s[n + 1])
                        /\ \A k \in n + 1 .. maxBytes : ~RuneStart(s[k + 1])
         IN  ToValidUTF8(SubSeq(s, 1, cut))

(* The reference: the longest prefix of whole runes within maxBytes.       *)
LongestPrefix(s, maxBytes) ==
    LET fits == {n \in 0 .. Len(s) : n <= maxBytes /\ IsValidUTF8(SubSeq(s, 1, n))}
    IN  SubSeq(s, 1, CHOOSE n \in fits : \A k \in fits : k <= n)
=============================================================================
