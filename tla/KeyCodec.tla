------------------------------ MODULE KeyCodec ------------------------------
(***************************************************************************)
(* The key and pivot string handling of util.cpp and BufferManager, as     *)
(* operators over byte strings.  A string is a sequence of byte values     *)
(* (0..255); std::string's operator< is the lexicographic order of         *)
(* unsigned bytes, a prefix first.                                         *)
(***************************************************************************)
EXTENDS Integers, SequencesExt

CONSTANTS
    KEY_LENGTH,     \* the fixed key width
    INVALID_KEY     \* validateKey's rejection result

SPACE == 32     \* ' ', the padding byte
BAR   == 124    \* '|', the delimiter of the persisted pivot list

\* std::string operator<.
RECURSIVE KeyLess(_, _)
KeyLess(a, b) ==
    IF a = <<>> THEN b /= <<>>
    ELSE IF b = <<>> THEN FALSE
    ELSE IF Head(a) /= Head(b) THEN Head(a) < Head(b)
    ELSE KeyLess(Tail(a), Tail(b))

\* A set of strings in ascending order (std::sort over the keys; what
\* LevelDB's iterator walks).  SetToSortSeq is not used: its SetToSeq
\* enumerates every function into the set.
RECURSIVE SortKeys(_)
SortKeys(S) ==
    IF S = {} THEN <<>>
    ELSE LET m == CHOOSE x \in S : \A y \in S : ~KeyLess(y, x)
         IN  <<m>> \o SortKeys(S \ {m})

\* validateKey with the blank check dropped.
ValidateKeyAllowBlank(key) ==
    IF Len(key) > KEY_LENGTH THEN INVALID_KEY
    ELSE key \o [i \in 1 .. KEY_LENGTH - Len(key) |-> SPACE]

\* validateKey (util.cpp:24-46): too long or holding a blank is invalid,
\* otherwise the key is right-padded with blanks to KEY_LENGTH.
ValidateKey(key) ==
    IF Len(key) > KEY_LENGTH THEN INVALID_KEY
    ELSE IF \E i \in 1 .. Len(key) : key[i] = SPACE THEN INVALID_KEY
    ELSE key \o [i \in 1 .. KEY_LENGTH - Len(key) |-> SPACE]

\* trim (util.cpp:58-66): every blank is removed, wherever it is.
Trim(str) == SelectSeq(str, LAMBDA c : c /= SPACE)

\* s.find(d, from) for a one-byte delimiter: its position, or 0 for npos.
Find(s, d, from) ==
    LET at == {i \in from .. Len(s) : s[i] = d}
    IN  IF at = {} THEN 0 ELSE Min(at)

\* The loop of split (util.cpp:11-18): cut at each delimiter; the tail
\* after the last one is kept only when it is not empty.
RECURSIVE SplitLoop(_, _, _, _, _)
SplitLoop(s, d, pos1, pos2, res) ==
    IF pos2 = 0
    THEN IF pos1 /= Len(s) + 1 THEN Append(res, SubSeq(s, pos1, Len(s))) ELSE res
    ELSE SplitLoop(s, d, pos2 + 1, Find(s, d, pos2 + 1),
                   Append(res, SubSeq(s, pos1, pos2 - 1)))

\* split(s, delimiter) (util.cpp:5-21), for a one-byte delimiter.
Split(s, d) == SplitLoop(s, d, 1, Find(s, d, 1), <<>>)

\* The pivot list generatePivots persists (buffer_manager.cpp:93-99):
\* every pivot followed by '|'.
PivotInfo(ps) == FoldLeft(LAMBDA acc, k : acc \o k \o <<BAR>>, <<>>, ps)

=============================================================================
