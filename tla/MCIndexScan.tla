---------------------------- MODULE MCIndexScan -----------------------------
(* Keys of up to two bytes over 'a' and 'b'; a client may also pass a     *)
(* blank or a third byte, which validateKey rejects.  The sorted keys are *)
(* "a ", "aa", "ab", "b ", "ba", "bb"; pivots "aa" and "b " make three    *)
(* groups of two.  PIVOTS_KEY sorts below every key ("!"), between the    *)
(* pivots ("ab!") or above every key ("~").                               *)
EXTENDS IndexScan

MCChars == {32, 97, 98}
MCPivots == <<<<97, 97>>, <<98, 32>>>>
MCPivotsKeyChoices == {<<33>>, <<97, 98, 33>>, <<126>>}
\* A PIVOTS_KEY that sorts below every key.
MCPivotsKeyLow == {<<33>>}

\* Keys over 'a' and '|': "a|" is a valid key and a pivot.
MCBarChars == {97, 124}
MCBarPivots == <<<<97, 124>>, <<124, 97>>>>
\* Keys over 'a' and a tab (9), a byte that sorts below the blank.
MCTabChars == {9, 97}
MCTabPivots == <<<<97, 9>>, <<97, 97>>>>
=============================================================================
