---------------------------- MODULE MCFileCache -----------------------------
(* Two group files; threads and the state a process is in when the       *)
(* observed calls begin are given by each configuration.                  *)
EXTENDS FileCache

CONSTANTS t1, t2, t3

MCThreads1 == {t1}
MCThreads2 == {t1, t2}
MCThreads3 == {t1, t2, t3}
MCSymmetry == Permutations(MCThreads3)

\* Both files opened, group 0 first.
MCWarm == <<0, 1>>
\* Only group 1's handle still open.
MCOneOpen == <<1>>
MCNoneOpen == <<>>
=============================================================================
