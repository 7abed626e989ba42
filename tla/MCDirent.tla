------------------------------ MODULE MCDirent ------------------------------
\* Records of one to three bytes in a buffer of four.
EXTENDS Dirent

MCNames == {"a", "bb", "ccc"}
MCRecLen == [a |-> 1, bb |-> 2, ccc |-> 3]

\* Batches that fill the buffer and batches that do not; an empty directory.
MCContent == [root |-> <<"a", "ccc", "bb", "ccc", "a">>, tmp |-> <<"bb", "bb">>, void |-> << >>]
MCFiles == {"file"}

=============================================================================
