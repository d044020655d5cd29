---------------------------- MODULE MCFileCache ----------------------------
(* A small instance of the archive lookup memo: one name whose three keys   *)
(* (everywhere, and in either archive) share a bucket of two ways.          *)
EXTENDS FileCache

CONSTANTS h1, h2

Alike == Permutations({h1, h2})

\* The archive searched first is redirected to the other one, if that has the
\* file too.
TheOther == [h \in Handles |-> CHOOSE other \in Handles : other # h]

OneBucket == [k \in Keys |-> 0]

\* The file is not in the archive, or at an index of its table that no other
\* mounted archive uses.
Contents == [Names -> 0 .. MaxChanges]

OwnIndex == \A h \in Handles, n \in Names :
  blocks'[h][n] # blocks[h][n] => blocks'[h][n] \in {0, changes'}

OwnIndexSpec == Init /\ [][Next /\ OwnIndex]_vars

\* The file-open path, and a call that wants both archives: the hook serves every
\* set of out-pointers, and this one brings a found archive without a block index.
CallSites == {{"archive", "block"}, {"archive", "found_in"}}
=============================================================================
