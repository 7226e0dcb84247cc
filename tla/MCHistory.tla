----------------------------- MODULE MCHistory -----------------------------
(***************************************************************************)
(* History on a small instance: what the constants are for TLC.            *)
(***************************************************************************)
EXTENDS History, TLC

At(n, ts)   == [n |-> n, ts |-> ts]
Untimed(n)  == At(n, NoTime)

\* Two files that share a timed entry, one of which has an entry before its
\* first time; a file without times, which begins with a noise line.
MCImportFiles == {<<Untimed(1), At(2, 1)>>,
                  <<At(2, 1), At(3, 2)>>,
                  <<Untimed(0), Untimed(4)>>}

\* A file that ends without times less than an hour after its last time.
LateFiles == {<<At(1, 2), At(2, 3), Untimed(3)>>}

MCSymmetry == Permutations(Sessions)
=============================================================================
