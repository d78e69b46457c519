--------------------------- MODULE MCBinSchedule ----------------------------
(* Small instances of BinSchedule. *)
EXTENDS BinSchedule

\* No noise, noise below one block, and noise beyond the window either way.
MCNoises == {-13, 0, 1, 15}

\* Runs of up to three blocks of two records, with a partial last block, whose
\* keys interleave, are equal, and lie apart.
MCRunViews == {<<>>, <<3>>, <<2, 6>>, <<1, 4, 6>>, <<4, 5, 6, 7>>, <<1, 3, 4, 6, 8>>}
=============================================================================
