----------------------------- MODULE MCTxSubmit -----------------------------
(* Model values for TLC runs of TxSubmit. *)
EXTENDS TxSubmit

CONSTANTS plain, checked

MCTxs     == {plain, checked}
MCChecked == {checked}
MCPlain   == {plain}
MCNone    == {}
=============================================================================
