---------------------------- MODULE MCEmailClient ----------------------------
(* EmailClient on a small instance: every text of up to five bytes, with   *)
(* room for three.                                                         *)
EXTENDS EmailClient

MCTexts == UNION {[1 .. n -> Bytes] : n \in 0 .. 5}

(* Where the texts do not matter.                                          *)
EmptyText == {<<>>}
=============================================================================
