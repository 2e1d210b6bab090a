----------------------------- MODULE MCTestbed -----------------------------
(* Testbed on small instances: handshakes of two or four flights, each of  *)
(* the sizes below, in units.                                              *)
EXTENDS Testbed

ShortScript == {<<2, 2>>}
OneScript == {<<3, 3, 3, 2>>}
AllScripts == {<<a, b, c, d>> : a \in 1 .. 3, b \in 1 .. 4, c \in 1 .. 4, d \in 1 .. 2}
=============================================================================
