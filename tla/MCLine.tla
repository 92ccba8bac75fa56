-------------------------------- MODULE MCLine --------------------------------
(* Bytes and sizes for model checking the line. *)
EXTENDS Line

\* Bytes of fragments that look like headers when read out of step, and a length
\* of more than SignedMax.
MCBodies == {<<32, 2>>, <<0, 1, 64, 8>>}
MCOut == {<<3, 4>>}
\* The network refuses, which nobody looks at.
MCGreetings == {<<64, 1, 0>>}
MCGarbage == {131}
===============================================================================
