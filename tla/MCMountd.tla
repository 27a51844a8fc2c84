------------------------------ MODULE MCMountd ------------------------------
(* Two hosts; the root, a directory in two spellings, and a path too long  *)
(* to be mounted.                                                          *)
EXTENDS Mountd

CONSTANTS a, b

MCName == {a, b}
MCDirpath == {<<Root, 0>>, <<<<a>>, 0>>, <<<<a>>, 1>>, <<<<b, a>>, 0>>}
=============================================================================
