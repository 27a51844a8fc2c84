------------------------------- MODULE MCWire -------------------------------
(* A small instance of Wire: READs around both limits of the transport and  *)
(* the end of the file, pages with names whose padding differs, the last    *)
(* one of them a page whose count has wrapped.                              *)
EXTENDS Wire

MCCounts == {0, 1, NFS_MAXDATA_UDP, NFS_MAXDATA_TCP, 2 * NFS_MAXDATA_TCP}
MCLefts == {0, 1, 2, 3} \cup {limit + k : limit \in {NFS_MAXDATA_UDP, NFS_MAXDATA_TCP}, k \in 0 .. 2}
MCPages == {<<>>, <<1>>, <<4, 255>>, [i \in 1 .. 14 |-> 255], [i \in 1 .. 170 |-> 255]}
=============================================================================
