----------------------------- MODULE MCDetachedJob -----------------------------
(* DetachedJob for TLC: partitions and inheritances as definitions.        *)
EXTENDS DetachedJob

MCPartitions == {<<0, 1>>, <<0, 2>>}
MCInheritances == {{}, {2}}
=============================================================================
