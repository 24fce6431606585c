--------------------------- MODULE MCDetachedCampaign ---------------------------
(***************************************************************************)
(* DetachedCampaign for TLC.  timed_out stands for the three ways to be    *)
(* interrupted, and results nothing can be built on are left out but for   *)
(* the one of a job that raised.                                           *)
(***************************************************************************)
EXTENDS DetachedCampaign, TLC

CONSTANTS t1, t2

ToolSymmetry == Permutations(Tools)

MCTouched == <<{}, {1}>>
MCCompatible == { <<t, t>> : t \in Tools }
MCResults == { e \in Evidences : /\ e.state \in {"passed", "partial", "failed", "timed_out"}
                                 /\ e.raised \/ e.passes # {} }
MCPartitions == {<<0, 1>>, <<0, 2>>, <<1, 2>>}
=============================================================================
