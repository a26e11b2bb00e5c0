------------------------ MODULE MCFundingScenarios -------------------------
(***************************************************************************)
(* Two scenarios of the funding pipeline, so that neither has to be        *)
(* checked with the deposits of the other.                                 *)
(***************************************************************************)
EXTENDS MCFundingPipeline

VARIABLE scenario

(* An account that pays for both settlements, and one that pays for less.  *)
Large == {Account(Owner, Owner, v1, 9)}

(* Accounts of which only some together can pay one settlement: in two     *)
(* epochs they are in different states and only some can be merged.  They  *)
(* are deposited in the order 3, 7, 6 of their lamports.                   *)
Mixed == {Account(Bonds, Bonds, v1, n) : n \in {3, 6, 7}}

TheDeposits == Large \cup Mixed

Deposited == Supply - wallet'

InScenario ==
    \/ /\ scenario = "large"
       /\ put' # put \/ \A d \in Mixed : wallet - wallet' # d.lamports
    \/ /\ scenario = "mixed"
       /\ Deposited \in {0, 3, 10, 16}
       /\ \A s \in Settlements \ {s1} : ~settlements'[s].exists

ScenarioInit == PipelineInit /\ scenario \in {"large", "mixed"}

ScenarioSpec ==
    /\ ScenarioInit
    /\ [][PipelineNext /\ InScenario /\ UNCHANGED scenario]_<<pipelineVars, scenario>>
    /\ PipelineFairness
=============================================================================
