---------------------------- MODULE MCAutomation ----------------------------
(* Small instances of Automation for TLC.                                    *)
EXTENDS Automation, TLC

CONSTANTS a1,      \* a job the agent creates
          c1, c2   \* jobs of config.yaml

MCLeftBehind == {[shot |-> TRUE, at |-> 0, enabled |-> TRUE, rev |-> 0]}

=============================================================================
