----------------------------- MODULE MCCertRollout -----------------------------
(* Instances of CertRollout for TLC. *)
EXTENDS CertRollout, TLC

OneMaster   == {"agt1"}
OneFollower == {"agt2"}
StageDelays == [f \in Followers |-> 1]
AnyFault    == Kinds
FailedSwap  == {"swap"}
=============================================================================
