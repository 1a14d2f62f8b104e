-------------------------- MODULE MCVerifyRepair --------------------------
(* A small instance of VerifyRepair: one defect of each kind that the loop   *)
(* treats differently.  A missing simulation is a warning here, a failed   *)
(* one blocks.                                                             *)
EXTENDS VerifyRepair

CONSTANTS fixable, nuisance, jammed, waived, unsimulated, unstable

MCDomainOf == [d \in Defects |->
    IF d \in {unsimulated, unstable} THEN "simulation" ELSE "erc"]
MCSeverity == [d \in Defects |->
    CASE d = unsimulated -> "skipped" [] d = nuisance -> "warning" [] OTHER -> "error"]
MCHandler == [d \in Defects |->
    CASE d \in {fixable, nuisance, waived} -> "fixes" [] d = jammed -> "raises" [] OTHER -> "none"]
MCEnabledDomains == <<"erc", "simulation">>
MCAdapters == <<"registry", "custom">>
===========================================================================
