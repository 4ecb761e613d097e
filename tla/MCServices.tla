----------------------------- MODULE MCServices ------------------------------
(***************************************************************************)
(* What must never happen in the components that hold something of value:  *)
(* contracts and keeper, the deployment scripts, the signed requests, the  *)
(* quotes and the reads of the event store. Each runs alone, and `part`    *)
(* says which; the others rest in one of their initial states.             *)
(***************************************************************************)
EXTENDS MCBuybackKeeper, Deployment, SignedUpdates, QuoteRelay, StoreReads

CONSTANTS root, left, right

VARIABLE part

MCHash == {<< >>, <<root>>, <<root, left>>, <<root, right>>}

servicesVars == <<part, allVars, deploymentVars, signedVars, quoteVars, storeReadsVars>>

ServicesInit ==
    /\ part \in {"keeper", "deployment", "signed", "quotes", "reads"}
    /\ KeeperInit /\ DeploymentInit /\ SignedInit /\ QuoteInit
    /\ StoreReadsInit
    /\ part # "signed" => service = "metadata"

OfKeeper(A) == part = "keeper" /\ A
    /\ UNCHANGED <<part, deploymentVars, signedVars, quoteVars, storeReadsVars>>
OfDeployment(A) == part = "deployment" /\ A
    /\ UNCHANGED <<part, allVars, signedVars, quoteVars, storeReadsVars>>
OfSigned(A) == part = "signed" /\ A
    /\ UNCHANGED <<part, allVars, deploymentVars, quoteVars, storeReadsVars>>
OfQuotes(A) == part = "quotes" /\ A
    /\ UNCHANGED <<part, allVars, deploymentVars, signedVars, storeReadsVars>>
OfReads(A) == part = "reads" /\ A
    /\ UNCHANGED <<part, allVars, deploymentVars, signedVars, quoteVars>>

ServicesNext ==
    \/ OfKeeper(KeeperNext)
    \/ OfDeployment(DeploymentNext)
    \/ OfSigned(SignedNext)
    \/ OfQuotes(QuoteNext)
    \/ OfReads(StoreReadsNext)

ServicesSpec == ServicesInit /\ [][ServicesNext]_servicesVars
=============================================================================
