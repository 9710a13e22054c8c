--------------------------------- MODULE Aws ---------------------------------
(***************************************************************************)
(* The clients of packages/aws that keep state at the provider:            *)
(* deployments of a stack and the items of a table.  They share nothing.   *)
(***************************************************************************)
EXTENDS CloudFormation, DynamoDb

\* CloudformationClient and DynamodbClient: what they return is what the provider did.
AwsIsSound == DeploymentsTellTheTruth /\ TableIsSound
=============================================================================
