------------------------------ MODULE HealthCall ------------------------------
(***************************************************************************)
(* What a caller of getHealth may rely on, of zookeeper/ZKClusterWatcher   *)
(* and of kafka/KFClusterWatcher alike.  Both put the health of the        *)
(* cluster together from statuses that they read one after the other, so   *)
(* that the answer need not be the health at the instant of the return.    *)
(* ZKHealth and KFHealth are the two, each with its own statuses.          *)
(***************************************************************************)
VARIABLES answer,   \* what the last call returned, or the exception it threw
          seen,     \* history: what the health has been since the call began
          disturbed \* history: has a status moved the wrong way since then?

\* No answer yet, and what is thrown in place of one.
NoHealth == {"none", "IllegalState", "ZKMonitor", "KFMonitor"}

\* The health returned has been the health of the cluster at some instant of the
\* call, unless a status has moved, in the middle of the call, the way that the
\* order of reading does not bear: for Zookeeper, which reads its nodes first and
\* the cluster last, an improvement; for Kafka, which goes through its brokers
\* twice, a broker that gets worse.
AnswerWasTrue == answer \notin NoHealth /\ ~ disturbed => answer \in seen

=============================================================================
