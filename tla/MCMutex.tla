------------------------------- MODULE MCMutex -------------------------------
(***************************************************************************)
(* Model checking of the two algorithms of src/mutex.  A program runs one  *)
(* or the other; algorithm says which.                                     *)
(***************************************************************************)
EXTENDS RicartAgrawala, MCMaekawa

CONSTANTS r1, r2

\* Nodes 0 and 1 compete for r1, and node 1 asks for r2 as well; node 2 only
\* answers.
WantsOfThree == 0 :> {r1} @@ 1 :> {r1, r2} @@ 2 :> {}

VARIABLE algorithm

MutexInit ==
  /\ algorithm \in {"ricart_agrawala", "maekawa"}
  /\ Init
  /\ MaekawaInit

MutexNext ==
  /\ \/ algorithm = "ricart_agrawala" /\ Next /\ UNCHANGED maekawaVars
     \/ algorithm = "maekawa" /\ MaekawaNext /\ UNCHANGED vars
  /\ UNCHANGED algorithm

mutexVars == <<algorithm, vars, maekawaVars>>

MutexThreads ==
  \/ algorithm = "ricart_agrawala" /\ Threads /\ UNCHANGED <<algorithm, maekawaVars>>
  \/ algorithm = "maekawa" /\ MThreads /\ UNCHANGED <<algorithm, vars>>

MutexSpec ==
  MutexInit /\ [][MutexNext]_mutexVars /\ WF_mutexVars(MutexThreads)

=============================================================================
