-------------------------- MODULE ToolCallContract --------------------------
(***************************************************************************)
(* What the provider may rely on for the function calls it issues: at most *)
(* one response per call, and none on a server session other than the one  *)
(* that issued it.  A withdrawn call is the exception the code makes: the  *)
(* session forgets which connection it came from.                          *)
(***************************************************************************)
EXTENDS Naturals

CONSTANTS Calls

VARIABLES session,    \* the server session, numbered from 1
          issued,     \* the session that issued a call, 0 before
          withdrawn,  \* calls the provider cancelled
          answers     \* responses written for a call

contractVars == <<session, issued, withdrawn, answers>>

ContractInit ==
  /\ session = 1
  /\ issued = [c \in Calls |-> 0]
  /\ withdrawn = {}
  /\ answers = [c \in Calls |-> 0]

Issue(c) ==
  /\ issued[c] = 0
  /\ issued' = [issued EXCEPT ![c] = session]
  /\ UNCHANGED <<session, withdrawn, answers>>

Withdraw(c) ==
  /\ issued[c] = session
  /\ withdrawn' = withdrawn \cup {c}
  /\ UNCHANGED <<session, issued, answers>>

\* Several responses held back together are written together.
Answer(batch) ==
  /\ \A c \in batch : answers[c] = 0 /\ (issued[c] = session \/ c \in withdrawn)
  /\ answers' = [c \in Calls |-> IF c \in batch THEN 1 ELSE answers[c]]
  /\ UNCHANGED <<session, issued, withdrawn>>

NewSession ==
  /\ session' = session + 1
  /\ UNCHANGED <<issued, withdrawn, answers>>

ContractNext ==
  \/ \E c \in Calls : Issue(c) \/ Withdraw(c)
  \/ \E batch \in SUBSET Calls : Answer(batch)
  \/ NewSession

ContractSpec == ContractInit /\ [][ContractNext]_contractVars
=============================================================================
