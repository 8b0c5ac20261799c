------------------------------- MODULE MCLedger -------------------------------
(* A small instance of two machines in which work is claimed under a status  *)
(* and may be asked for again: the ledger of member operations and the check *)
(* against the partner's works.  They share no state; a behaviour is about   *)
(* one of them, its `focus`.                                                 *)
EXTENDS OperationLedger, PartnerCheck, TLC

VARIABLE focus

MCEnvelope == <<"op1", "op2">>
MCKind == [o \in {"op1", "op2"} |-> IF o = "op1" THEN "add" ELSE "update"]
MCKeywordOf == [t \in Titles |-> t]

claimVars == <<vars, checkVars, focus>>

ClaimInit ==
  /\ focus \in {"ledger", "check"}
  /\ Init /\ (focus = "ledger" \/ full)
  /\ CheckInit
  /\ focus = "check" \/ (title = "work" /\ \A k \in Searchable : catalog.page[k] = 0)

ClaimNext ==
  /\ focus' = focus
  /\ \/ focus = "ledger" /\ LedgerNext /\ UNCHANGED checkVars
     \/ focus = "check" /\ CheckNext /\ UNCHANGED vars

\* The fairness of LedgerSpec, where the ledger moves at all, and of CheckSpec,
\* none of whose obligations arises where nobody asks for a check.
ClaimFairness ==
  /\ \A k \in Workers : /\ WF_vars(focus = "ledger" /\ Work(k))
                        /\ WF_vars(focus = "ledger" /\ Start(k))
  /\ \A o \in Operations : WF_vars(focus = "ledger" /\ Expire(o))
  /\ CheckFairness

ClaimSpec == ClaimInit /\ [][ClaimNext]_claimVars /\ ClaimFairness
=============================================================================
