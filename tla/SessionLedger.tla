----------------------------- MODULE SessionLedger -----------------------------
(***************************************************************************)
(* What the session history promises, whatever happens to the meter        *)
(* readings, the process or the plug: the energy of all sessions together  *)
(* never shrinks, and it is never more than what the charge meter counted. *)
(***************************************************************************)
EXTENDS Naturals

VARIABLES
    delivered,      \* what the charge meter has counted
    booked          \* the energy of all sessions in the history

ledgerVars == <<delivered, booked>>

LedgerInit == delivered = 0 /\ booked = 0

\* Energy flows.
Deliver ==
    /\ delivered' > delivered
    /\ UNCHANGED booked

\* A session is saved; some of the energy may be lost for good.
Book ==
    /\ booked' >= booked
    /\ booked' <= delivered
    /\ UNCHANGED delivered

LedgerNext == Deliver \/ Book

LedgerSpec == LedgerInit /\ [][LedgerNext]_ledgerVars
=============================================================================
