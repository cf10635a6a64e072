-------------------------- MODULE SupervisorProofs --------------------------
(***************************************************************************)
(* Proofs about the supervisor composed with the gateway session.          *)
(*                                                                         *)
(* ExitCodes is not inductive by itself: a WaitExit step takes the exit    *)
(* code from the BYE frame, and ExitCodes speaks of the Restart the        *)
(* listener decoded.  The strengthening says the BYE carries exactly the   *)
(* decoded status: only the Restart listener calls Done.                   *)
(***************************************************************************)
EXTENDS Supervisor, TLAPS

USE SupervisorAssumption

(* The BYE frame and the decoded Restart agree, and ExitCodes holds.      *)
IInv ==
    /\ TypeOK
    /\ bye = restart
    /\ ExitCodes

LEMMA InitIInv == Init => IInv
BY DEF Init, SessionInit, IInv, TypeOK, ExitCodes, SessionStates

LEMMA NextIInv == IInv /\ [Next]_vars => IInv'
<1> SUFFICES ASSUME IInv, [Next]_vars PROVE IInv'
    OBVIOUS
<1>1. CASE ParseArgs
    BY <1>1 DEF IInv, TypeOK, ExitCodes, ParseArgs, Exit, sessionVars
<1>2. CASE DecodeSecret
    BY <1>2 DEF IInv, TypeOK, ExitCodes, DecodeSecret, Exit, sessionVars
<1>3. CASE Connect
    BY <1>3 DEF IInv, TypeOK, ExitCodes, Connect, InitClient, Exit, SessionStates
<1>4. CASE InitKube
    BY <1>4 DEF IInv, TypeOK, ExitCodes, InitKube, Exit, sessionVars
<1>5. CASE AddDecisionListener
    BY <1>5 DEF IInv, TypeOK, ExitCodes, AddDecisionListener, AddListener, Kinds
<1>6. CASE AddRestartListener
    BY <1>6 DEF IInv, TypeOK, ExitCodes, AddRestartListener, AddListener, Kinds
<1>7. CASE InitEvents
    BY <1>7 DEF IInv, TypeOK, ExitCodes, InitEvents, sessionVars
<1>8. CASE InitMetrics
    BY <1>8 DEF IInv, TypeOK, ExitCodes, InitMetrics, Fatalf, Exit, sessionVars
<1>9. CASE InitScalars
    BY <1>9 DEF IInv, TypeOK, ExitCodes, InitScalars, sessionVars
<1>10. CASE WaitExit
    (* The exit code is the BYE's status, which is the decoded Restart's. *)
    BY <1>10 DEF IInv, TypeOK, ExitCodes, WaitExit, sessionVars
<1>11. CASE \E s \in Statuses : OnRestart(s)
    BY <1>11 DEF IInv, TypeOK, ExitCodes, OnRestart, Done, SessionStates
<1>12. CASE Session
    BY <1>12 DEF IInv, TypeOK, ExitCodes, Session, ReaderExit, Disconnect, Reconnect,
                 Unhandled, SessionStates, Kinds
<1>13. CASE UNCHANGED vars
    BY <1>13 DEF IInv, TypeOK, ExitCodes, vars
<1> QED
    BY <1>1, <1>2, <1>3, <1>4, <1>5, <1>6, <1>7, <1>8, <1>9, <1>10, <1>11, <1>12, <1>13
       DEF Next, Main

(* Spec section 6: whatever the order of main, the reader task and the  *)
(* gateway, and for any set of Restart statuses, the agent exits with     *)
(* status 0 only on a Restart packet with status 0.                       *)
THEOREM ExitCodesTheorem == Spec => []ExitCodes
<1>1. Init => IInv
    BY InitIInv
<1>2. IInv /\ [Next]_vars => IInv'
    BY NextIInv
<1>3. IInv => ExitCodes
    BY DEF IInv
<1> QED
    BY <1>1, <1>2, <1>3, PTL DEF Spec

=============================================================================
