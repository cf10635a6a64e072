--------------------------- MODULE GatewaySession ---------------------------
(***************************************************************************)
(* The lifecycle of the agent's gateway session (the `client` package,     *)
(* which is not in src/), written from spec.md section 4.2.  Only what the *)
(* supervisor's start-up and shutdown depend on is kept: the session is    *)
(* opened by InitClient, listeners are registered per packet kind, Done    *)
(* sends a BYE with a status and starts draining, the reader task exits    *)
(* once the drain is over, a rejected re-authentication closes the session *)
(* for good, and Fatalf mirrors a log record to the gateway while the      *)
(* session is live.  A dropped connection reconnects, and the handshake    *)
(* may then be rejected.  Framing, the pending-request table, the backoff  *)
(* delays and the outbound queue are left out.                             *)
(*                                                                         *)
(* The operators here are parts of actions; the supervisor's module        *)
(* composes them with the steps of main.                                   *)
(***************************************************************************)
EXTENDS Naturals

CONSTANTS
    Statuses,   \* status codes a Restart packet may carry
    SendLogs,   \* FALSE when the agent runs with --no-send-logs
    Nil

Kinds == {"Decision", "Restart"}
SessionStates == {"none", "live", "reconnecting", "draining", "closed", "rejected"}

VARIABLES
    session,      \* "none" before InitClient connected, then as SessionStates
    listeners,    \* the packet kinds a listener is registered for
    bye,          \* the status of the BYE frame sent, or Nil
    remoteFatal,  \* a fatal log record reached the gateway
    dropped       \* the push kinds a frame arrived for with no listener

sessionVars == <<session, listeners, bye, remoteFatal, dropped>>

SessionInit ==
    /\ session = "none"
    /\ listeners = {}
    /\ bye = Nil
    /\ remoteFatal = FALSE
    /\ dropped = {}

(* client.InitClient: dial, send AUTH and await AUTH_OK.  A failed dial  *)
(* or an AUTH_REJECT is an error and leaves no session.                   *)
InitClient(ok) ==
    /\ session' = IF ok THEN "live" ELSE "none"
    /\ UNCHANGED <<listeners, bye, remoteFatal, dropped>>

(* AddListener(kind, handler).                                            *)
AddListener(k) ==
    /\ listeners' = listeners \cup {k}
    /\ UNCHANGED <<session, bye, remoteFatal, dropped>>

(* Done(status): the BYE frame carries the status; the session drains.   *)
Done(s) ==
    /\ session = "live"
    /\ bye' = s
    /\ session' = "draining"
    /\ UNCHANGED <<listeners, remoteFatal, dropped>>

(* Fatalf: logged locally, and mirrored to the gateway when logs are sent *)
(* and the session still accepts frames.                                  *)
Fatalf ==
    /\ remoteFatal' = (remoteFatal \/ (SendLogs /\ session = "live"))
    /\ UNCHANGED <<session, listeners, bye, dropped>>

(* The drain is over: in-flight requests completed or timed out, and the  *)
(* reader task exits.                                                     *)
ReaderExit ==
    /\ session = "draining"
    /\ session' = "closed"
    /\ UNCHANGED <<listeners, bye, remoteFatal, dropped>>

(* A read, write or deadline error: the session reconnects after backoff. *)
Disconnect ==
    /\ session = "live"
    /\ session' = "reconnecting"
    /\ UNCHANGED <<listeners, bye, remoteFatal, dropped>>

(* The handshake on the new connection: AUTH_OK makes the session live   *)
(* again, AUTH_REJECT closes it for good.                                 *)
Reconnect ==
    /\ session = "reconnecting"
    /\ \E ok \in BOOLEAN : session' = IF ok THEN "live" ELSE "rejected"
    /\ UNCHANGED <<listeners, bye, remoteFatal, dropped>>

(* The reader task gets a push frame of kind k with no listener for it:  *)
(* it is logged at warning and dropped.                                   *)
Unhandled(k) ==
    /\ session = "live" /\ k \notin listeners
    /\ dropped' = dropped \cup {k}
    /\ UNCHANGED <<session, listeners, bye, remoteFatal>>

(* A session whose reader task has exited: WaitExit returns.              *)
ReaderGone == session \in {"closed", "rejected"}

=============================================================================
