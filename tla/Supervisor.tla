----------------------------- MODULE Supervisor -----------------------------
(***************************************************************************)
(* The agent's main (src/unnamed/part_000), composed with the lifecycle of *)
(* the gateway session it opens.                                           *)
(*                                                                         *)
(* main parses the flags, decodes the client secret, connects to the       *)
(* gateway (deferring WaitExit and Recover), initialises Kubernetes, the   *)
(* scanner and the executor, registers the Decision and Restart listeners, *)
(* starts events, metrics and scalar, and returns into the deferred        *)
(* WaitExit.  Every start-up error but the first ends in os.Exit(1), which *)
(* runs no deferred call.  The Restart listener runs on the session's      *)
(* reader task, concurrently with main, and calls Done(status).           *)
(*                                                                         *)
(* The scanner, executor, events and scalar initialisers have no error    *)
(* path and touch no state the properties read; they are the pc steps     *)
(* they take.  A push that arrives before its listener is registered is  *)
(* dropped by the reader task; a Restart packet that does not decode      *)
(* changes nothing and is left out.                                       *)
(***************************************************************************)
EXTENDS GatewaySession

VARIABLES
    pc,         \* where main is
    restart,    \* the status the Restart listener decoded, or Nil
    exitCode    \* the process's exit code once it exited, or Nil

vars == <<pc, restart, exitCode, session, listeners, bye, remoteFatal, dropped>>

ASSUME SupervisorAssumption ==
    /\ Statuses \subseteq Nat
    /\ SendLogs \in BOOLEAN
    /\ Nil \notin Nat

Init ==
    /\ pc = "args"
    /\ restart = Nil
    /\ exitCode = Nil
    /\ SessionInit

(* os.Exit(code): the process ends at once; no deferred call runs.        *)
Exit(code) ==
    /\ pc' = "exited"
    /\ exitCode' = code
    /\ UNCHANGED restart

(* docopt.ParseArgs; an error is a panic, exit status 2.                 *)
ParseArgs ==
    /\ pc = "args"
    /\ \/ pc' = "secret" /\ UNCHANGED <<restart, exitCode>>
       \/ Exit(2)
    /\ UNCHANGED sessionVars

(* base64-decode --client-secret; stderr.Fatalf only logs locally.        *)
DecodeSecret ==
    /\ pc = "secret"
    /\ \/ pc' = "connect" /\ UNCHANGED <<restart, exitCode>>
       \/ Exit(1)
    /\ UNCHANGED sessionVars

(* client.InitClient, then `if err != nil { stderr.Fatalf; os.Exit(1) }`. *)
Connect ==
    /\ pc = "connect"
    /\ \E ok \in BOOLEAN :
         /\ InitClient(ok)
         /\ IF ok THEN pc' = "kube" /\ UNCHANGED <<restart, exitCode>>
                  ELSE Exit(1)

(* kuber.InitKubernetes; its error goes to stderr.Fatalf and os.Exit(1). *)
InitKube ==
    /\ pc = "kube"
    /\ \/ pc' = "decision" /\ UNCHANGED <<restart, exitCode>>
       \/ Exit(1)
    /\ UNCHANGED sessionVars

(* InitScanner, InitExecutor, AddListener(PacketKindDecision, ...).       *)
AddDecisionListener ==
    /\ pc = "decision"
    /\ pc' = "restart"
    /\ AddListener("Decision")
    /\ UNCHANGED <<restart, exitCode>>

(* AddListener(PacketKindRestart, ...).                                  *)
AddRestartListener ==
    /\ pc = "restart"
    /\ pc' = "events"
    /\ AddListener("Restart")
    /\ UNCHANGED <<restart, exitCode>>

(* events.InitEvents when events are enabled.                            *)
InitEvents ==
    /\ pc = "events"
    /\ pc' = "metrics"
    /\ UNCHANGED <<restart, exitCode>> /\ UNCHANGED sessionVars

(* metrics.InitMetrics when metrics are enabled; its error goes to        *)
(* gwClient.Fatalf and os.Exit(1).                                        *)
InitMetrics ==
    /\ pc = "metrics"
    /\ \/ pc' = "scalar" /\ UNCHANGED <<restart, exitCode>> /\ UNCHANGED sessionVars
       \/ Fatalf /\ Exit(1)

(* scalar.InitScalars when enabled; main returns, the deferred Recover   *)
(* finds no panic and the deferred WaitExit blocks.                      *)
InitScalars ==
    /\ pc = "scalar"
    /\ pc' = "wait"
    /\ UNCHANGED <<restart, exitCode>> /\ UNCHANGED sessionVars

(* A variant of WaitExit that always ends the process with status 0.     *)
WaitExitZero ==
    /\ pc = "wait" /\ ReaderGone
    /\ pc' = "exited" /\ exitCode' = 0
    /\ UNCHANGED restart /\ UNCHANGED sessionVars

(* gwClient.WaitExit: once the reader task exited, the process ends with *)
(* the status the BYE carried, or non-zero after a rejection.            *)
WaitExit ==
    /\ pc = "wait" /\ ReaderGone
    /\ pc' = "exited"
    /\ exitCode' = IF bye = Nil THEN 1 ELSE bye
    /\ UNCHANGED restart /\ UNCHANGED sessionVars

(* A variant of the Restart listener that returns without calling Done.  *)
OnRestartNoDone(s) ==
    /\ pc # "exited" /\ session = "live" /\ "Restart" \in listeners
    /\ restart' = s
    /\ UNCHANGED <<pc, exitCode>> /\ UNCHANGED sessionVars

(* The Restart listener, on the reader task: decode the packet, then the *)
(* deferred gwClient.Done(restart.Staus).                                 *)
OnRestart(s) ==
    /\ pc # "exited" /\ session = "live" /\ "Restart" \in listeners
    /\ restart' = s
    /\ Done(s)
    /\ UNCHANGED <<pc, exitCode>>

(* The session's own steps while the process runs.                        *)
Session ==
    /\ pc # "exited"
    /\ \/ ReaderExit \/ Disconnect \/ Reconnect
       \/ \E k \in Kinds : Unhandled(k)
    /\ UNCHANGED <<pc, restart, exitCode>>

Main ==
    \/ ParseArgs \/ DecodeSecret \/ Connect \/ InitKube
    \/ AddDecisionListener \/ AddRestartListener
    \/ InitEvents \/ InitMetrics \/ InitScalars \/ WaitExit

Next ==
    \/ Main
    \/ \E s \in Statuses : OnRestart(s)
    \/ Session

(* main is one goroutine that runs whenever it is not blocked, and the   *)
(* reader task finishes a drain; the gateway's pushes and rejections are *)
(* the environment's and need not happen.                                 *)
Spec ==
    /\ Init /\ [][Next]_vars
    /\ WF_vars(Main)
    /\ WF_vars(Session /\ session = "draining")

-----------------------------------------------------------------------------

TypeOK ==
    /\ pc \in {"args", "secret", "connect", "kube", "decision", "restart",
               "events", "metrics", "scalar", "wait", "exited"}
    /\ restart \in Statuses \cup {Nil}
    /\ exitCode \in Nat \cup {Nil}
    /\ session \in SessionStates
    /\ listeners \subseteq Kinds
    /\ bye \in Statuses \cup {Nil}
    /\ remoteFatal \in BOOLEAN
    /\ dropped \subseteq Kinds

(* Spec section 6, exit codes: the agent exits with status 0 only as the *)
(* result of a Restart packet with status 0; a fatal start-up error, a    *)
(* rejection or a non-zero Restart never ends it with 0, whatever the     *)
(* order of main, the reader task and the gateway.                        *)
ExitCodes ==
    (pc = "exited" /\ exitCode = 0) => restart = 0

(* Spec section 4.7: on a Restart packet the agent terminates.  Once the *)
(* listener has decoded a Restart, the process eventually exits, through  *)
(* the drain and WaitExit or through a start-up error.                    *)
RestartTerminates ==
    restart # Nil ~> pc = "exited"

(* Spec section 4.7 and the comment at part_000:122: on fatal errors the *)
(* agent sends the gateway a final BYE and exits, so once it has          *)
(* connected (and was not rejected) it never exits without a BYE that     *)
(* carries its exit code.                                                 *)
ExitAnnounced ==
    (pc = "exited" /\ session \in {"live", "draining", "closed"}) => bye = exitCode

=============================================================================
