-------------------------------- MODULE MCControl -----------------------------
(***************************************************************************)
(* The connections that control.go makes, for TLC: those on which it       *)
(* discovers the protocol version (Startup), and then the control          *)
(* connection and those that replace it (ControlConn).  The version is     *)
(* settled before controlConn.connect begins, so a behaviour is one of     *)
(* either.                                                                 *)
(***************************************************************************)
EXTENDS ControlConn, Startup

VARIABLE part     \* "startup" or "control"

\* One host of every kind, and a second one after a host that may fail.
HostKinds == [max : 3..5, lz4 : BOOLEAN, login : Logins]
MCHosts ==
  {<<h>> : h \in HostKinds}
    \cup {<<[max |-> 4, lz4 |-> TRUE, login |-> "none"], h>> :
            h \in [max : {3, 5}, lz4 : {FALSE}, login : {"none"}]}
MCClients == [lz4 : BOOLEAN, auth : {"nil", "password", "rounds"}]

ControlInit ==
  /\ part \in {"startup", "control"}
  /\ Init /\ StartupInit
  /\ part = "startup" \/ <<hosts, client>> = CHOOSE x \in Hosts \X Clients : TRUE

ControlNext ==
  \/ part = "startup" /\ StartupNext /\ UNCHANGED <<part, vars>>
  \/ part = "control" /\ Next /\ UNCHANGED <<part, startupVars>>

\* The fairness of each module's FairSpec, for the part that runs.
Runs(A) == part = "control" /\ A
Starts(A) == part = "startup" /\ outcome # "panic" /\ A
ControlSpec ==
  /\ ControlInit /\ [][ControlNext]_<<part, vars, startupVars>>
  /\ WF_vars(Runs(init)) /\ WF_vars(Runs(heartBeat))
  /\ WF_vars(Runs(CloseControl \/ CloseConn \/ StopRing)) /\ SF_vars(Runs(SendQuit))
  /\ \A p \in Procs : WF_vars(Runs(reconnect(p)))
  /\ \A k \in Conns : WF_vars(Runs(HandleError(k))) /\ WF_vars(Runs(Collect(k)))
  /\ WF_startupVars(Starts(Driver))
  /\ WF_startupVars(Starts(ConnectTimeout \/ SelectDone))
  /\ WF_startupVars(Starts(Options \/ ExecGivesUp))
  /\ WF_startupVars(Starts(Reader))

\* discoverProtocol ends and leaves no goroutine behind (Startup).
DiscoveryEnds == part = "startup" => StartupEnds

===============================================================================
