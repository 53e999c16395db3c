---------------------------------- MODULE Startup ----------------------------------
(***************************************************************************)
(* The start of a connection and the choice of a protocol version:         *)
(* discoverProtocol and tryProtocolVersionsForHost (control.go) dial each  *)
(* host with version 5, 4 and 3; setupConn (conn.go) runs the handshake in *)
(* two goroutines, one that sends OPTIONS, STARTUP and AUTH_RESPONSE       *)
(* (options) and one that reads a response for each tick of frameTicker    *)
(* (the reader), and waits for the first error, for success, or for        *)
(* ConnectTimeout.  Connections share nothing, so one dial is followed     *)
(* until its goroutines are gone before the next one starts.               *)
(***************************************************************************)
EXTENDS Integers, Sequences

CONSTANTS Hosts,         \* sequences of hosts, [max, lz4, login]: the highest version spoken,
                         \* compression offered, login: "none", "plain", "rounds" or "other"
          Clients,       \* [lz4, auth]: Compressor set, auth: "nil", "password" or "rounds"
          MaxRounds      \* bound: AUTH_CHALLENGEs of a login

Logins == {"none", "plain", "rounds", "other"}

\* max counts the versions up to 5, the driver's highest; a host may speak none of those.
ASSUME StartupAssumption ==
  /\ Hosts \subseteq Seq([max : 0 .. 5, lz4 : BOOLEAN, login : Logins])
  /\ Clients \subseteq [lz4 : BOOLEAN, auth : {"nil", "password", "rounds"}]
  /\ MaxRounds \in Nat

VARIABLES client,
          hosts,         \* hosts not tried yet, shuffled
          host, proto,   \* the dial at hand
          erred,         \* history: the versions that this host speaks, and yet answered with
                         \* an ERROR of code Protocol or Server
          main,          \* discover, dial, select, returned, found, failed
          outcome,       \* of setupConn: none, ok, unsupported, error, panic
          c              \* the connection that is set up

startupVars == <<client, hosts, host, proto, erred, main, outcome, c>>

\* same: it has the protocol version of the connection.
Message(kind, stream, same, segments, lz4) ==
  [kind |-> kind, stream |-> stream, same |-> same, segments |-> segments, lz4 |-> lz4]
NoMessage == Message("none", "own", TRUE, FALSE, FALSE)
Error == Message("error", "own", TRUE, FALSE, FALSE)

NewConn ==
  [opt |-> "tick",         \* options goroutine: tick, send, wait, handle, report, done
   stage |-> "options",    \* options, startup, auth
   reader |-> "range",     \* reader goroutine: range, load, recv, report, done
   completed |-> FALSE,    \* startupCompleted
   segments |-> FALSE,     \* what the reader loaded of it
   compressor |-> client.lz4, rounds |-> 0,
   expired |-> FALSE,      \* the startup context is done
   closed |-> FALSE,       \* the socket is closed, by either side
   request |-> NoMessage, reply |-> NoMessage,      \* on the wire
   result |-> NoMessage,   \* what the options goroutine got, or reports ("nil": no error)
   failure |-> NoMessage,  \* what the reader reports
   server |-> [segments |-> FALSE, lz4 |-> FALSE],  \* the layout the server speaks
   misread |-> FALSE]      \* a message was read in another layout than it was written in

StartupInit ==
  /\ hosts \in Hosts /\ client \in Clients
  /\ host = [max |-> 0, lz4 |-> FALSE, login |-> "none"] /\ proto = 5
  /\ erred = {} /\ main = "discover" /\ outcome = "none"
  /\ c = [NewConn EXCEPT !.opt = "done", !.reader = "done"]

--------------------------------------------------------------------------------
(* discoverProtocol and tryProtocolVersionsForHost *)

discoverProtocol ==
  /\ main = "discover"
  /\ IF hosts = <<>> THEN main' = "failed" /\ UNCHANGED <<hosts, host, proto, erred>>
     ELSE /\ host' = Head(hosts) /\ hosts' = Tail(hosts) /\ proto' = 5 /\ erred' = {}
          /\ main' = "dial"
  /\ UNCHANGED <<client, outcome, c>>

\* dialWithoutObserver and init, up to setupConn's select.  DialHost or AuthProvider may fail.
dialWithoutObserver ==
  /\ main = "dial"
  /\ \/ main' = "discover" /\ UNCHANGED <<outcome, c>>
     \/ main' = "select" /\ outcome' = "none" /\ c' = NewConn
  /\ UNCHANGED <<client, hosts, host, proto, erred>>

\* The version was refused: try a lower one; any other error: the next host.
tryProtocolVersionsForHost ==
  /\ main = "returned" /\ c.opt = "done" /\ c.reader = "done"
  /\ \/ outcome = "ok" /\ main' = "found" /\ UNCHANGED proto
     \/ outcome = "unsupported" /\ proto > 3 /\ main' = "dial" /\ proto' = proto - 1
     \/ (outcome = "error" \/ (outcome = "unsupported" /\ proto = 3))
        /\ main' = "discover" /\ UNCHANGED proto
  /\ c' = [c EXCEPT !.closed = TRUE]
  /\ UNCHANGED <<client, hosts, host, erred, outcome>>

--------------------------------------------------------------------------------
(* setupConn's select *)

\* SUPPORTED on stream 0 (a protocolError), or an ERROR with code Protocol or Server.
MutcheckProtocolRelatedError(err) == err.kind \in {"protocol error", "server error", "error"}
checkProtocolRelatedError(err) ==
  \/ err.kind = "supported" /\ err.stream = "zero"
  \/ err.kind \in {"protocol error", "server error"}

\* setupConn returns to dial, which closes the connection on an error.  The deferred
\* cancel ends the startup context.
Return(err, conn) ==
  /\ main = "select" /\ main' = "returned"
  /\ outcome' = IF err.kind = "nil" THEN "ok"
                ELSE IF checkProtocolRelatedError(err) THEN "unsupported" ELSE "error"
  /\ c' = [conn EXCEPT !.expired = TRUE, !.closed = @ \/ err.kind # "nil"]

\* A goroutine sends on startupErr, or gives up because the context is done.
MutReport(err, conn) == Return(err, conn)
Report(err, conn) ==
  \/ Return(err, conn)
  \/ c.expired /\ c' = conn /\ UNCHANGED <<main, outcome>>

ConnectTimeout ==
  /\ main = "select" /\ ~c.expired
  /\ c' = [c EXCEPT !.expired = TRUE]
  /\ UNCHANGED <<client, hosts, host, proto, erred, main, outcome>>

SelectDone ==
  /\ c.expired /\ Return(Error, c)
  /\ UNCHANGED <<client, hosts, host, proto, erred>>

--------------------------------------------------------------------------------
(* The options goroutine *)

\* write: a tick for the reader, or the context is done.
Tick ==
  /\ c.opt = "tick"
  /\ \/ c.reader = "range" /\ c' = [c EXCEPT !.opt = "send", !.reader = "load"]
     \/ c.expired /\ c' = [c EXCEPT !.opt = "report", !.result = Error]
  /\ UNCHANGED <<client, hosts, host, proto, erred, main, outcome>>

\* execInternal: segments only after the startup, and then compressed as agreed.  A write
\* error closes the connection.
execInternal ==
  /\ c.opt = "send"
  /\ c' = IF c.closed THEN [c EXCEPT !.opt = "report", !.result = Error]
          ELSE [c EXCEPT !.opt = "wait",
                         !.request = Message(c.stage, "own", TRUE, proto > 4 /\ c.completed, c.compressor)]
  /\ UNCHANGED <<client, hosts, host, proto, erred, main, outcome>>

\* What execInternal makes of a response: in another version it is an error, and a
\* protocolError only if it is an ERROR with code Protocol.
Response(reply) == IF reply.same \/ reply.kind = "protocol error" THEN reply ELSE Error

\* execInternal gives up: its timer, the context, or the connection was closed.
ExecGivesUp ==
  /\ c.opt = "wait"
  /\ c' = [c EXCEPT !.opt = "report", !.result = Error]
  /\ UNCHANGED <<client, hosts, host, proto, erred, main, outcome>>

Fail(err) == c' = [c EXCEPT !.opt = "report", !.result = err]

\* options, with the part of startup up to its write.
options ==
  /\ c.opt = "handle" /\ c.stage = "options"
  /\ IF c.result.kind = "supported"
     THEN c' = [c EXCEPT !.opt = "tick", !.stage = "startup", !.compressor = @ /\ host.lz4]
     ELSE Fail(c.result)
  /\ UNCHANGED <<client, hosts, host, proto, erred, main, outcome>>

\* startup after its write, and the part of authenticateHandshake up to its loop.  A
\* PasswordAuthenticator refuses a class that is not allowed.
Mutstartup ==
  /\ c.opt = "handle" /\ c.stage = "startup"
  /\ CASE c.result.kind = "ready" ->
            c' = [c EXCEPT !.opt = "report", !.completed = TRUE, !.result.kind = "nil"]
       [] c.result.kind = "authenticate" ->
            c' = [c EXCEPT !.opt = "tick", !.stage = "auth"]
       [] OTHER -> Fail(c.result)
  /\ UNCHANGED <<client, hosts, host, proto, erred, main, outcome>>
startup ==
  /\ c.opt = "handle" /\ c.stage = "startup"
  /\ CASE c.result.kind = "ready" ->
            c' = [c EXCEPT !.opt = "report", !.completed = TRUE, !.result.kind = "nil"]
       [] c.result.kind = "authenticate" ->
            IF client.auth = "nil" \/ (client.auth = "password" /\ host.login = "other")
            THEN c' = [c EXCEPT !.opt = "report", !.completed = TRUE, !.result = Error]
            ELSE c' = [c EXCEPT !.opt = "tick", !.completed = TRUE, !.stage = "auth"]
       [] OTHER -> Fail(c.result)
  /\ UNCHANGED <<client, hosts, host, proto, erred, main, outcome>>

\* authenticateHandshake's loop.  A PasswordAuthenticator leaves no challenger, which a
\* challenge dereferences.  An Authenticator may refuse a challenge or the success.
authenticateHandshake ==
  /\ c.opt = "handle" /\ c.stage = "auth"
  /\ CASE c.result.kind = "success" ->
            \/ c' = [c EXCEPT !.opt = "report", !.result.kind = "nil"] /\ UNCHANGED outcome
            \/ client.auth = "rounds" /\ Fail(Error) /\ UNCHANGED outcome
       [] c.result.kind = "challenge" /\ client.auth = "password" ->
            outcome' = "panic" /\ UNCHANGED c
       [] c.result.kind = "challenge" /\ client.auth = "rounds" ->
            /\ \/ Fail(Error)
               \/ c' = [c EXCEPT !.opt = "tick", !.rounds = @ + 1]
            /\ UNCHANGED outcome
       [] OTHER -> Fail(c.result) /\ UNCHANGED outcome
  /\ UNCHANGED <<client, hosts, host, proto, erred, main>>

\* The deferred close of frameTicker is part of the goroutine's end.
OptionsReports ==
  /\ c.opt = "report"
  /\ Report(c.result, [c EXCEPT !.opt = "done"])
  /\ UNCHANGED <<client, hosts, host, proto, erred>>

--------------------------------------------------------------------------------
(* The reader goroutine *)

Load ==
  /\ c.reader = "load"
  /\ c' = [c EXCEPT !.reader = "recv", !.segments = proto > 4 /\ c.completed]
  /\ UNCHANGED <<client, hosts, host, proto, erred, main, outcome>>

\* recv: a response for the call that waits; one nobody waits for is discarded; one on
\* stream 0 is an error; so is a closed socket.
recv ==
  /\ c.reader = "recv"
  /\ \/ /\ c.reply # NoMessage
        /\ c' = [c EXCEPT
                   !.reply = NoMessage,
                   !.misread = @ \/ c.segments # c.reply.segments
                                 \/ (c.segments /\ c.compressor # c.reply.lz4),
                   !.reader = IF c.reply.stream = "zero" THEN "report" ELSE "range",
                   !.failure = IF c.reply.stream = "zero" THEN c.reply ELSE @,
                   !.opt = IF c.reply.stream = "own" /\ @ = "wait" THEN "handle" ELSE @,
                   !.result = IF c.reply.stream = "own" /\ c.opt = "wait" THEN Response(c.reply) ELSE @]
     \/ /\ c.closed
        /\ c' = [c EXCEPT !.reader = "report", !.failure = Error]
  /\ UNCHANGED <<client, hosts, host, proto, erred, main, outcome>>

ReaderReports ==
  /\ c.reader = "report"
  /\ Report(c.failure, [c EXCEPT !.reader = "done"])
  /\ UNCHANGED <<client, hosts, host, proto, erred>>

\* The range ends when frameTicker is closed.
ReaderEnds ==
  /\ c.reader = "range" /\ c.opt = "done"
  /\ c' = [c EXCEPT !.reader = "done"]
  /\ UNCHANGED <<client, hosts, host, proto, erred, main, outcome>>

--------------------------------------------------------------------------------
(* The server (external) *)

ErrorCodes == {"protocol error", "server error"}

\* Any stage may end in an ERROR, of code Protocol, Server or another, also in a version
\* that the host speaks.
Answers ==
  IF proto > host.max
  THEN [kind : ErrorCodes, stream : {"own", "zero"}, same : BOOLEAN]
         \cup [kind : {"supported"}, stream : {"own", "zero"}, same : {FALSE}]
  ELSE [kind : ErrorCodes \cup {"error"} \cup
                 CASE c.request.kind = "options" -> {"supported"}
                   [] c.request.kind = "startup" ->
                        {IF host.login = "none" THEN "ready" ELSE "authenticate"}
                   [] OTHER ->
                        {"success"} \cup (IF host.login = "rounds" /\ c.rounds < MaxRounds
                                          THEN {"challenge"} ELSE {}),
        stream : {"own"}, same : {TRUE}]

\* The response has the layout of before the request; the one after STARTUP is accepted
\* has segments (version 5) and the compression that STARTUP asked for.
Serve ==
  /\ c.request # NoMessage /\ ~c.closed
  /\ \E a \in Answers :
       /\ c' = [c EXCEPT
                  !.request = NoMessage,
                  !.misread = @ \/ c.request.segments # c.server.segments
                                \/ (c.server.segments /\ c.request.lz4 # c.server.lz4),
                  !.reply = Message(a.kind, a.stream, a.same, c.server.segments, c.server.lz4),
                  !.server = IF a.kind \in {"ready", "authenticate"}
                             THEN [segments |-> proto > 4, lz4 |-> c.request.lz4] ELSE @]
       /\ erred' = erred \cup {v \in {proto} : v <= host.max /\ a.kind \in ErrorCodes}
  /\ UNCHANGED <<client, hosts, host, proto, main, outcome>>

\* The server, or the network, closes the connection.
Hangup ==
  /\ main = "select" /\ ~c.closed
  /\ c' = [c EXCEPT !.closed = TRUE]
  /\ UNCHANGED <<client, hosts, host, proto, erred, main, outcome>>

--------------------------------------------------------------------------------
Stop == main \in {"found", "failed"} \/ outcome = "panic"

Driver == discoverProtocol \/ dialWithoutObserver \/ tryProtocolVersionsForHost
Options == Tick \/ execInternal \/ options \/ startup \/ authenticateHandshake \/ OptionsReports
Reader == Load \/ recv \/ ReaderReports \/ ReaderEnds

StartupNext ==
  /\ outcome # "panic"
  /\ Driver \/ ConnectTimeout \/ SelectDone \/ Options \/ ExecGivesUp \/ Reader \/ Serve \/ Hangup

StartupSpec == StartupInit /\ [][StartupNext]_startupVars

\* Goroutines are scheduled, and a ConnectTimeout is set; the server may stay silent.
StartupFairSpec ==
  /\ StartupSpec
  /\ WF_startupVars(outcome # "panic" /\ Driver)
  /\ WF_startupVars(outcome # "panic" /\ (ConnectTimeout \/ SelectDone))
  /\ WF_startupVars(outcome # "panic" /\ (Options \/ ExecGivesUp))
  /\ WF_startupVars(outcome # "panic" /\ Reader)

--------------------------------------------------------------------------------
\* The three goroutines of a startup keep in step.  Both sides read every message of the
\* handshake in the layout it was written in: legacy frames up to the answer to STARTUP,
\* then segments (version 5), compressed only if the server offered the compressor;
\* startupCompleted is stored by one goroutine and loaded by the other.  When setupConn has
\* succeeded, init starts serve, which reads the same socket into the same headerBuf: the
\* startup's reader never reads again.
HandshakeInStep ==
  /\ ~c.misread
  /\ (main \in {"returned", "found"} /\ outcome = "ok") => c.reader \notin {"load", "recv"}

\* discoverProtocol settles below the highest version that the host speaks only if the host
\* answered each version in between with an ERROR of code Server or Protocol (which
\* checkProtocolRelatedError takes for a refusal, whatever it was about): no timeout, closed
\* socket, refused login or other error lowers the version, whichever goroutine reports
\* first, and no version is passed over because of what an earlier host answered.
HighestVersion ==
  main = "found" => proto <= host.max /\ proto + 1 .. host.max \subseteq erred

\* discoverProtocol ends whatever the hosts do: no goroutine of a startup stays behind
\* on the ticker, on startupErr or on the socket.
StartupEnds == <>Stop
================================================================================
