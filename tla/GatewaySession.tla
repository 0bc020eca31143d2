--------------------------- MODULE GatewaySession ---------------------------
(***************************************************************************)
(* The life of the gateway process (internal/cli/run.go), its session      *)
(* files (pkg/proxy/runstate.go), and the status command that finds the    *)
(* gateway through them (internal/cli/status.go, pkg/proxy/controlapi.go,  *)
(* token.go, guard.go).                                                    *)
(*                                                                         *)
(* Gateways share one data directory. A gateway is one process: it binds,  *)
(* writes run.json and then control.token, serves, and on a signal closes  *)
(* its listener, waits for its exchanges and removes both files. Its token *)
(* is fresh, so a gateway stands for its own token. A status command reads *)
(* the two files one after the other and then calls the gateway.           *)
(***************************************************************************)
EXTENDS Integers, FiniteSets

CONSTANTS
  Gateways,    \* the gateway processes a user starts, each once
  Commands,    \* the status commands a user runs, each once
  Ports,       \* the ports a user may configure
  Hosts,       \* Host headers of requests: [name, port]
  Origins,     \* Origin headers: NoOrigin, or [bare, name, port]
  NoOrigin,
  Nobody,      \* no gateway
  MaxRequests  \* bound on the requests one gateway serves

ASSUME SessionOK ==
  /\ Nobody \notin Gateways /\ NoOrigin \in Origins
  /\ MaxRequests \in Nat

VARIABLES
  life,     \* life[g]: "off", "bound", "named", "up", "serving", "stopping",
            \* "unnaming", "exited"
  port,     \* port[g], set when g binds
  listens,  \* the gateways whose listener is open
  exit,     \* exit[g]: "none", "clean" (0), "failed" (1) or "killed"
  live,     \* live[g]: exchanges in flight
  served,   \* served[g]: the requests g has let through, up to MaxRequests
  cut,      \* cut[g]: exchanges that died with the process
  runFile,  \* run.json: the gateway it describes, or Nobody
  tokFile,  \* control.token: the gateway whose token it is, or Nobody
  cmd,      \* cmd[c]: a status command
  faulted,  \* a gateway was killed, or a file could not be written or removed
  overlapped \* two gateways were alive at once

files == <<runFile, tokFile>>
notes == <<faulted, overlapped>>
sessionVars == <<life, port, listens, exit, live, served, cut, files, cmd, notes>>

Idle == [pc |-> "idle", run |-> Nobody, tok |-> Nobody, at |-> Nobody, result |-> "none"]

SessionInit ==
  /\ life = [g \in Gateways |-> "off"]
  /\ port \in [Gateways -> Ports]
  /\ listens = {}
  /\ exit = [g \in Gateways |-> "none"]
  /\ live = [g \in Gateways |-> 0]
  /\ served = [g \in Gateways |-> 0]
  /\ cut  = [g \in Gateways |-> 0]
  /\ runFile = Nobody /\ tokFile = Nobody
  /\ cmd  = [c \in Commands |-> Idle]
  /\ faulted = FALSE /\ overlapped = FALSE

Alive(g)  == life[g] \notin {"off", "exited"}
\* Its listener is open, or a connection it accepted before the signal brings
\* its request only now.
Serves(g) == life[g] \in {"up", "serving", "stopping"}
Enters(g, l) == life' = [life EXCEPT ![g] = l]
Calling(g) == {c \in Commands : cmd[c].at = g /\ cmd[c].pc = "handler"}

-----------------------------------------------------------------------------
(* runWith. *)

\* The recovery, the configuration, the pipeline and the bind: nothing is
\* written before the port is the gateway's own.
Bind(g) ==
  /\ life[g] = "off"
  /\ \A h \in listens : port[h] # port[g]
  /\ Enters(g, "bound")
  /\ listens' = listens \union {g}
  /\ overlapped' = (overlapped \/ \E h \in Gateways : Alive(h))
  /\ UNCHANGED <<port, exit, live, served, cut, files, cmd, faulted>>

\* A busy port, or a failure before the bind.
StartFails(g) ==
  /\ life[g] = "off"
  /\ Enters(g, "exited")
  /\ exit' = [exit EXCEPT ![g] = "failed"]
  /\ UNCHANGED <<port, listens, live, served, cut, files, cmd, notes>>

\* WriteSession, run.json first. A rename replaces whatever was there.
WriteRun(g) ==
  /\ life[g] = "bound"
  /\ Enters(g, "named")
  /\ runFile' = g
  /\ UNCHANGED <<port, listens, exit, live, served, cut, tokFile, cmd, notes>>

WriteToken(g) ==
  /\ life[g] = "named"
  /\ Enters(g, "up")
  /\ tokFile' = g
  /\ UNCHANGED <<port, listens, exit, live, served, cut, runFile, cmd, notes>>

\* The process ends: its listener closes and its exchanges die.
Exits(g, code) ==
  /\ Enters(g, "exited")
  /\ exit' = [exit EXCEPT ![g] = code]
  /\ listens' = listens \ {g}
  /\ cut'  = [cut EXCEPT ![g] = live[g]]
  /\ live' = [live EXCEPT ![g] = 0]
  /\ UNCHANGED <<port, served>>

\* Mutant of WriteFails: run.json stays when the token cannot be written.
WriteFails_KeepsRun(g) ==
  /\ life[g] \in {"bound", "named"}
  /\ Exits(g, "failed")
  /\ UNCHANGED <<files, cmd, notes>>

\* A failing write closes the listener; if it was the token's, run.json goes.
WriteFails(g) ==
  /\ life[g] \in {"bound", "named"}
  /\ Exits(g, "failed")
  /\ runFile' = IF life[g] = "named" THEN Nobody ELSE runFile
  /\ UNCHANGED <<tokFile, cmd, notes>>

\* serve has started its goroutine before it installs the signal handler.
Notify(g) ==
  /\ life[g] = "up"
  /\ Enters(g, "serving")
  /\ UNCHANGED <<port, listens, exit, live, served, cut, files, cmd, notes>>

\* A crash at any time; before Notify, an interrupt too.
Kill(g) ==
  /\ Alive(g)
  /\ Exits(g, "killed")
  /\ faulted' = TRUE
  /\ UNCHANGED <<files, cmd, overlapped>>

\* The signal: Shutdown closes the listener, which frees the port, and waits.
Interrupt(g) ==
  /\ life[g] = "serving"
  /\ Enters(g, "stopping")
  /\ listens' = listens \ {g}
  /\ UNCHANGED <<port, exit, live, served, cut, files, cmd, notes>>

\* Mutant of ShutdownEnds: the five seconds are over and the code is still 0.
ShutdownEnds_TimeoutIsClean(g) ==
  /\ life[g] = "stopping"
  /\ Enters(g, "unnaming")
  /\ exit' = [exit EXCEPT ![g] = "clean"]
  /\ runFile' = Nobody
  /\ UNCHANGED <<port, listens, live, served, cut, tokFile, cmd, notes>>

\* Mutant of ShutdownEnds: there is no deadline.
ShutdownEnds_NoDeadline(g) ==
  /\ life[g] = "stopping" /\ live[g] = 0 /\ Calling(g) = {}
  /\ Enters(g, "unnaming")
  /\ exit' = [exit EXCEPT ![g] = "clean"]
  /\ runFile' = Nobody
  /\ UNCHANGED <<port, listens, live, served, cut, tokFile, cmd, notes>>

\* Shutdown returns nil once nothing is in flight, and an error when the five
\* seconds are over. RemoveSession runs either way; here it removes run.json.
ShutdownEnds(g) ==
  /\ life[g] = "stopping"
  /\ Enters(g, "unnaming")
  /\ exit' = [exit EXCEPT ![g] = IF live[g] = 0 /\ Calling(g) = {} THEN "clean" ELSE "failed"]
  /\ runFile' = Nobody
  /\ UNCHANGED <<port, listens, live, served, cut, tokFile, cmd, notes>>

\* Serve failed: the deferred removal runs here too.
ServeFails(g) ==
  /\ life[g] = "serving"
  /\ Enters(g, "unnaming")
  /\ exit' = [exit EXCEPT ![g] = "failed"]
  /\ listens' = listens \ {g}
  /\ runFile' = Nobody
  /\ UNCHANGED <<port, live, served, cut, tokFile, cmd, notes>>

\* The rest of RemoveSession, and the process ends.
RemoveToken(g) ==
  /\ life[g] = "unnaming"
  /\ Exits(g, exit[g])
  /\ tokFile' = Nobody
  /\ UNCHANGED <<runFile, cmd, notes>>

\* A removal that fails leaves its file, and the other one is still tried.
RemoveFails(g) ==
  /\ life[g] \in {"stopping", "unnaming"}
  /\ faulted' = TRUE
  /\ IF life[g] = "stopping"
       THEN /\ Enters(g, "unnaming")
            /\ exit' = [exit EXCEPT ![g] =
                 IF live[g] = 0 /\ Calling(g) = {} THEN "clean" ELSE "failed"]
            /\ UNCHANGED <<port, listens, live, served, cut>>
       ELSE Exits(g, exit[g])
  /\ UNCHANGED <<files, cmd, overlapped>>

-----------------------------------------------------------------------------
(* Exchanges. *)

\* CheckHostOrigin, for a gateway on port p.
HostOriginOK(h, o, p) ==
  /\ h.name = "loopback" /\ h.port = p
  /\ o # NoOrigin => o.bare /\ o.name = h.name /\ o.port = h.port

\* countRequests: every request the host check lets through is counted first.
Request(g, h, o) ==
  /\ Serves(g) /\ HostOriginOK(h, o, port[g])
  /\ served[g] < MaxRequests
  /\ served' = [served EXCEPT ![g] = @ + 1]
  /\ live'  = [live EXCEPT ![g] = @ + 1]
  /\ UNCHANGED <<life, port, listens, exit, cut, files, cmd, notes>>

\* An exchange ends when its upstream has answered or response_timeout has passed.
Finish(g) ==
  /\ live[g] > 0 /\ Alive(g)
  /\ live' = [live EXCEPT ![g] = @ - 1]
  /\ UNCHANGED <<life, port, listens, exit, served, cut, files, cmd, notes>>

-----------------------------------------------------------------------------
(* readStatus. *)

Sets(c, changes) ==
  /\ cmd' = [cmd EXCEPT ![c] = [f \in DOMAIN Idle |->
       IF f \in DOMAIN changes THEN changes[f] ELSE cmd[c][f]]]
  /\ UNCHANGED <<life, port, listens, exit, live, served, cut, files, notes>>

Ends(c, result) == Sets(c, [pc |-> "done", result |-> result])

\* A missing file of either kind means that nothing runs.
ReadRun(c) ==
  /\ cmd[c].pc = "idle"
  /\ IF runFile = Nobody THEN Ends(c, "not running")
     ELSE Sets(c, [pc |-> "token", run |-> runFile])

ReadToken(c) ==
  /\ cmd[c].pc = "token"
  /\ IF tokFile = Nobody THEN Ends(c, "not running")
     ELSE Sets(c, [pc |-> "call", tok |-> tokFile])

\* Whoever listens on the port answers: ControlGuard compares the token, and a
\* refused connection or a refusal is an error.
Call(c) ==
  /\ cmd[c].pc = "call"
  /\ \/ /\ \A g \in listens : port[g] # port[cmd[c].run]
        /\ Ends(c, "error")
     \/ \E g \in Gateways :
          /\ Serves(g) /\ port[g] = port[cmd[c].run]
          /\ IF g = cmd[c].tok
               THEN Sets(c, [pc |-> "handler", at |-> g])
               ELSE Ends(c, "error")

\* ControlAPI.status answers with the gateway's counters.
AnswerStatus(c) ==
  /\ cmd[c].pc = "handler" /\ Alive(cmd[c].at)
  /\ Ends(c, "ok")

\* The client's five seconds, or a gateway that died.
CallFails(c) ==
  /\ cmd[c].pc \in {"call", "handler"}
  /\ Ends(c, "error")

-----------------------------------------------------------------------------
\* What a gateway does by itself once it runs.
Proceed(g) ==
  WriteRun(g) \/ WriteToken(g) \/ Notify(g) \/ ShutdownEnds(g) \/ RemoveToken(g)

Status(c) ==
  ReadRun(c) \/ ReadToken(c) \/ Call(c) \/ AnswerStatus(c) \/ CallFails(c)

SessionNext ==
  \/ \E g \in Gateways :
       \/ Bind(g) \/ StartFails(g) \/ Proceed(g) \/ WriteFails(g)
       \/ Kill(g) \/ Interrupt(g) \/ ServeFails(g) \/ RemoveFails(g)
       \/ Finish(g)
       \/ \E h \in Hosts, o \in Origins : Request(g, h, o)
  \/ \E c \in Commands : Status(c)

SessionSpec == SessionInit /\ [][SessionNext]_sessionVars

\* The scheduler runs a gateway that can run, and the timer of its shutdown
\* fires. Nothing makes an upstream answer, so an exchange may never finish, and
\* nothing makes a user interrupt or ask.
FairSessionSpec == SessionSpec /\ \A g \in Gateways : WF_sessionVars(Proceed(g))

-----------------------------------------------------------------------------
(* Properties. *)

SessionTypeOK ==
  /\ life \in [Gateways -> {"off", "bound", "named", "up", "serving", "stopping",
                            "unnaming", "exited"}]
  /\ port \in [Gateways -> Ports] /\ listens \subseteq Gateways
  /\ exit \in [Gateways -> {"none", "clean", "failed", "killed"}]
  /\ live \in [Gateways -> 0 .. MaxRequests] /\ cut \in [Gateways -> 0 .. MaxRequests]
  /\ served \in [Gateways -> 0 .. MaxRequests]
  /\ {runFile, tokFile} \subseteq Gateways \union {Nobody}
  /\ faulted \in BOOLEAN /\ overlapped \in BOOLEAN
  /\ \A g \in listens, h \in listens : port[g] = port[h] => g = h

\* Nobody is between two writes or two removals.
Settled == \A g \in Gateways : life[g] \in {"off", "up", "serving", "exited"}

\* While lives do not overlap, the files describe the gateway that runs, whatever
\* crashed before it; and unless something failed, a gateway that is gone is not
\* described (docs/architecture.md:251, "removed on clean shutdown").
FilesDescribeGateway ==
  Settled /\ ~ overlapped =>
    /\ \A g \in Gateways : Alive(g) => runFile = g /\ tokFile = g
    /\ ~ faulted => {g \in Gateways : runFile = g \/ tokFile = g} \subseteq
                      {g \in Gateways : Alive(g)}

\* An exit with code 0 has cut no exchange (run.go:222).
CleanExitCutsNothing ==
  \A g \in Gateways : life[g] = "exited" /\ exit[g] = "clean" => cut[g] = 0

\* An interrupted gateway ends, although an exchange may never do so.
InterruptEnds == \A g \in Gateways : life[g] = "stopping" ~> life[g] = "exited"

\* README.md:301, status "Reads the running gateway's metadata. ... When nothing
\* is running it prints `not running`": a gateway that goes on serving after every
\* other one has ended cleanly is still found.
GatewayFindable ==
  \A g \in Gateways :
    life[g] = "serving" /\ (\A h \in Gateways \ {g} : exit[h] = "clean") => runFile = g
=============================================================================
