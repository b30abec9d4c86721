------------------------------ MODULE Session ------------------------------
(***************************************************************************)
(* A monitor's session from both ends: the Quest's StreamSession worker    *)
(* (discover, connect, HELLO, set-up, READY, START, keepalive, release)    *)
(* and the streamer's signaling server, which serves one connection at a   *)
(* time while others wait in the listen backlog.  Activities come and go   *)
(* on the client, the streamer stops, crashes and starts on the other      *)
(* side, and the link between them goes down and comes back.               *)
(*                                                                         *)
(* TCP keeps what is sent in order and delivers it when the link is up.    *)
(* An end that closes while the link is down may never be heard of: the    *)
(* server's connection is then silent (half-open) until it times out.      *)
(* Time is left out; a time-out can fire where the code waits for an       *)
(* answer that cannot come yet.                                            *)
(***************************************************************************)
EXTENDS Integers, Sequences

CONSTANTS
  MaxObjects,    \* bound: StreamSession objects that activities create
  Backlog        \* connections the kernel keeps for listen(fd, 1)

ASSUME SessionAssumption ==
  /\ MaxObjects \in Nat \ {0}
  /\ Backlog \in Nat \ {0}

StreamSessions == 1..MaxObjects

\* What the server finds at the other end of a connection, if not a session:
None   == 0      \* there is no connection
Closed == -1     \* the client has closed it
Silent == -2     \* the client is gone and its FIN is lost: half-open
Ends == StreamSessions \cup {Closed, Silent}

VARIABLES
  running,    \* StreamSession.running, per session
  pc,         \* where the session's worker thread is
  sock,       \* signalingSocket: "none", "open", or "shut" by stop()
  inbox,      \* lines on their way to the worker
  orphans,    \* attempts have failed in the handshake without releasing their
              \* receiver and decoders
  link,       \* the network between client and streamer
  main,       \* the streamer's main thread
  srunning,   \* signal::Server::running_
  listening,  \* listen_fd_ is open
  backlog,    \* the listen backlog: who is at the other end of each connection
  srv,        \* accept thread
  fd,         \* client_fd_ is set
  serve,      \* the other end of the accepted connection
  lines       \* lines on their way to the accept thread

clientVars == <<running, pc, sock, inbox, orphans>>
serverVars == <<main, srunning, listening, backlog, srv, fd, serve, lines>>
sessionVars == <<clientVars, link, serverVars>>

Stages == {"new", "discover", "offered", "connect", "hello", "setup", "start",
           "stream", "failed", "ended"}
MainStates == {"down", "up", "client", "join"}
SrvStates == {"accept", "accepted", "test", "recv", "leave", "ended"}

\* The lines Server::send() serializes, and those parse() accepts of a client.
\* PING is read where it is sent (Ping); INPUT has a module of its own.
ServerLines == {"HELLO", "START"}
ClientLines == {"READY"}

SessionInit ==
  /\ running = [s \in StreamSessions |-> FALSE]
  /\ pc = [s \in StreamSessions |-> "new"]
  /\ sock = [s \in StreamSessions |-> "none"]
  /\ inbox = [s \in StreamSessions |-> <<>>]
  /\ orphans = [s \in StreamSessions |-> FALSE]
  /\ link = "up"
  /\ main = "down"
  /\ srunning = FALSE
  /\ listening = FALSE
  /\ backlog = <<>>
  /\ srv = "ended"
  /\ fd = FALSE
  /\ serve = None
  /\ lines = <<>>

\* The server still has the connection of s, waiting or served.
Known(s) == serve = s \/ \E i \in DOMAIN backlog : backlog[i] = s

Go(s, stage) == pc' = [pc EXCEPT ![s] = stage]

\* The client closes the connection of s.  Without a link its FIN is lost,
\* or arrives late (FinArrives).
HangUp(s) ==
  LET gone == IF link = "up" THEN Closed ELSE Silent
      Now(p) == IF p = s THEN gone ELSE p
  IN /\ backlog' = [i \in DOMAIN backlog |-> Now(backlog[i])]
     /\ serve' = Now(serve)

-----------------------------------------------------------------------------
(* The activity *)

\* surfaceCreated(): a new session is started.  The activity of an older
\* session of the same monitor may not have been destroyed yet.
Start(s) ==
  /\ pc[s] = "new"
  /\ s > 1 => pc[s - 1] # "new" /\ ~running[s - 1]
  /\ running' = [running EXCEPT ![s] = TRUE]
  /\ Go(s, "discover")
  /\ UNCHANGED <<sock, inbox, orphans, link, serverVars>>

\* onDestroy(): stop() closes the socket it knows of and does not wait.
Stop(s) ==
  /\ running[s]
  /\ running' = [running EXCEPT ![s] = FALSE]
  /\ IF sock[s] = "open"
     THEN sock' = [sock EXCEPT ![s] = "shut"] /\ HangUp(s)
     ELSE UNCHANGED <<sock, backlog, serve>>
  /\ UNCHANGED <<pc, inbox, orphans, link, main, srunning, listening, srv, fd, lines>>

-----------------------------------------------------------------------------
(* The worker: runLoop() and negotiateAndRender() *)

\* DiscoveryResponder is started with the streamer and stopped before it.
Answering == main = "up"

\* Its serve_loop() answers a probe.
ProbeAnswered == link = "up" /\ Answering

\* discover(): an offer arrives.
Discover(s) ==
  /\ pc[s] = "discover"
  /\ running[s]
  /\ ProbeAnswered
  /\ Go(s, "offered")
  /\ UNCHANGED <<running, sock, inbox, orphans, link, serverVars>>

\* discover() times out, or stop() has closed the probe socket.
NoOffer(s) ==
  /\ pc[s] = "discover"
  /\ Go(s, "failed")
  /\ UNCHANGED <<running, sock, inbox, orphans, link, serverVars>>

\* The new socket is published for stop() to close, before it is connected.
OpenSocket(s) ==
  /\ pc[s] = "offered"
  /\ Go(s, "connect")
  /\ sock' = [sock EXCEPT ![s] = "open"]
  /\ UNCHANGED <<running, inbox, orphans, link, serverVars>>

CanConnect == link = "up" /\ listening /\ Len(backlog) < Backlog

\* The kernel completes the connection, accepted or not.
Connect(s) ==
  /\ pc[s] = "connect"
  /\ sock[s] = "open" /\ CanConnect
  /\ Go(s, "hello")
  /\ backlog' = Append(backlog, s)
  /\ UNCHANGED <<running, sock, inbox, orphans, link, main, srunning,
                 listening, srv, fd, serve, lines>>

\* connect() is refused, times out, or finds its socket closed.
ConnectFails(s) ==
  /\ pc[s] = "connect"
  /\ sock[s] = "shut" \/ ~CanConnect
  /\ Go(s, "failed")
  /\ UNCHANGED <<running, sock, inbox, orphans, link, serverVars>>

\* readLine() of a session's socket fails at once: closed here or there.
Broken(s) == sock[s] = "shut" \/ (link = "up" /\ ~Known(s))

\* readLine() has waited for setSoTimeout(): the link is down, or the server
\* waits on another connection, half-open or alive.
NoAnswer(s) == link = "down" \/ serve \notin {s, Closed, None}

Receives(s, line) ==
  /\ link = "up" /\ sock[s] = "open"
  /\ inbox[s] # <<>> /\ Head(inbox[s]) = line
  /\ inbox' = [inbox EXCEPT ![s] = Tail(@)]

ReadHello(s) ==
  /\ pc[s] = "hello"
  /\ Receives(s, "HELLO")
  /\ Go(s, "setup")
  /\ UNCHANGED <<running, sock, orphans, link, serverVars>>

\* Mutant of HelloFails: the handshake is read without a time-out.
HelloFails_NoTimeout(s) ==
  /\ pc[s] = "hello"
  /\ Broken(s)
  /\ Go(s, "failed")
  /\ UNCHANGED <<running, sock, inbox, orphans, link, serverVars>>

\* "a silent handshake is treated as a failure and retried"
HelloFails(s) ==
  /\ pc[s] = "hello"
  /\ Broken(s) \/ NoAnswer(s)
  /\ Go(s, "failed")
  /\ UNCHANGED <<running, sock, inbox, orphans, link, serverVars>>

\* Decoders and receiver come up, READY goes out.  Writing to a connection
\* the server has closed succeeds once; only a socket closed here throws.
SendReady(s) ==
  /\ pc[s] = "setup"
  /\ IF sock[s] = "open"
     THEN /\ Go(s, "start")
          /\ lines' = IF serve = s THEN Append(lines, "READY") ELSE lines
          /\ UNCHANGED orphans
     ELSE /\ Go(s, "failed")
          /\ orphans' = [orphans EXCEPT ![s] = TRUE]
          /\ UNCHANGED lines
  /\ UNCHANGED <<running, sock, inbox, link, main, srunning, listening, backlog,
                 srv, fd, serve>>

\* VideoDecoder.init() throws: a codec left behind by an earlier attempt still
\* holds the surface.  The receiver does not exist yet.
SetupFails(s) ==
  /\ pc[s] = "setup"
  /\ orphans[s]
  /\ Go(s, "failed")
  /\ UNCHANGED <<running, sock, inbox, orphans, link, serverVars>>

ReadStart(s) ==
  /\ pc[s] = "start"
  /\ Receives(s, "START")
  /\ Go(s, "stream")
  /\ UNCHANGED <<running, sock, orphans, link, serverVars>>

\* The exception leaves the receiver and the decoders running: the block that
\* releases them begins after START.
StartFails(s) ==
  /\ pc[s] = "start"
  /\ Broken(s) \/ NoAnswer(s)
  /\ Go(s, "failed")
  /\ orphans' = [orphans EXCEPT ![s] = TRUE]
  /\ UNCHANGED <<running, sock, inbox, link, serverVars>>

\* Every read time-out sends a PING, which ends the server's recv() long before
\* its own time-out.  It is read at once here: nothing else is then in flight.
Ping(s) ==
  /\ pc[s] = "stream"
  /\ running[s] /\ sock[s] = "open"
  /\ link = "up" /\ serve = s /\ srv = "recv" /\ lines = <<>>
  /\ srv' = "test"
  /\ UNCHANGED <<clientVars, link, main, srunning, listening, backlog, fd, serve,
                 lines>>

\* The loop is left when stopped, at the end of the stream, or by an exception;
\* the finally block releases input sender, receiver and decoders.
StreamEnds(s) ==
  /\ pc[s] = "stream"
  /\ ~running[s] \/ Broken(s)
  /\ Go(s, "failed")
  /\ UNCHANGED <<running, sock, inbox, orphans, link, serverVars>>

\* The kernel gives up retransmitting to a peer it cannot reach.
TcpGivesUp(s) ==
  /\ pc[s] = "stream"
  /\ link = "down"
  /\ Go(s, "failed")
  /\ UNCHANGED <<running, sock, inbox, orphans, link, serverVars>>

\* Mutant of Retry: the reader of the closed socket is read on.
Retry_KeepsReader(s) ==
  /\ pc[s] = "failed"
  /\ Go(s, IF running[s] THEN "discover" ELSE "ended")
  /\ sock' = [sock EXCEPT ![s] = "none"]
  /\ IF sock[s] = "open" THEN HangUp(s) ELSE UNCHANGED <<backlog, serve>>
  /\ UNCHANGED <<running, inbox, orphans, link, main, srunning, listening, srv,
                 fd, lines>>

\* After the pause, or none: the socket is closed and the loop tests running.
Retry(s) ==
  /\ pc[s] = "failed"
  /\ Go(s, IF running[s] THEN "discover" ELSE "ended")
  /\ sock' = [sock EXCEPT ![s] = "none"]
  /\ inbox' = [inbox EXCEPT ![s] = <<>>]
  /\ IF sock[s] = "open" THEN HangUp(s) ELSE UNCHANGED <<backlog, serve>>
  /\ UNCHANGED <<running, orphans, link, main, srunning, listening, srv,
                 fd, lines>>

SessionWorker(s) ==
  \/ NoOffer(s) \/ OpenSocket(s)
  \/ Connect(s) \/ ConnectFails(s)
  \/ ReadHello(s) \/ HelloFails(s)
  \/ SendReady(s) \/ SetupFails(s)
  \/ ReadStart(s) \/ StartFails(s)
  \/ StreamEnds(s) \/ Retry(s)

-----------------------------------------------------------------------------
(* The streamer's accept thread *)

\* Each step of client_loop() but the first leaves the connection as it is.
Step(stage) ==
  /\ srv' = stage
  /\ UNCHANGED <<running, pc, sock, orphans, link, main, srunning, listening,
                 backlog, serve>>

Accept ==
  /\ srv = "accept"
  /\ listening /\ backlog # <<>>
  /\ serve' = Head(backlog)
  /\ backlog' = Tail(backlog)
  /\ lines' = <<>>
  /\ srv' = "accepted"
  /\ UNCHANGED <<clientVars, link, main, srunning, listening, fd>>

AcceptFails ==
  /\ srv = "accept"
  /\ ~listening
  /\ Step("ended")
  /\ UNCHANGED <<inbox, fd, lines>>

\* Server::send(): nothing is sent once stop() has taken the descriptor.
Send(line) ==
  inbox' = IF fd /\ serve \in StreamSessions
           THEN [inbox EXCEPT ![serve] = Append(@, line)] ELSE inbox

\* client_fd_ = fd, and on_connect sends HELLO.
Greet ==
  /\ srv = "accepted"
  /\ fd' = TRUE
  /\ inbox' = IF serve \in StreamSessions
              THEN [inbox EXCEPT ![serve] = Append(@, "HELLO")] ELSE inbox
  /\ Step("test")
  /\ UNCHANGED lines

\* Mutant of LoopTest: client_loop() serves until the connection ends.
LoopTest_Always ==
  /\ srv = "test"
  /\ Step("recv")
  /\ UNCHANGED <<inbox, fd, lines>>

\* while (running_)
LoopTest ==
  /\ srv = "test"
  /\ Step(IF srunning THEN "recv" ELSE "leave")
  /\ UNCHANGED <<inbox, fd, lines>>

\* READY arrives and is answered with START.
AnswerLine ==
  /\ srv = "recv"
  /\ link = "up" /\ lines # <<>>
  /\ Step("test")
  /\ Send("START")
  /\ lines' = Tail(lines)
  /\ UNCHANGED fd

\* The connection was closed by the client, or by stop().
ReadEnds ==
  /\ srv = "recv"
  /\ (serve = Closed /\ lines = <<>>) \/ serve = None
  /\ Step("leave")
  /\ UNCHANGED <<inbox, fd, lines>>

\* Mutant of ReadTimeout: no SO_RCVTIMEO.
ReadTimeout_Never ==
  /\ FALSE
  /\ Step("leave")
  /\ UNCHANGED <<inbox, fd, lines>>

\* Ten seconds without a byte: a half-open connection, or no link.
ReadTimeout ==
  /\ srv = "recv"
  /\ serve = Silent \/ (serve # None /\ link = "down")
  /\ Step("leave")
  /\ UNCHANGED <<inbox, fd, lines>>

\* client_fd_.exchange(-1), close, on_disconnect, while (running_)
Leave ==
  /\ srv = "leave"
  /\ fd' = FALSE
  /\ serve' = None
  /\ lines' = <<>>
  /\ srv' = IF srunning THEN "accept" ELSE "ended"
  /\ UNCHANGED <<clientVars, link, main, srunning, listening, backlog>>

AcceptThread ==
  \/ Accept \/ AcceptFails \/ Greet \/ LoopTest
  \/ AnswerLine \/ ReadEnds \/ ReadTimeout \/ Leave

-----------------------------------------------------------------------------
(* The streamer's main thread *)

StartServer ==
  /\ main = "down"
  /\ main' = "up"
  /\ srunning' = TRUE
  /\ listening' = TRUE
  /\ srv' = "accept"
  /\ UNCHANGED <<clientVars, link, backlog, fd, serve, lines>>

\* discovery.stop(), and then Server::stop(): running_ is cleared and listen_fd_
\* closed; waiting connections are reset with the listener.
StopListening ==
  /\ main = "up"
  /\ main' = "client"
  /\ srunning' = FALSE
  /\ listening' = FALSE
  /\ backlog' = <<>>
  /\ UNCHANGED <<clientVars, link, srv, fd, serve, lines>>

\* Mutant of CloseClient: the descriptor is taken and not closed.
CloseClient_TakesOnly ==
  /\ main = "client"
  /\ main' = "join"
  /\ fd' = FALSE
  /\ UNCHANGED <<clientVars, link, srunning, listening, backlog, srv, serve, lines>>

\* client_fd_.exchange(-1): the connection of the accept thread is closed
\* under it, if it has been published.
CloseClient ==
  /\ main = "client"
  /\ main' = "join"
  /\ IF fd THEN fd' = FALSE /\ serve' = None /\ lines' = <<>>
           ELSE UNCHANGED <<fd, serve, lines>>
  /\ UNCHANGED <<clientVars, link, srunning, listening, backlog, srv>>

Join ==
  /\ main = "join"
  /\ srv = "ended"
  /\ main' = "down"
  /\ UNCHANGED <<clientVars, link, srunning, listening, backlog, srv, fd, serve, lines>>

StopServer == CloseClient \/ Join

\* The process is killed; its kernel closes everything.
Crash ==
  /\ main # "down"
  /\ main' = "down"
  /\ srunning' = FALSE
  /\ listening' = FALSE
  /\ backlog' = <<>>
  /\ srv' = "ended"
  /\ fd' = FALSE
  /\ serve' = None
  /\ lines' = <<>>
  /\ UNCHANGED <<clientVars, link>>

-----------------------------------------------------------------------------
(* The network *)

LinkChanges ==
  /\ link' = IF link = "up" THEN "down" ELSE "up"
  /\ UNCHANGED <<clientVars, serverVars>>

\* A FIN sent while the link was down is retransmitted after all.
FinArrives ==
  /\ link = "up"
  /\ \/ /\ serve = Silent
        /\ serve' = Closed
        /\ UNCHANGED backlog
     \/ /\ \E i \in DOMAIN backlog :
             backlog[i] = Silent /\ backlog' = [backlog EXCEPT ![i] = Closed]
        /\ UNCHANGED serve
  /\ UNCHANGED <<clientVars, link, main, srunning, listening, srv, fd, lines>>

SessionNext ==
  \/ \E s \in StreamSessions : Start(s) \/ Stop(s) \/ Discover(s) \/ SessionWorker(s)
                               \/ Ping(s) \/ TcpGivesUp(s)
  \/ AcceptThread
  \/ StartServer \/ StopListening \/ StopServer \/ Crash
  \/ LinkChanges \/ FinArrives

\* Threads are scheduled and time-outs fire; not every probe or offer is lost
\* while the streamer is there to answer.  Nothing is promised of activities,
\* of the link, of a late FIN or of the streamer's life.
Fairness ==
  /\ \A s \in StreamSessions : WF_sessionVars(SessionWorker(s))
  /\ SF_sessionVars(\E s \in StreamSessions : Discover(s))
  /\ WF_sessionVars(AcceptThread)
  /\ WF_sessionVars(StopServer)

SessionSpec == SessionInit /\ [][SessionNext]_sessionVars /\ Fairness

-----------------------------------------------------------------------------
(* Properties *)

\* Types.  The kernel never keeps more connections than the backlog allows.
SessionTypeOK ==
  /\ running \in [StreamSessions -> BOOLEAN]
  /\ pc \in [StreamSessions -> Stages]
  /\ sock \in [StreamSessions -> {"none", "open", "shut"}]
  /\ inbox \in [StreamSessions -> Seq(ServerLines)]
  /\ orphans \in [StreamSessions -> BOOLEAN]
  /\ link \in {"up", "down"}
  /\ main \in MainStates
  /\ srunning \in BOOLEAN
  /\ listening \in BOOLEAN
  /\ backlog \in Seq(Ends) /\ Len(backlog) <= Backlog
  /\ srv \in SrvStates
  /\ fd \in BOOLEAN
  /\ serve \in Ends \cup {None}
  /\ lines \in Seq(ClientLines)

\* The answer a worker waits for.
Awaited(s) ==
  CASE pc[s] = "hello" -> {"HELLO"}
    [] pc[s] = "start" -> {"START"}
    [] OTHER -> {}

\* What a worker can read is the answer it waits for, once: nothing of an
\* earlier attempt, of a connection the server has not accepted, or of another
\* session is taken for it, and no line is left over when the stream begins.
InStep ==
  \A s \in StreamSessions :
    pc[s] # "failed" => inbox[s] \in {<<>>} \cup {<<line>> : line \in Awaited(s)}

\* Server::stop() never joins a thread that reads a connection somebody could
\* hold open, and leaves nothing open behind, although it may come between
\* accept() and the moment client_fd_ is published.
StopsClean ==
  /\ main = "join" /\ srv = "recv" => serve = None
  /\ main = "down" => ~fd /\ serve = None /\ backlog = <<>>

\* Nothing an attempt has set up outlives it.  Does not hold: a handshake that
\* fails after READY leaves a receiver and decoders behind for good.
Released == \A s \in StreamSessions : ~orphans[s]

\* The sessions that are alone in running, on a link and a streamer that are up.
Undisturbed ==
  {s \in StreamSessions : /\ link = "up" /\ main = "up" /\ running[s]
                          /\ \A t \in StreamSessions \ {s} : ~running[t]}

Streaming == \A s \in StreamSessions : running[s] => pc[s] = "stream"

\* Once link and streamer stay up and one session is left running, it comes to
\* stream and goes on, unless an orphaned codec keeps it off its surface: no
\* half-open connection and no abandoned one keeps it out for ever, although
\* the client gives up a connection sooner than the server does.
Reconnects ==
  <>[](\E s \in Undisturbed : ~orphans[s]) => <>[]Streaming

\* "a silent handshake is treated as a failure and retried": whatever earlier
\* attempts have left behind.  Does not hold: an orphaned codec may keep the
\* surface.
RetrySucceeds == <>[](Undisturbed # {}) => <>[]Streaming

\* Server::stop() returns, wherever the accept thread is and whoever
\* connects meanwhile.
ServerStops == main \in {"client", "join"} ~> main = "down"

\* The worker of a stopped session ends, although stop() may miss the socket
\* it is about to open, and even if the link never comes back.
WorkerEnds ==
  []<>(\A s \in StreamSessions : pc[s] # "new" /\ ~running[s] => pc[s] = "ended")
=============================================================================
