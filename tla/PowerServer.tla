---------------------------- MODULE PowerServer ----------------------------
(***************************************************************************)
(* The PowerServer of the power HAL (hardware/power/Hints.cpp, Power.cpp): *)
(* a thread, the looper, that answers one request on each connection, and  *)
(* the HAL thread that starts it when the device wakes and stops it when   *)
(* it falls asleep.  They share psthread_run, sock and clientsock with no  *)
(* lock, the numbers outlive the files they were given for, and a stop     *)
(* does not wait for the looper to end.  A step is one system call or one  *)
(* access to shared memory.                                                *)
(*                                                                         *)
(* The HAL thread is the initialization and then the one binder thread.  A *)
(* request is a PerfLockAcquire or PerfLockRelease, which HalExt models.   *)
(* Outside src/: files and sockets, and the framework that puts the device *)
(* to sleep and wakes it.                                                  *)
(***************************************************************************)
EXTENDS Integers

CONSTANTS
    Client,       \* the clients, each with one request
    MaxStarts,    \* bound: how often the server is started
    MaxFd,        \* bound: the descriptors of the service
    MaxRetry,     \* how often a reply is tried (50)
    Faults,       \* the calls that may fail
    Rush          \* when the device may fall asleep during a request, or a client
                  \* call during a start or a stop: never; at any time, but then the
                  \* device wakes only when the loopers have ended (ended); at any time

ASSUME BoundAssumption == MaxStarts \in Nat \ {0} /\ MaxFd \in Nat /\ MaxRetry \in Nat \ {0}
ASSUME ClientAssumption == Client \cap {"EINVAL", "none", "refused", "undefined"} = {}
ASSUME FaultAssumption == Faults \subseteq {"user", "socket", "bind", "thread", "accept"}
ASSUME RushAssumption == Rush \in {"never", "ended", "any"}

Start == 1..MaxStarts      \* a start, its listening socket, its looper
Fd == 1..MaxFd
Unused == [kind |-> "unused"]
Sysfs == [kind |-> "sysfs"]
Listening(s) == [kind |-> "listening", of |-> s]
Connection(c) == [kind |-> "connection", of |-> c]

VARIABLES
    psthread_run, sock, clientsock,   \* the globals: a flag and two descriptors
    looper,      \* the thread of each start
    hal,         \* the HAL thread
    mode,        \* cur_pwrmode
    served,      \* the requests that were carried out
    file,        \* what each descriptor of the service refers to
    path,        \* the start whose socket can be connected to, or 0
    backlog,     \* the connections waiting at each listening socket
    shut,        \* the sockets that were shut down
    client,      \* the clients
    rushed,      \* a sleep or a client did come so (history)
    resumed      \* the device has woken since then (history)

globals == <<psthread_run, sock, clientsock>>
kernel == <<file, path, backlog, shut>>
vars == <<globals, looper, hal, mode, served, kernel, client, rushed, resumed>>

\* InitializeHAL has set the balanced mode and is about to start the server.
Init ==
    /\ psthread_run = FALSE /\ sock = 0 /\ clientsock = 0
    /\ looper = [t \in Start |-> [pc |-> "none", on |-> 0, ret |-> 0, reply |-> "EINVAL", retry |-> 0]]
    /\ hal = [pc |-> "start", starts |-> 0, ready |-> FALSE, awake |-> TRUE, ret |-> 0]
    /\ mode = "balanced" /\ served = {}
    /\ file = [f \in Fd |-> Unused] /\ path = 0
    /\ backlog = [s \in Start |-> {}] /\ shut = {}
    /\ client = [c \in Client |-> [pc |-> "new", sent |-> FALSE, inbox |-> "none", res |-> "none"]]
    /\ rushed = FALSE /\ resumed = FALSE

-----------------------------------------------------------------------------
(* The kernel.                                                             *)

At(f) == IF f \in Fd THEN file[f] ELSE Unused

Full == \A f \in Fd : file[f] # Unused
Lowest == CHOOSE f \in Fd : file[f] = Unused /\ \A g \in Fd : file[g] = Unused => f <= g

Open(x) == ~Full /\ file' = [file EXCEPT ![Lowest] = x]
Close(f) == file' = [g \in Fd |-> IF g = f THEN Unused ELSE file[g]]
Shutdown(f) == shut' = IF At(f).kind \in {"listening", "connection"} THEN shut \cup {At(f)} ELSE shut

\* A socket lives as long as a descriptor or a blocked thread refers to it.
Alive(x) ==
    \/ \E f \in Fd : file[f] = x
    \/ \E t \in Start : \/ looper[t].pc = "blocked" /\ x = Listening(looper[t].on)
                        \/ looper[t].pc = "receiving" /\ x = Connection(looper[t].on)

\* The service's end of the connection of a client is gone.
Eof(c) ==
    /\ \A s \in Start : c \in backlog[s] => ~Alive(Listening(s))
    /\ Connection(c) \in shut \/ ~Alive(Connection(c))

\* A message sent on a descriptor arrives.
Arrives(f) ==
    /\ At(f).kind = "connection" /\ At(f) \notin shut
    /\ client[At(f).of].pc \in {"connected", "waiting"}

-----------------------------------------------------------------------------
(* powerserver_looper                                                      *)

Goto(t, from, to) == looper[t].pc = from /\ looper' = [looper EXCEPT ![t].pc = to]

LooperReloop(t) ==
    /\ looper[t].pc = "reloop"
    /\ looper' = [looper EXCEPT ![t].pc = "accept", ![t].retry = 0]
    /\ Close(clientsock)
    /\ UNCHANGED <<clientsock, mode, served, backlog, client>>

\* accept() looks the descriptor up and waits for a connection, or fails.
LooperAccept(t) ==
    /\ looper[t].pc = "accept"
    /\ IF At(sock).kind = "listening"
       THEN looper' = [looper EXCEPT ![t].pc = "blocked", ![t].on = At(sock).of]
       ELSE looper' = [looper EXCEPT ![t].pc = "store", ![t].ret = -1]
    /\ UNCHANGED <<clientsock, mode, served, file, backlog, client>>

LooperConnected(t) ==
    /\ looper[t].pc = "blocked"
    /\ \E c \in backlog[looper[t].on] :
          /\ Open(Connection(c))
          /\ backlog' = [backlog EXCEPT ![looper[t].on] = @ \ {c}]
          /\ looper' = [looper EXCEPT ![t].pc = "store", ![t].ret = Lowest]
    /\ UNCHANGED <<clientsock, mode, served, client>>

LooperRefused(t) ==
    /\ looper[t].pc = "blocked"
    /\ \/ backlog[looper[t].on] = {} /\ Listening(looper[t].on) \in shut
       \/ backlog[looper[t].on] # {} /\ "accept" \in Faults
    /\ looper' = [looper EXCEPT ![t].pc = "store", ![t].ret = -1]
    /\ UNCHANGED <<clientsock, mode, served, file, backlog, client>>

\* The loop condition: the result is stored, then psthread_run is looked at.
LooperStore(t) ==
    /\ Goto(t, "store", IF looper[t].ret > 0 THEN "check" ELSE "ended")
    /\ clientsock' = looper[t].ret
    /\ UNCHANGED <<mode, served, file, backlog, client>>

LooperCheck(t) ==
    /\ Goto(t, "check", IF psthread_run THEN "recv" ELSE "ended")
    /\ UNCHANGED <<clientsock, mode, served, file, backlog, client>>

\* recv() looks the descriptor up and waits for the request, or fails.
LooperRecv(t) ==
    /\ looper[t].pc = "recv"
    /\ IF At(clientsock).kind = "connection"
       THEN looper' = [looper EXCEPT ![t].pc = "receiving", ![t].on = At(clientsock).of]
       ELSE looper' = [looper EXCEPT ![t].pc = "reloop"]
    /\ UNCHANGED <<clientsock, mode, served, file, backlog, client>>

LooperReceived(t) ==
    /\ looper[t].pc = "receiving"
    /\ \/ client[looper[t].on].sent /\ Goto(t, "receiving", "serve")
       \/ /\ ~client[looper[t].on].sent /\ Connection(looper[t].on) \in shut
          /\ Goto(t, "receiving", "reloop")
    /\ UNCHANGED <<clientsock, mode, served, file, backlog, client>>

\* Mutant: the reply is set only if it is not set yet.
LooperServe_StaleReply(t) ==
    /\ looper[t].pc = "serve" /\ Open(Sysfs)
    /\ looper' = [looper EXCEPT ![t].pc = "written", ![t].ret = Lowest,
                                ![t].reply = IF @ = "EINVAL" THEN looper[t].on ELSE @]
    /\ served' = served \cup {looper[t].on}
    /\ UNCHANGED <<clientsock, mode, backlog, client>>

\* The lock is taken or given back; SetPowerMode opens files of sysfs.
LooperServe(t) ==
    /\ looper[t].pc = "serve" /\ Open(Sysfs)
    /\ looper' = [looper EXCEPT ![t].pc = "written", ![t].ret = Lowest, ![t].reply = looper[t].on]
    /\ served' = served \cup {looper[t].on}
    /\ UNCHANGED <<clientsock, mode, backlog, client>>

\* The lock is refused, or of a type that sets no mode.
LooperNoMode(t) ==
    /\ looper[t].pc = "serve"
    /\ looper' = [looper EXCEPT ![t].pc = "send", ![t].reply = looper[t].on]
    /\ served' = served \cup {looper[t].on}
    /\ UNCHANGED <<clientsock, mode, file, backlog, client>>

LooperWritten(t) ==
    /\ Goto(t, "written", "send")
    /\ Close(looper[t].ret)
    /\ mode' \in {"boost", "balanced"}
    /\ UNCHANGED <<clientsock, served, backlog, client>>

\* The reply goes to the connection clientsock refers to by now.
LooperSend(t) ==
    /\ looper[t].pc = "send"
    /\ \/ /\ Arrives(clientsock)
          /\ client' = [client EXCEPT ![At(clientsock).of].inbox = looper[t].reply]
          /\ looper' = [looper EXCEPT ![t].pc = "close", ![t].retry = 0]
       \/ /\ ~Arrives(clientsock)
          /\ LET again == looper[t].retry + 1 < MaxRetry
             IN  looper' = [looper EXCEPT ![t].pc = IF again THEN "send" ELSE "reloop",
                                          ![t].retry = @ + 1, ![t].reply = "EINVAL"]
          /\ UNCHANGED client
    /\ UNCHANGED <<clientsock, mode, served, file, backlog>>

\* Mutants: the connection is not closed; the looper serves one request only.
LooperClose_Leak(t) ==
    /\ Goto(t, "close", "accept")
    /\ UNCHANGED <<clientsock, mode, served, file, backlog, client>>
LooperClose_Once(t) ==
    /\ Goto(t, "close", "ended")
    /\ Close(clientsock)
    /\ UNCHANGED <<clientsock, mode, served, backlog, client>>

LooperClose(t) ==
    /\ Goto(t, "close", "accept")
    /\ Close(clientsock)
    /\ UNCHANGED <<clientsock, mode, served, backlog, client>>

Looper(t) ==
    /\ \/ LooperReloop(t) \/ LooperAccept(t) \/ LooperConnected(t) \/ LooperRefused(t)
       \/ LooperStore(t) \/ LooperCheck(t) \/ LooperRecv(t) \/ LooperReceived(t)
       \/ LooperServe(t) \/ LooperNoMode(t) \/ LooperWritten(t) \/ LooperSend(t)
       \/ LooperClose(t)
    /\ UNCHANGED <<psthread_run, sock, hal, path, shut, rushed, resumed>>

-----------------------------------------------------------------------------
(* manage_powerserver, InitializeHAL and setInteractive                    *)

AtRest == \A t \in Start : looper[t].pc \in {"none", "blocked", "ended"} /\ backlog[t] = {}
NoneWaits == \A c \in Client : client[c].pc \in {"new", "closed"}
AllEnded == \A t \in Start : looper[t].pc \in {"none", "ended"}

Rushes(so) == (so => Rush # "never") /\ rushed' = (rushed \/ so)

HalAt(pc) == hal.pc = pc
HalTo(pc) == hal' = [hal EXCEPT !.pc = pc]

\* manage_powerserver(true) returns: the initialization sets HalInitialized if
\* it succeeded, setInteractive goes on in any case.
Returns(ok) ==
    hal' = [hal EXCEPT !.pc = CASE hal.ready -> "set" [] ok -> "idle" [] OTHER -> "dead",
                       !.ready = @ \/ ok]

HalStart ==
    /\ HalAt("start")
    /\ \/ /\ psthread_run' = TRUE
          /\ hal' = [hal EXCEPT !.pc = "socket", !.starts = @ + 1]
       \/ "user" \in Faults /\ Returns(FALSE) /\ UNCHANGED psthread_run
    /\ UNCHANGED <<sock, clientsock, looper, mode, kernel>>

\* Mutant: the result of socket() is kept in a local variable.
HalSocket_Local ==
    /\ HalAt("socket")
    /\ Open(Listening(hal.starts)) /\ HalTo("bind")
    /\ UNCHANGED <<globals, looper, mode, path, backlog, shut>>

HalSocket ==
    /\ HalAt("socket")
    /\ \/ Open(Listening(hal.starts)) /\ sock' = Lowest /\ HalTo("bind")
       \/ "socket" \in Faults /\ sock' = -1 /\ Returns(FALSE) /\ UNCHANGED file
    /\ UNCHANGED <<psthread_run, clientsock, looper, mode, path, backlog, shut>>

\* The path is unlinked; then bind and listen.
HalBind ==
    /\ HalAt("bind")
    /\ \/ path' = hal.starts /\ HalTo("thread")
       \/ "bind" \in Faults /\ path' = 0 /\ Returns(FALSE)
    /\ UNCHANGED <<globals, looper, mode, file, backlog, shut>>

HalThread ==
    /\ HalAt("thread")
    /\ \/ looper' = [looper EXCEPT ![hal.starts].pc = "reloop"] /\ Returns(TRUE)
       \/ "thread" \in Faults /\ Returns(FALSE) /\ UNCHANGED looper
    /\ UNCHANGED <<globals, mode, kernel>>

\* setInteractive(false): psthread_run first, then the two sockets.
Sleep ==
    /\ HalAt("idle") /\ hal.awake
    /\ Rushes(~(AtRest /\ NoneWaits))
    /\ psthread_run' = FALSE
    /\ hal' = [hal EXCEPT !.pc = "shutclient", !.awake = FALSE]
    /\ UNCHANGED <<sock, clientsock, looper, mode, kernel>>

HalShutClient ==
    /\ HalAt("shutclient") /\ HalTo("closeclient") /\ Shutdown(clientsock)
    /\ UNCHANGED <<globals, looper, mode, file, path, backlog>>

HalCloseClient ==
    /\ HalAt("closeclient") /\ HalTo("shutsock") /\ Close(clientsock)
    /\ UNCHANGED <<globals, looper, mode, path, backlog, shut>>

\* Mutants: the socket is closed and not shut down; SetPowerMode is forgotten.
HalShutSock_Never ==
    /\ HalAt("shutsock") /\ HalTo("closesock")
    /\ UNCHANGED <<globals, looper, mode, kernel>>
HalCloseSock_KeepMode ==
    /\ HalAt("closesock") /\ HalTo("idle") /\ Close(sock)
    /\ UNCHANGED <<globals, looper, mode, path, backlog, shut>>

HalShutSock ==
    /\ HalAt("shutsock") /\ HalTo("closesock") /\ Shutdown(sock)
    /\ UNCHANGED <<globals, looper, mode, file, path, backlog>>

HalCloseSock ==
    /\ HalAt("closesock") /\ HalTo("set") /\ Close(sock)
    /\ UNCHANGED <<globals, looper, mode, path, backlog, shut>>

\* The device wakes (external).
MayWake == Rush = "any" \/ hal.awake \/ (AllEnded /\ NoneWaits)

\* Mutant: ManagePowerServer(true) in place of ManagePowerServerSafe(true).
Wake_Unsafe ==
    /\ HalAt("idle") /\ hal.starts < MaxStarts
    /\ MayWake
    /\ hal' = [hal EXCEPT !.pc = "start", !.awake = TRUE]
    /\ resumed' = (resumed \/ (rushed /\ ~hal.awake))
    /\ UNCHANGED <<globals, looper, mode, kernel>>

\* setInteractive(true), which starts no server that is said to run.
Wake ==
    /\ HalAt("idle") /\ hal.starts < MaxStarts
    /\ MayWake
    /\ hal' = [hal EXCEPT !.pc = IF psthread_run THEN "set" ELSE "start", !.awake = TRUE]
    /\ resumed' = (resumed \/ (rushed /\ ~hal.awake))
    /\ UNCHANGED <<globals, looper, mode, kernel>>

\* SetPowerMode: files of sysfs are opened and closed, then the mode is kept.
HalSet ==
    /\ HalAt("set") /\ Open(Sysfs)
    /\ hal' = [hal EXCEPT !.pc = "written", !.ret = Lowest]
    /\ UNCHANGED <<globals, looper, mode, path, backlog, shut>>

HalWritten ==
    /\ HalAt("written") /\ HalTo("idle") /\ Close(hal.ret)
    /\ mode' = IF hal.awake THEN "balanced" ELSE "batterysave"
    /\ UNCHANGED <<globals, looper, path, backlog, shut>>

HalStep == HalStart \/ HalSocket \/ HalBind \/ HalThread \/ HalShutClient \/ HalCloseClient
           \/ HalShutSock \/ HalCloseSock \/ HalSet \/ HalWritten

Hal == /\ \/ Sleep /\ UNCHANGED resumed
          \/ HalStep /\ UNCHANGED <<rushed, resumed>>
          \/ Wake /\ UNCHANGED rushed
       /\ UNCHANGED <<served, client>>

-----------------------------------------------------------------------------
(* send_powerserver_data, in the process of a client                       *)

Finish(c, res) == client' = [client EXCEPT ![c].pc = "closed", ![c].res = res]

Connect(c) ==
    /\ client[c].pc = "new"
    /\ Rushes(hal.pc # "idle")
    /\ IF path # 0 /\ Alive(Listening(path)) /\ Listening(path) \notin shut
       THEN /\ backlog' = [backlog EXCEPT ![path] = @ \cup {c}]
            /\ client' = [client EXCEPT ![c].pc = "connected"]
       ELSE Finish(c, "refused") /\ UNCHANGED backlog

SendRequest(c) ==
    /\ client[c].pc = "connected"
    /\ IF Eof(c) THEN Finish(c, "refused")
       ELSE client' = [client EXCEPT ![c].pc = "waiting", ![c].sent = TRUE]
    /\ UNCHANGED backlog

\* recv() brings a reply, or nothing (then the result is not initialized), or
\* fails because select() timed out, which the code does not notice.
Receive(c) ==
    /\ client[c].pc = "waiting"
    /\ \/ client[c].inbox # "none" /\ Finish(c, client[c].inbox)
       \/ client[c].inbox = "none" /\ Eof(c) /\ Finish(c, "undefined")
       \/ client[c].inbox = "none" /\ ~Eof(c) /\ Finish(c, "EINVAL")
    /\ UNCHANGED backlog

ClientStep(c) ==
    /\ Connect(c) \/ ((SendRequest(c) \/ Receive(c)) /\ UNCHANGED rushed)
    /\ UNCHANGED <<globals, looper, hal, mode, served, file, path, shut, resumed>>

-----------------------------------------------------------------------------
Next ==
    \/ \E t \in Start : Looper(t)
    \/ Hal
    \/ \E c \in Client : ClientStep(c)

Spec == Init /\ [][Next]_vars

\* Threads and clients go on; nobody has to connect, to sleep or to wake.
Fairness ==
    /\ \A t \in Start : WF_vars(Looper(t))
    /\ WF_vars(HalStep /\ UNCHANGED <<served, client, rushed, resumed>>)
    /\ \A c \in Client : WF_vars(ClientStep(c) /\ client[c].pc # "new")

FairSpec == Spec /\ Fairness

-----------------------------------------------------------------------------
LooperPc == {"none", "reloop", "accept", "blocked", "store", "check", "recv", "receiving",
             "serve", "written", "send", "close", "ended"}
HalPc == {"start", "socket", "bind", "thread", "shutclient", "closeclient", "shutsock",
          "closesock", "set", "written", "idle", "dead"}
Reply == Client \cup {"EINVAL"}
Socket == {Listening(s) : s \in Start} \cup {Connection(c) : c \in Client}

TypeOK ==
    /\ psthread_run \in BOOLEAN /\ {sock, clientsock} \subseteq Fd \cup {-1, 0}
    /\ looper \in [Start -> [pc : LooperPc, on : Start \cup Client \cup {0}, ret : Fd \cup {-1, 0},
                             reply : Reply, retry : 0..MaxRetry]]
    /\ hal \in [pc : HalPc, starts : 0..MaxStarts, ready : BOOLEAN, awake : BOOLEAN, ret : Fd \cup {0}]
    /\ mode \in {"boost", "balanced", "batterysave"}
    /\ served \subseteq Client
    /\ file \in [Fd -> Socket \cup {Unused, Sysfs}]
    /\ path \in Start \cup {0}
    /\ backlog \in [Start -> SUBSET Client]
    /\ shut \subseteq Socket
    /\ client \in [Client -> [pc : {"new", "connected", "waiting", "closed"}, sent : BOOLEAN,
                              inbox : Reply \cup {"none"},
                              res : Reply \cup {"none", "refused", "undefined"}]]
    /\ rushed \in BOOLEAN /\ resumed \in BOOLEAN

Serving(t) == looper[t].pc \in {"serve", "written"}

\* The device was woken after a stop that found the looper at work, perhaps before that
\* looper has ended.
Overtaken == Rush = "any" /\ resumed

\* PerfLockAcquire and PerfLockRelease run in one thread at a time, though a stopped
\* looper may be left when the next is started: the table of the locks has no lock of
\* its own.
OneServes == ~Overtaken => \A s, t \in Start : Serving(s) /\ Serving(t) => s = t

\* A client is given the reply to its own request ("receiving server reply
\* (handle)", rqbalance_ctl.c), under the same condition.
RepliesOwn == \A c, d \in Client : client[c].res = d => c = d
OwnReply == ~Overtaken => RepliesOwn

\* accept() failed on the socket that t waited at, which ends t.
GaveUp(t) == looper[t].pc = "ended" /\ looper[t].ret = -1 /\ looper[t].on = path

SocketInUse ==
    hal.pc = "idle" /\ hal.awake /\ psthread_run /\ AtRest /\ looper[hal.starts].pc # "none"
SocketThere ==
    /\ path = hal.starts /\ At(sock) = Listening(path)
    /\ GaveUp(path) \/ (looper[path].pc = "blocked" /\ looper[path].on = path)

\* While the device is awake and nothing is under way, sock is the socket that
\* clients connect to, and a looper waits at it unless its start or an accept()
\* failed: whatever came during a start or a stop, but not when the device has
\* been woken after a stop that found the looper at work.
SocketKept == ~resumed /\ SocketInUse => SocketThere

\* A device that fell asleep at rest saves its battery.
AsleepSaves ==
    hal.pc = "idle" /\ ~hal.awake /\ AtRest /\ ~rushed => mode = "batterysave"

\* Once the device stays asleep every looper ends, whatever it was doing.
LoopersEnd == <>[](~hal.awake) => <>[]AllEnded

\* A start none of whose calls failed comes to wait for clients, until accept()
\* fails, under the same condition.
AwakeServed ==
    (hal.pc = "idle" /\ hal.awake /\ psthread_run /\ looper[hal.starts].pc # "none"
        /\ ~resumed) ~>
       (~hal.awake \/ hal.pc = "start"
        \/ \E t \in Start : GaveUp(t) \/ (looper[t].pc = "blocked" /\ looper[t].on = path))

\* Once the server is stopped, at rest, the service has no file open: every
\* descriptor it was given was closed, and none for another.
FilesClosed ==
    hal.pc = "idle" /\ ~hal.awake /\ AllEnded /\ ~rushed => \A f \in Fd : file[f] = Unused

-----------------------------------------------------------------------------
\* Not so in this code (README, 6): a client gets a reply or a negative number
\* ("Returns success (0) or negative errno", rqbalance_ctl.c:118).
DefinedResult == \A c \in Client : client[c].res # "undefined"

\* Not so in this code: a request whose client was told that it failed was not
\* carried out.
FailedNotServed == \A c \in Client : client[c].res = "EINVAL" => c \notin served

\* Not so in this code: the socket is kept after such a stop too, if the device is not
\* woken before the looper has ended.
SocketKeptAfterRush == SocketInUse => SocketThere

=============================================================================
