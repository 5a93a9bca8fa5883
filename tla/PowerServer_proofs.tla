-------------------------- MODULE PowerServer_proofs --------------------------
(* Theorems about the power server, for any number of starts, clients and     *)
(* descriptors, whichever calls fail.                                         *)
EXTENDS PowerServer, WellFoundedInduction, TLAPS

-----------------------------------------------------------------------------
(* The invariants.                                                         *)

Starting == {"start", "socket", "bind", "thread"}
Answering == {"receiving", "serve", "written", "send"}
Idling == {"none", "blocked", "store", "check", "ended"}
Gone == {"none", "ended"}

\* What each place of the program has of its variables.
PlaceInv ==
    /\ hal.pc = "start" => hal.starts < MaxStarts
    /\ hal.pc \in Starting \ {"start"} => hal.starts > 0
    /\ \A t \in Start : /\ looper[t].pc # "reloop" => looper[t].retry < MaxRetry
                        /\ looper[t].pc = "blocked" => looper[t].on \in Start
                        /\ looper[t].pc \in Answering => looper[t].on \in Client

\* A start under way has said so, and the device is awake.
StartInv ==
    /\ hal.pc \in Starting => hal.awake
    /\ hal.pc \in Starting \ {"start"} => psthread_run
    /\ ~hal.awake => ~psthread_run

\* The looper of the last start is the only one, and an awake device that is
\* not said to have one, or is starting it, has none.
LoneInv ==
    /\ hal.pc \in Starting => AllEnded
    /\ hal.awake /\ ~psthread_run => AllEnded
    /\ \A t \in Start : looper[t].pc \notin Gone => t = hal.starts

\* The connection that clientsock refers to is that of the request in hand, and
\* the reply goes to its client.
ReplyInv == ~Overtaken =>
    /\ \A t \in Start :
          /\ looper[t].pc \in Answering /\ At(clientsock).kind = "connection"
                => At(clientsock).of = looper[t].on
          /\ looper[t].pc \in {"written", "send"} => looper[t].reply \in {looper[t].on,
               "EINVAL"}
    /\ \A c \in Client : /\ client[c].inbox \in {c, "none", "EINVAL"}
                         /\ client[c].res \in {c, "none", "EINVAL", "refused", "undefined"}

\* While no server is said to run, no looper comes to a request that was not
\* under way when the device fell asleep.
SleepInv ==
    /\ ~psthread_run /\ ~rushed => \A t \in Start : looper[t].pc \in Idling
    /\ hal.pc = "idle" /\ ~hal.awake /\ ~rushed => mode = "batterysave"

\* The steps of a stop, which only a device that fell asleep takes.
Stopping == {"shutclient", "closeclient", "shutsock", "closesock"}

\* Who has a file open: the server its socket; the looper the connection it was given
\* last, and a node it writes; the HAL thread a node it writes.
SockOpen == psthread_run /\ hal.pc # "socket" /\ sock \in Fd
GivenTo(t) == looper[t].pc = "store" /\ looper[t].ret # -1
Has(t) == looper[t].pc \in {"check", "recv", "receiving", "serve", "written", "send", "close"}
          \/ (looper[t].pc = "reloop" /\ clientsock \notin {-1, 0})
Writes(t) == looper[t].pc = "written"
HalWrites == hal.pc = "written"

Owns(t, f) ==
    \/ GivenTo(t) /\ f = looper[t].ret
    \/ Has(t) /\ f = clientsock
    \/ Writes(t) /\ f = looper[t].ret

\* No stop has found a looper at work, or the device has not been woken since.
Kept == IF hal.awake THEN ~resumed ELSE ~rushed

\* Loopers are started in turn, by a device that is awake.
OrderInv ==
    /\ \A t \in Start :
          t > hal.starts \/ (t = hal.starts /\ hal.pc \in {"socket", "bind", "thread"})
             => looper[t].pc = "none"
    /\ hal.awake => hal.pc \notin Stopping
    /\ hal.pc = "start" => ~psthread_run
    /\ psthread_run => hal.starts # 0
    /\ ~hal.awake => hal.pc \in Stopping \cup {"set", "written", "idle"}
    /\ resumed => rushed

\* A looper that ended has left no connection behind.
TurnInv ==
    /\ OrderInv
    /\ AllEnded /\ Kept => clientsock \in {-1, 0}

\* What looper t has while the server is said to run.
LooperFiles(t) ==
    /\ sock \in Fd /\ path = t
    /\ looper[t].pc \in {"blocked", "ended"} => looper[t].on = t
    /\ looper[t].pc = "ended" => looper[t].ret = -1
    /\ looper[t].pc = "store" /\ looper[t].ret = -1 => looper[t].on = t
    /\ GivenTo(t) => looper[t].ret \in Fd /\ file[looper[t].ret].kind = "connection"
    /\ Has(t) => clientsock \in Fd /\ file[clientsock].kind = "connection"
    /\ Writes(t) => looper[t].ret \in Fd /\ file[looper[t].ret] = Sysfs
    /\ Writes(t) /\ HalWrites => looper[t].ret # hal.ret

\* While the device is awake every open file has one owner.
AwakeInv == hal.awake /\ ~resumed =>
    /\ hal.pc \in {"bind", "thread"} => sock \in Fd
    /\ hal.pc = "thread" => path = hal.starts
    /\ SockOpen => file[sock] = Listening(hal.starts) /\ clientsock # sock
    /\ HalWrites => hal.ret \in Fd /\ file[hal.ret] = Sysfs
    /\ \A t \in Start : t = hal.starts /\ psthread_run /\ looper[t].pc # "none"
         => LooperFiles(t)
    /\ \A f \in Fd : file[f] # Unused =>
          \/ SockOpen /\ f = sock
          \/ HalWrites /\ f = hal.ret
          \/ \E t \in Start : Owns(t, f)

\* The looper that waits is told before the socket is closed.
Told(t) == looper[t].pc = "blocked" =>
    IF hal.pc \in Stopping \ {"closesock"}
    THEN sock \in Fd /\ file[sock] = Listening(looper[t].on) /\ clientsock # sock
    ELSE Listening(looper[t].on) \in shut

\* A device that fell asleep at rest closes its socket, once it has told the looper.
AsleepInv == ~hal.awake /\ ~rushed =>
    /\ \A s \in Start : backlog[s] = {}
    /\ \A t \in Start :
          /\ looper[t].pc \in {"none", "blocked", "store", "ended"}
          /\ looper[t].pc = "store" => looper[t].ret = -1
          /\ Told(t)
    /\ HalWrites => hal.ret \in Fd /\ file[hal.ret] = Sysfs
    /\ \A f \in Fd : file[f] # Unused =>
          \/ hal.pc \in Stopping /\ f = sock
          \/ HalWrites /\ f = hal.ret

-----------------------------------------------------------------------------
(* The kernel.                                                             *)

\* There is a lowest descriptor that is not in use, if there is one at all.
LEMMA LowestUnused ==
    ~Full => \E h \in Fd : file[h] = Unused /\ \A g \in Fd : file[g] = Unused => h <= g
  <1> SUFFICES ASSUME ~Full
               PROVE  \E h \in Fd : file[h] = Unused /\ \A g \in Fd : file[g] = Unused
                      => h <= g
    OBVIOUS
  <1> DEFINE Free == {f \in Fd : file[f] = Unused}
  <1>1. Free \subseteq Nat /\ Free # {}
    BY BoundAssumption DEF Full, Fd
  <1>2. PICK f \in Free : \A g \in Free : <<g, f>> \notin OpToRel(<, Nat)
    <2> HIDE DEF Free
    <2> QED BY <1>1, NatLessThanWellFounded, WFMin, Zenon
  <1>3. \A g \in Free : f <= g
    <2>1. ASSUME NEW g \in Free PROVE f <= g
      <3>1. f \in Nat /\ g \in Nat
        BY <1>1
      <3>2. ~(g < f)
        BY <1>2, <3>1 DEF OpToRel
      <3> QED BY <3>1, <3>2
    <2> QED BY <2>1
  <1> QED BY <1>3

LEMMA LowestFd == ~Full => Lowest \in Fd
  BY LowestUnused DEF Lowest

\* A file that is opened is one more; a file that is closed is one less.
LEMMA OpenFacts ==
    ASSUME NEW Files, file \in [Fd -> Files], NEW x \in Files, Open(x)
    PROVE  /\ file' \in [Fd -> Files] /\ Lowest \in Fd
           /\ \A f \in Fd : file'[f] \in {file[f], x}
  BY LowestFd DEF Open

LEMMA CloseFacts ==
    ASSUME NEW Files, file \in [Fd -> Files], Unused \in Files, NEW f, Close(f)
    PROVE  /\ file' \in [Fd -> Files]
           /\ \A g \in Fd : file'[g] \in {file[g], Unused}
  BY DEF Close

-----------------------------------------------------------------------------
(* Types.                                                                  *)

Files == Socket \cup {Unused, Sysfs}
Threads == [pc : LooperPc, on : Start \cup Client \cup {0}, ret : Fd \cup {-1, 0},
            reply : Reply, retry : 0..MaxRetry]
Clients == [pc : {"new", "connected", "waiting", "closed"}, sent : BOOLEAN,
            inbox : Reply \cup {"none"}, res : Reply \cup {"none", "refused", "undefined"}]

\* What PlaceInv says of one looper.
Placed(l) ==
    /\ l.pc # "reloop" => l.retry < MaxRetry
    /\ l.pc = "blocked" => l.on \in Start
    /\ l.pc \in Answering => l.on \in Client

\* A descriptor that is a socket refers to a start or a client.
LEMMA SocketAt ==
    ASSUME file \in [Fd -> Files], NEW f
    PROVE  /\ At(f).kind = "listening" => \E s \in Start : At(f) = Listening(s)
           /\ At(f).kind = "connection" => \E c \in Client : At(f) = Connection(c)
  <1>1. At(f) \in Files
    BY DEF At, Files
  <1> QED BY <1>1 DEF Files, Socket, Unused, Sysfs, Listening, Connection

\* The kinds of files are apart.
LEMMA Kinds ==
    /\ Unused.kind = "unused" /\ Sysfs.kind = "sysfs"
    /\ \A s : Listening(s).kind = "listening" /\ Listening(s).of = s
    /\ \A c : Connection(c).kind = "connection" /\ Connection(c).of = c
  BY DEF Unused, Sysfs, Listening, Connection

\* What is opened gets a descriptor that is not in use.
LEMMA OpenExact ==
    ASSUME file \in [Fd -> Files], NEW x, Open(x)
    PROVE  /\ Lowest \in Fd /\ file[Lowest] = Unused
           /\ file'[Lowest] = x
           /\ \A f \in Fd : f # Lowest => file'[f] = file[f]
  <1>1. Lowest \in Fd
    BY LowestFd DEF Open
  <1>2. \E h \in Fd : file[h] = Unused /\ \A g \in Fd : file[g] = Unused => h <= g
    BY LowestUnused DEF Open
  <1>3. file[Lowest] = Unused
    BY <1>2 DEF Lowest
  <1> QED BY <1>1, <1>3 DEF Open

LEMMA CloseExact ==
    ASSUME NEW f, Close(f)
    PROVE  \A g \in Fd : file'[g] = IF g = f THEN Unused ELSE file[g]
  BY DEF Close

\* A step of a looper changes its own state only, and keeps it in its types.
LEMMA LooperTypes ==
    ASSUME TypeOK, PlaceInv, NEW t \in Start, Looper(t)
    PROVE  \E l \in Threads : Placed(l) /\ looper' = [looper EXCEPT ![t] = l]
  <1> USE DEF Threads, Placed, Answering, LooperPc
  <1>0. /\ looper[t] \in Threads /\ Placed(looper[t]) /\ MaxRetry \in Nat \ {0}
        /\ looper = [looper EXCEPT ![t] = looper[t]]
    BY BoundAssumption DEF TypeOK, PlaceInv
  <1>1. CASE LooperReloop(t)
    <2>1. looper' = [looper EXCEPT ![t] = [looper[t] EXCEPT !.pc = "accept", !.retry = 0]]
      BY <1>0, <1>1 DEF LooperReloop
    <2>2. 0 \in 0..MaxRetry /\ 0 < MaxRetry
      BY <1>0
    <2> QED BY <1>0, <2>1, <2>2
  <1>2. CASE LooperAccept(t)
    <2>1. CASE At(sock).kind = "listening"
      <3>1. looper' = [looper EXCEPT ![t] = [looper[t] EXCEPT !.pc = "blocked",
              !.on = At(sock).of]]
        BY <1>0, <1>2, <2>1 DEF LooperAccept
      <3>2. At(sock).of \in Start
        BY <2>1, SocketAt DEF TypeOK, Files, Listening
      <3> QED BY <1>0, <1>2, <3>1, <3>2 DEF LooperAccept
    <2>2. CASE At(sock).kind # "listening"
      <3>1. looper' = [looper EXCEPT ![t] = [looper[t] EXCEPT !.pc = "store", !.ret = -1]]
        BY <1>0, <1>2, <2>2 DEF LooperAccept
      <3> QED BY <1>0, <1>2, <3>1 DEF LooperAccept
    <2> QED BY <2>1, <2>2
  <1>3. CASE LooperConnected(t)
    <2>1. looper' = [looper EXCEPT ![t] = [looper[t] EXCEPT !.pc = "store", !.ret = Lowest]]
      BY <1>0, <1>3 DEF LooperConnected
    <2>2. Lowest \in Fd
      BY <1>3, LowestFd DEF LooperConnected, Open
    <2> QED BY <1>0, <1>3, <2>1, <2>2 DEF LooperConnected
  <1>4. CASE LooperRefused(t)
    <2>1. looper' = [looper EXCEPT ![t] = [looper[t] EXCEPT !.pc = "store", !.ret = -1]]
      BY <1>0, <1>4 DEF LooperRefused
    <2> QED BY <1>0, <1>4, <2>1 DEF LooperRefused
  <1>5. ASSUME NEW to \in {"check", "recv", "ended", "serve", "send"},
               looper[t].pc \in {"store", "check", "receiving", "written"},
               to \in {"serve", "send"} => looper[t].pc \in Answering,
               looper' = [looper EXCEPT ![t].pc = to]
        PROVE  \E l \in Threads : Placed(l) /\ looper' = [looper EXCEPT ![t] = l]
    <2>1. looper' = [looper EXCEPT ![t] = [looper[t] EXCEPT !.pc = to]]
      BY <1>0, <1>5
    <2> QED BY <1>0, <1>5, <2>1
  <1>6. CASE LooperStore(t) \/ LooperCheck(t) \/ LooperWritten(t)
    BY <1>5, <1>6 DEF LooperStore, LooperCheck, LooperWritten, Goto
  <1>7. CASE LooperRecv(t)
    <2>1. CASE At(clientsock).kind = "connection"
      <3>1. looper' = [looper EXCEPT ![t] = [looper[t] EXCEPT !.pc = "receiving",
                                                             !.on = At(clientsock).of]]
        BY <1>0, <1>7, <2>1 DEF LooperRecv
      <3>2. At(clientsock).of \in Client
        BY <2>1, SocketAt DEF TypeOK, Files, Connection
      <3> QED BY <1>0, <1>7, <3>1, <3>2 DEF LooperRecv
    <2>2. CASE At(clientsock).kind # "connection"
      <3>1. looper' = [looper EXCEPT ![t] = [looper[t] EXCEPT !.pc = "reloop"]]
        BY <1>0, <1>7, <2>2 DEF LooperRecv
      <3> QED BY <1>0, <1>7, <3>1 DEF LooperRecv
    <2> QED BY <2>1, <2>2
  <1>8. CASE LooperReceived(t)
    <2>1. CASE looper' = [looper EXCEPT ![t].pc = "serve"]
      BY <1>5, <1>8, <2>1 DEF LooperReceived, Goto
    <2>2. CASE looper' = [looper EXCEPT ![t].pc = "reloop"]
      <3>1. looper' = [looper EXCEPT ![t] = [looper[t] EXCEPT !.pc = "reloop"]]
        BY <1>0, <2>2
      <3> QED BY <1>0, <3>1
    <2> QED BY <1>8, <2>1, <2>2 DEF LooperReceived, Goto
  <1>9. CASE LooperServe(t)
    <2>1. looper' = [looper EXCEPT ![t] = [looper[t] EXCEPT !.pc = "written", !.ret = Lowest,
                                                           !.reply = looper[t].on]]
      BY <1>0, <1>9 DEF LooperServe
    <2>2. Lowest \in Fd
      BY <1>9, LowestFd DEF LooperServe, Open
    <2> QED BY <1>0, <1>9, <2>1, <2>2 DEF LooperServe, Reply
  <1>12. CASE LooperNoMode(t)
    <2>1. looper' = [looper EXCEPT ![t] = [looper[t] EXCEPT !.pc = "send",
                                                           !.reply = looper[t].on]]
      BY <1>0, <1>12 DEF LooperNoMode
    <2> QED BY <1>0, <1>12, <2>1 DEF LooperNoMode, Reply
  <1>10. CASE LooperSend(t)
    <2>1. CASE Arrives(clientsock)
      <3>1. looper' = [looper EXCEPT ![t] = [looper[t] EXCEPT !.pc = "close", !.retry = 0]]
        BY <1>0, <1>10, <2>1 DEF LooperSend
      <3>2. 0 \in 0..MaxRetry /\ 0 < MaxRetry
        BY <1>0
      <3> QED BY <1>0, <3>1, <3>2
    <2>2. CASE ~Arrives(clientsock)
      <3> DEFINE pc == IF looper[t].retry + 1 < MaxRetry THEN "send" ELSE "reloop"
      <3>1. looper' = [looper EXCEPT ![t] = [looper[t] EXCEPT !.pc = pc, !.retry = @ + 1,
                                                             !.reply = "EINVAL"]]
        BY <1>0, <1>10, <2>2 DEF LooperSend
      <3>2. looper[t].retry + 1 \in 0..MaxRetry /\ looper[t].pc = "send"
        BY <1>0, <1>10 DEF LooperSend
      <3> QED BY <1>0, <3>1, <3>2 DEF Reply
    <2> QED BY <2>1, <2>2
  <1>11. CASE LooperClose(t)
    <2>1. looper' = [looper EXCEPT ![t] = [looper[t] EXCEPT !.pc = "accept"]]
      BY <1>0, <1>11 DEF LooperClose, Goto
    <2> QED BY <1>0, <1>11, <2>1 DEF LooperClose, Goto
  <1> QED BY <1>1, <1>2, <1>3, <1>4, <1>6, <1>7, <1>8, <1>9, <1>10, <1>11,
           <1>12 DEF Looper

\* The threads of PlaceInv, one by one.
LEMMA PlacedThreads ==
    ASSUME TypeOK, PlaceInv, NEW t \in Start, NEW l \in Threads, Placed(l),
           looper' = [looper EXCEPT ![t] = l]
    PROVE  /\ looper' \in [Start -> Threads]
           /\ \A u \in Start : Placed(looper'[u])
  <1>1. looper \in [Start -> Threads] /\ \A u \in Start : Placed(looper[u])
    BY DEF TypeOK, PlaceInv, Threads, Placed
  <1> QED BY <1>1

\* The other variables after a step of a looper.
LEMMA LooperRest ==
    ASSUME TypeOK, PlaceInv, NEW t \in Start, Looper(t)
    PROVE  /\ clientsock' \in Fd \cup {-1, 0}
           /\ file' \in [Fd -> Files]
           /\ served' \subseteq Client
           /\ backlog' \in [Start -> SUBSET Client]
           /\ mode' \in {"boost", "balanced", "batterysave"}
           /\ client' \in [Client -> Clients]
  <1>0. /\ looper[t].ret \in Fd \cup {-1, 0} /\ looper[t].reply \in Reply
        /\ file \in [Fd -> Files] /\ Unused \in Files /\ Sysfs \in Files
        /\ client \in [Client -> Clients]
        /\ backlog \in [Start -> SUBSET Client]
        /\ clientsock \in Fd \cup {-1, 0}
        /\ mode \in {"boost", "balanced", "batterysave"} /\ served \subseteq Client
    BY DEF TypeOK, Files, Clients
  <1>1. CASE LooperReloop(t) \/ LooperClose(t)
    BY <1>0, <1>1, CloseFacts DEF LooperReloop, LooperClose
  <1>2. CASE LooperAccept(t) \/ LooperRefused(t) \/ LooperCheck(t) \/ LooperRecv(t)
             \/ LooperReceived(t)
    BY <1>0, <1>2 DEF LooperAccept, LooperRefused, LooperCheck, LooperRecv, LooperReceived
  <1>3. CASE LooperStore(t)
    BY <1>0, <1>3 DEF LooperStore
  <1>4. CASE LooperConnected(t)
    <2>1. PICK c \in backlog[looper[t].on] :
             /\ Open(Connection(c))
             /\ backlog' = [backlog EXCEPT ![looper[t].on] = @ \ {c}]
      BY <1>4 DEF LooperConnected
    <2>2. c \in Client /\ looper[t].on \in Start
      BY <1>0, <1>4, <2>1 DEF LooperConnected, PlaceInv
    <2>3. Connection(c) \in Files
      BY <2>2 DEF Files, Socket
    <2>4. file' \in [Fd -> Files]
      BY <1>0, <2>1, <2>3, OpenFacts
    <2>5. backlog' \in [Start -> SUBSET Client]
      BY <1>0, <2>1, <2>2
    <2> QED BY <1>0, <1>4, <2>4, <2>5 DEF LooperConnected
  <1>5. CASE LooperServe(t) \/ LooperNoMode(t)
    <2>1. looper[t].on \in Client
      BY <1>5 DEF LooperServe, LooperNoMode, PlaceInv, Answering
    <2>2. file' \in [Fd -> Files]
      <3>1. LooperServe(t) => file' \in [Fd -> Files]
        BY <1>0, OpenFacts DEF LooperServe
      <3> QED BY <1>0, <1>5, <3>1 DEF LooperNoMode
    <2> QED BY <1>0, <1>5, <2>1, <2>2 DEF LooperServe, LooperNoMode
  <1>6. CASE LooperWritten(t)
    <2>1. file' \in [Fd -> Files]
      BY <1>0, <1>6, CloseFacts DEF LooperWritten
    <2> QED BY <1>0, <1>6, <2>1 DEF LooperWritten
  <1>7. CASE LooperSend(t)
    <2>1. client' \in [Client -> Clients]
      BY <1>0, <1>7 DEF LooperSend, Clients
    <2> QED BY <1>0, <1>7, <2>1 DEF LooperSend
  <1> QED BY <1>1, <1>2, <1>3, <1>4, <1>5, <1>6, <1>7 DEF Looper

LEMMA LooperStep ==
    ASSUME TypeOK, PlaceInv, NEW t \in Start, Looper(t)
    PROVE  TypeOK' /\ PlaceInv'
  <1>1. PICK l \in Threads : Placed(l) /\ looper' = [looper EXCEPT ![t] = l]
    BY LooperTypes
  <1>2. looper' \in [Start -> Threads] /\ \A u \in Start : Placed(looper'[u])
    BY <1>1, PlacedThreads
  <1>3. UNCHANGED <<psthread_run, sock, hal, path, shut, rushed, resumed>>
    BY DEF Looper
  <1>4. TypeOK'
    BY <1>2, <1>3, LooperRest DEF TypeOK, Threads, Files, Clients
  <1>5. PlaceInv'
    BY <1>2, <1>3 DEF PlaceInv, Placed
  <1> QED BY <1>4, <1>5

\* The steps of the HAL thread.
Hals == [pc : HalPc, starts : 0..MaxStarts, ready : BOOLEAN, awake : BOOLEAN,
    ret : Fd \cup {0}]

LEMMA ReturnsTypes ==
    ASSUME hal \in Hals, NEW ok \in BOOLEAN, Returns(ok)
    PROVE  /\ hal' \in Hals /\ hal'.pc \in {"set", "idle", "dead"}
           /\ hal'.awake = hal.awake /\ hal'.starts = hal.starts
  BY DEF Returns, Hals, HalPc

LEMMA HalToTypes ==
    ASSUME hal \in Hals, NEW pc \in HalPc, HalTo(pc)
    PROVE  /\ hal' \in Hals /\ hal'.pc = pc
           /\ hal'.awake = hal.awake /\ hal'.starts = hal.starts
  BY DEF HalTo, Hals

\* What a step of the HAL thread leaves in its own state.
LEMMA HalTypes ==
    ASSUME TypeOK, PlaceInv, Hal
    PROVE  /\ hal' \in Hals
           /\ hal'.pc = "start" => hal'.starts < MaxStarts
           /\ hal'.pc \in Starting \ {"start"} => hal'.starts > 0
  <1> USE DEF HalPc, Starting
  <1>0. hal \in Hals /\ MaxStarts \in Nat \ {0}
    BY BoundAssumption DEF TypeOK, Hals
  <1>1. CASE HalStart
    <2>1. CASE hal' = [hal EXCEPT !.pc = "socket", !.starts = @ + 1]
      <3>1. hal.starts < MaxStarts /\ hal.starts \in 0..MaxStarts
        BY <1>0, <1>1 DEF HalStart, HalAt, PlaceInv, Hals
      <3>2. hal.starts + 1 \in 0..MaxStarts /\ hal.starts + 1 > 0
        BY <1>0, <3>1
      <3> QED BY <1>0, <2>1, <3>2 DEF Hals
    <2>2. CASE Returns(FALSE)
      BY <1>0, <2>2, ReturnsTypes
    <2> QED BY <1>1, <2>1, <2>2 DEF HalStart
  <1>2. CASE HalSocket \/ HalBind \/ HalThread
    <2>1. hal.starts > 0
      BY <1>2 DEF HalSocket, HalBind, HalThread, HalAt, PlaceInv
    <2>2. HalTo("bind") \/ HalTo("thread") \/ Returns(TRUE) \/ Returns(FALSE)
      BY <1>2 DEF HalSocket, HalBind, HalThread
    <2> QED BY <1>0, <2>1, <2>2, ReturnsTypes, HalToTypes
  <1>3. CASE HalShutClient \/ HalCloseClient \/ HalShutSock \/ HalCloseSock \/ HalWritten
    <2>1. \E pc \in {"closeclient", "shutsock", "closesock", "set", "idle"} : HalTo(pc)
      BY <1>3 DEF HalShutClient, HalCloseClient, HalShutSock, HalCloseSock, HalWritten
    <2> QED BY <1>0, <2>1, HalToTypes
  <1>4. CASE HalSet
    <2>1. Lowest \in Fd
      BY <1>4, LowestFd DEF HalSet, Open
    <2> QED BY <1>0, <1>4, <2>1 DEF HalSet, Hals
  <1>5. CASE Sleep
    BY <1>0, <1>5 DEF Sleep, Hals
  <1>6. CASE Wake
    BY <1>0, <1>6 DEF Wake, Hals
  <1> QED BY <1>1, <1>2, <1>3, <1>4, <1>5, <1>6 DEF Hal, HalStep

LEMMA ShutdownTypes ==
    ASSUME file \in [Fd -> Files], shut \subseteq Socket, NEW f, Shutdown(f)
    PROVE  shut' \subseteq Socket
  BY SocketAt DEF Shutdown, Socket

\* The other variables after a step of the HAL thread.
LEMMA HalRest ==
    ASSUME TypeOK, PlaceInv, Hal
    PROVE  /\ psthread_run' \in BOOLEAN /\ {sock', clientsock'} \subseteq Fd \cup {-1, 0}
           /\ file' \in [Fd -> Files]
           /\ path' \in Start \cup {0}
           /\ shut' \subseteq Socket
           /\ backlog' = backlog
           /\ mode' \in {"boost", "balanced", "batterysave"}
           /\ rushed' \in BOOLEAN /\ resumed' \in BOOLEAN
           /\ served' = served /\ client' = client
           /\ \/ looper' = looper
              \/ HalThread /\ looper' = [looper EXCEPT ![hal.starts].pc = "reloop"]
  <1> USE DEF globals, kernel
  <1>0. /\ psthread_run \in BOOLEAN /\ {sock, clientsock} \subseteq Fd \cup {-1, 0}
        /\ file \in [Fd -> Files] /\ Unused \in Files /\ Sysfs \in Files
        /\ path \in Start \cup {0} /\ shut \subseteq Socket
        /\ mode \in {"boost", "balanced", "batterysave"} /\ rushed \in BOOLEAN
        /\ resumed \in BOOLEAN /\ resumed' \in BOOLEAN
        /\ served' = served /\ client' = client
    BY DEF TypeOK, Files, Hal, Wake
  <1>1. Sleep \/ rushed' = rushed
    BY DEF Hal
  <1>2. CASE HalStart
    BY <1>0, <1>1, <1>2 DEF HalStart, HalAt, Sleep
  <1>3. CASE HalSocket \/ HalBind
    <2>1. hal.starts \in Start
      <3>1. hal.starts > 0 /\ hal.starts \in 0..MaxStarts
        BY <1>3 DEF HalSocket, HalBind, HalAt, PlaceInv, TypeOK, Starting
      <3> QED BY <3>1, BoundAssumption DEF Start
    <2>2. CASE HalSocket
      <3>1. CASE Open(Listening(hal.starts)) /\ sock' = Lowest
        <4>1. Listening(hal.starts) \in Files
          BY <2>1 DEF Files, Socket
        <4>2. file' \in [Fd -> Files] /\ Lowest \in Fd
          BY <1>0, <3>1, <4>1, OpenFacts
        <4> QED BY <1>0, <1>1, <2>2, <3>1, <4>2 DEF HalSocket, HalAt, Sleep
      <3>2. CASE sock' = -1 /\ UNCHANGED file
        BY <1>0, <1>1, <2>2, <3>2 DEF HalSocket, HalAt, Sleep
      <3> QED BY <2>2, <3>1, <3>2 DEF HalSocket
    <2>3. CASE HalBind
      BY <1>0, <1>1, <2>1, <2>3 DEF HalBind, HalAt, Sleep
    <2> QED BY <1>3, <2>2, <2>3
  <1>4. CASE HalThread
    BY <1>0, <1>1, <1>4 DEF HalThread, HalAt, Sleep
  <1>5. CASE HalShutClient \/ HalShutSock
    <2>1. shut' \subseteq Socket
      BY <1>0, <1>5, ShutdownTypes DEF HalShutClient, HalShutSock
    <2> QED BY <1>0, <1>1, <1>5, <2>1 DEF HalShutClient, HalShutSock, HalAt, Sleep
  <1>6. CASE HalCloseClient \/ HalCloseSock \/ HalWritten
    <2>1. file' \in [Fd -> Files]
      BY <1>0, <1>6, CloseFacts DEF HalCloseClient, HalCloseSock, HalWritten
    <2> QED BY <1>0, <1>1, <1>6, <2>1 DEF HalCloseClient, HalCloseSock, HalWritten, HalAt,
          Sleep
  <1>7. CASE HalSet
    <2>1. file' \in [Fd -> Files]
      BY <1>0, <1>7, OpenFacts DEF HalSet
    <2> QED BY <1>0, <1>1, <1>7, <2>1 DEF HalSet, HalAt, Sleep
  <1>8. CASE Sleep
    BY <1>0, <1>8 DEF Sleep, Rushes
  <1>9. CASE Wake /\ rushed' = rushed
    BY <1>0, <1>9 DEF Wake
  <1> QED BY <1>1, <1>2, <1>3, <1>4, <1>5, <1>6, <1>7, <1>8, <1>9 DEF Hal, HalStep

\* The loopers after a step of the HAL thread: one may have begun.
LEMMA HalLoopers ==
    ASSUME TypeOK, PlaceInv, Hal
    PROVE  /\ looper' \in [Start -> Threads]
           /\ \A u \in Start : Placed(looper'[u])
           /\ \A u \in Start : looper'[u] = looper[u] \/ (HalThread /\ u = hal.starts)
  <1>1. looper \in [Start -> Threads] /\ \A u \in Start : Placed(looper[u])
    BY DEF TypeOK, PlaceInv, Threads, Placed
  <1>2. CASE looper' = looper
    BY <1>1, <1>2
  <1>3. CASE HalThread /\ looper' = [looper EXCEPT ![hal.starts].pc = "reloop"]
    <2>1. ASSUME NEW u \in Start
          PROVE  /\ looper'[u] \in Threads /\ Placed(looper'[u])
                 /\ looper'[u] = looper[u] \/ u = hal.starts
      <3>1. \/ looper'[u] = looper[u]
            \/ u = hal.starts /\ looper'[u] = [looper[u] EXCEPT !.pc = "reloop"]
        BY <1>1, <1>3
      <3>2. looper[u] \in Threads /\ Placed(looper[u])
        BY <1>1
      <3> QED BY <3>1, <3>2 DEF Threads, Placed, LooperPc, Answering
    <2>2. looper' \in [Start -> Threads]
      BY <1>1, <1>3, <2>1
    <2> QED BY <1>3, <2>1, <2>2
  <1> QED BY <1>2, <1>3, HalRest

LEMMA HalStepTypes ==
    ASSUME TypeOK, PlaceInv, Hal
    PROVE  TypeOK' /\ PlaceInv'
  <1>1. TypeOK'
    BY HalTypes, HalRest, HalLoopers DEF TypeOK, Hals, Threads, Files
  <1>2. PlaceInv'
    BY HalTypes, HalLoopers DEF PlaceInv, Placed
  <1> QED BY <1>1, <1>2

\* The steps of the clients.
LEMMA ClientTypes ==
    ASSUME TypeOK, PlaceInv, NEW c \in Client, ClientStep(c)
    PROVE  TypeOK' /\ PlaceInv'
  <1>1. client \in [Client -> Clients] /\ rushed \in BOOLEAN
        /\ backlog \in [Start -> SUBSET Client]
    BY DEF TypeOK, Clients
  <1>2. rushed' \in BOOLEAN
    BY <1>1 DEF ClientStep, Connect, Rushes
  <1>3. client' \in [Client -> Clients] /\ backlog' \in [Start -> SUBSET Client]
    <2>1. ASSUME NEW res \in Reply \cup {"refused", "undefined"}, Finish(c, res)
          PROVE  client' \in [Client -> Clients]
      <3>1. client' = [client EXCEPT ![c] = [client[c] EXCEPT !.pc = "closed", !.res = res]]
        BY <1>1, <2>1 DEF Finish, Clients
      <3>2. [client[c] EXCEPT !.pc = "closed", !.res = res] \in Clients
        BY <1>1 DEF Clients
      <3> QED BY <1>1, <3>1, <3>2
    <2>2. CASE Connect(c)
      <3>1. CASE Finish(c, "refused") /\ UNCHANGED backlog
        BY <1>1, <2>1, <3>1
      <3>2. CASE /\ backlog' = [backlog EXCEPT ![path] = @ \cup {c}]
                 /\ client' = [client EXCEPT ![c].pc = "connected"]
        BY <1>1, <3>2 DEF Clients
      <3> QED BY <2>2, <3>1, <3>2 DEF Connect
    <2>3. CASE SendRequest(c)
      <3>1. CASE Finish(c, "refused")
        BY <1>1, <2>1, <2>3, <3>1 DEF SendRequest
      <3>2. CASE client' = [client EXCEPT ![c].pc = "waiting", ![c].sent = TRUE]
        <4>1. client' = [client EXCEPT ![c] =
                           [client[c] EXCEPT !.pc = "waiting", !.sent = TRUE]]
          BY <1>1, <3>2 DEF Clients
        <4>2. [client[c] EXCEPT !.pc = "waiting", !.sent = TRUE] \in Clients
          BY <1>1 DEF Clients
        <4> QED BY <1>1, <2>3, <4>1, <4>2 DEF SendRequest
      <3> QED BY <2>3, <3>1, <3>2 DEF SendRequest
    <2>4. CASE Receive(c)
      <3>1. client[c].inbox \in Reply \cup {"none"}
        BY <1>1 DEF Clients
      <3>2. \E res \in Reply \cup {"refused", "undefined"} : Finish(c, res)
        BY <2>4, <3>1 DEF Receive, Reply
      <3> QED BY <1>1, <2>1, <2>4, <3>2 DEF Receive
    <2> QED BY <2>2, <2>3, <2>4 DEF ClientStep
  <1>4. UNCHANGED <<globals, looper, hal, mode, served, file, path, shut, resumed>>
    BY DEF ClientStep
  <1>5. TypeOK'
    BY <1>2, <1>3, <1>4 DEF TypeOK, globals, Clients
  <1>6. PlaceInv'
    BY <1>4 DEF PlaceInv
  <1> QED BY <1>5, <1>6

LEMMA InitTypes == Init => TypeOK /\ PlaceInv
  <1> SUFFICES ASSUME Init PROVE TypeOK /\ PlaceInv
    OBVIOUS
  <1>1. MaxStarts \in Nat \ {0} /\ MaxRetry \in Nat \ {0}
    BY BoundAssumption
  <1>2. looper \in [Start -> Threads] /\ \A t \in Start : Placed(looper[t])
    BY <1>1 DEF Init, Threads, Placed, LooperPc, Reply, Answering
  <1>3. hal \in Hals
    BY <1>1 DEF Init, Hals, HalPc
  <1>4. client \in [Client -> Clients]
    BY DEF Init, Clients
  <1>5. TypeOK
    BY <1>2, <1>3, <1>4 DEF Init, TypeOK, Threads, Hals, Clients
  <1>6. PlaceInv
    BY <1>1, <1>2 DEF Init, PlaceInv, Placed, Starting
  <1> QED BY <1>5, <1>6

\* A step of the server or of a client.
LEMMA StepTypes == TypeOK /\ PlaceInv /\ [Next]_vars => TypeOK' /\ PlaceInv'
  <1> SUFFICES ASSUME TypeOK, PlaceInv, [Next]_vars PROVE TypeOK' /\ PlaceInv'
    OBVIOUS
  <1>1. CASE UNCHANGED vars
    BY <1>1 DEF vars, globals, kernel, TypeOK, PlaceInv
  <1>2. CASE Next
    BY <1>2, LooperStep, HalStepTypes, ClientTypes DEF Next
  <1> QED BY <1>1, <1>2

\* Every variable of the server, of the kernel and of the clients keeps to its
\* set, whatever the rush and the failures.
THEOREM ServerTypeCorrect == Spec => [](TypeOK /\ PlaceInv)
  BY InitTypes, StepTypes, PTL DEF Spec

-----------------------------------------------------------------------------
(* A device that fell asleep.                                              *)

\* A looper that answers no request goes on to one only while the server is
\* said to run.
LEMMA LooperIdles ==
    ASSUME TypeOK, NEW t \in Start, Looper(t)
    PROVE  /\ \A u \in Start : u # t => looper'[u] = looper[u]
           /\ looper[t].pc \notin Gone
           /\ looper[t].pc \in Idling /\ ~psthread_run
                 => looper'[t].pc \in Idling /\ mode' = mode
  <1> USE DEF Gone, Idling
  <1>1. looper \in [Start -> Threads]
    BY DEF TypeOK, Threads
  <1>2. CASE LooperReloop(t) \/ LooperAccept(t) \/ LooperConnected(t)
    BY <1>1, <1>2 DEF LooperReloop, LooperAccept, LooperConnected, Threads
  <1>3. CASE LooperRefused(t) \/ LooperStore(t) \/ LooperCheck(t)
    BY <1>1, <1>3 DEF LooperRefused, LooperStore, LooperCheck, Goto, Threads
  <1>4. CASE LooperRecv(t) \/ LooperReceived(t) \/ LooperServe(t)
             \/ LooperNoMode(t)
    BY <1>1, <1>4 DEF LooperRecv, LooperReceived, LooperServe, LooperNoMode, Goto, Threads
  <1>5. CASE LooperWritten(t) \/ LooperSend(t) \/ LooperClose(t)
    BY <1>1, <1>5 DEF LooperWritten, LooperSend, LooperClose, Goto, Threads
  <1> QED BY <1>2, <1>3, <1>4, <1>5 DEF Looper

\* What the HAL thread says of the server.
LEMMA HalSays ==
    ASSUME TypeOK, StartInv, Hal
    PROVE  /\ StartInv'
           /\ ~psthread_run' => ~psthread_run \/ Sleep
           /\ HalThread => psthread_run /\ psthread_run'
           /\ hal'.pc = "idle" /\ ~hal'.awake
                 => mode' = "batterysave" /\ ~Sleep
  <1> USE DEF StartInv, Starting, globals, HalPc
  <1>0. hal \in Hals
    BY DEF TypeOK, Hals
  <1>1. CASE HalStart
    <2>1. CASE psthread_run' = TRUE /\ hal' = [hal EXCEPT !.pc = "socket", !.starts = @ + 1]
      BY <1>0, <1>1, <2>1 DEF HalStart, HalAt, HalThread, Hals
    <2>2. CASE Returns(FALSE) /\ UNCHANGED psthread_run
      BY <1>0, <1>1, <2>2, ReturnsTypes DEF HalStart, HalAt, HalThread
    <2> QED BY <1>1, <2>1, <2>2 DEF HalStart
  <1>2. CASE HalSocket \/ HalBind \/ HalThread
    <2>1. HalTo("bind") \/ HalTo("thread") \/ Returns(TRUE) \/ Returns(FALSE)
      BY <1>2 DEF HalSocket, HalBind, HalThread
    <2>2. psthread_run' = psthread_run /\ psthread_run /\ hal.awake
      BY <1>2 DEF HalSocket, HalBind, HalThread, HalAt
    <2> QED BY <1>0, <2>1, <2>2, ReturnsTypes, HalToTypes
  <1>3. CASE HalShutClient \/ HalCloseClient \/ HalShutSock \/ HalCloseSock
    <2>1. \E pc \in {"closeclient", "shutsock", "closesock", "set"} : HalTo(pc)
      BY <1>3 DEF HalShutClient, HalCloseClient, HalShutSock, HalCloseSock
    <2>2. /\ hal.pc \in {"shutclient", "closeclient", "shutsock", "closesock"}
          /\ psthread_run' = psthread_run
      BY <1>3 DEF HalShutClient, HalCloseClient, HalShutSock, HalCloseSock, HalAt
    <2> QED BY <1>0, <2>1, <2>2, HalToTypes DEF HalThread, HalAt
  <1>4. CASE HalSet
    BY <1>0, <1>4 DEF HalSet, HalAt, HalThread, Hals
  <1>5. CASE HalWritten
    <2>1. HalTo("idle") /\ hal.pc = "written" /\ psthread_run' = psthread_run
      BY <1>5 DEF HalWritten, HalAt
    <2>2. ~hal.awake => mode' = "batterysave"
      BY <1>5 DEF HalWritten
    <2> QED BY <1>0, <2>1, <2>2, HalToTypes DEF HalThread, HalAt, Sleep
  <1>6. CASE Sleep
    BY <1>0, <1>6 DEF Sleep, HalThread, HalAt, Hals
  <1>7. CASE Wake
    BY <1>0, <1>7 DEF Wake, HalThread, HalAt, Hals
  <1> QED BY <1>1, <1>2, <1>3, <1>4, <1>5, <1>6, <1>7 DEF Hal, HalStep

LEMMA StepSleep ==
    TypeOK /\ PlaceInv /\ StartInv /\ SleepInv /\ [Next]_vars => StartInv' /\ SleepInv'
  <1> SUFFICES ASSUME TypeOK, PlaceInv, StartInv, SleepInv, [Next]_vars
               PROVE  StartInv' /\ SleepInv'
    OBVIOUS
  <1>1. CASE UNCHANGED vars
    BY <1>1 DEF vars, globals, kernel, StartInv, SleepInv
  <1>2. ASSUME NEW t \in Start, Looper(t) PROVE StartInv' /\ SleepInv'
    <2>1. UNCHANGED <<psthread_run, hal, rushed>>
      BY <1>2 DEF Looper
    <2>2. ~psthread_run /\ ~rushed => mode' = mode /\ \A u \in Start : looper'[u].pc \in Idling
      BY <1>2, LooperIdles DEF SleepInv
    <2> QED BY <2>1, <2>2 DEF StartInv, SleepInv
  <1>3. CASE Hal
    <2>1. CASE Sleep
      <3>1. ~rushed' => \A u \in Start : looper'[u].pc \in Idling
        BY <2>1 DEF Sleep, Rushes, AtRest, Idling
      <3> QED BY <1>3, <2>1, <3>1, HalSays DEF SleepInv
    <2>2. CASE ~Sleep
      <3>1. rushed' = rushed
        BY <1>3, <2>2 DEF Hal
      <3>2. ~psthread_run' => looper' = looper
        BY <1>3, HalSays, HalRest
      <3> QED BY <1>3, <2>2, <3>1, <3>2, HalSays DEF SleepInv
    <2> QED BY <2>1, <2>2
  <1>4. ASSUME NEW c \in Client, ClientStep(c) PROVE StartInv' /\ SleepInv'
    <2>1. UNCHANGED <<psthread_run, looper, hal, mode>>
      BY <1>4 DEF ClientStep, globals
    <2>2. ~rushed' => ~rushed
      BY <1>4 DEF ClientStep, Connect, Rushes, TypeOK
    <2> QED BY <2>1, <2>2 DEF StartInv, SleepInv
  <1> QED BY <1>1, <1>2, <1>3, <1>4 DEF Next

\* Whenever the device may fall asleep, and however the server was started
\* before: a device that fell asleep at rest saves its battery (setInteractive
\* sets the mode last, and no looper sets one after it).
THEOREM AsleepSavesBattery == Spec => []AsleepSaves
  <1>1. Init => StartInv /\ SleepInv
    BY DEF Init, StartInv, SleepInv, Starting, Idling
  <1>2. SleepInv => AsleepSaves
    BY DEF SleepInv, AsleepSaves
  <1> QED BY <1>1, <1>2, StepSleep, ServerTypeCorrect, PTL DEF Spec

-----------------------------------------------------------------------------
(* One looper at a time, unless the device may wake while one is left.     *)

\* When the HAL thread comes to a start, and what a start counts.
LEMMA HalStarts ==
    ASSUME TypeOK, Hal
    PROVE  /\ hal'.starts = hal.starts \/ HalStart
           /\ hal'.pc \in Starting => hal.pc \in Starting \/ (Wake /\ ~psthread_run)
           /\ hal'.awake => hal.awake \/ Wake
           /\ hal.awake => hal'.awake \/ Sleep
           /\ HalThread => hal'.pc \notin Starting
           /\ HalStart => hal.pc \in Starting
  <1> USE DEF Starting, globals, HalPc
  <1>0. hal \in Hals
    BY DEF TypeOK, Hals
  <1>1. CASE HalStart
    <2>1. CASE hal' = [hal EXCEPT !.pc = "socket", !.starts = @ + 1]
      BY <1>0, <1>1, <2>1 DEF HalStart, HalAt, HalThread, Hals
    <2>2. CASE Returns(FALSE)
      BY <1>0, <1>1, <2>2, ReturnsTypes DEF HalStart, HalAt, HalThread
    <2> QED BY <1>1, <2>1, <2>2 DEF HalStart
  <1>2. CASE HalSocket \/ HalBind
    <2>1. HalTo("bind") \/ HalTo("thread") \/ Returns(FALSE)
      BY <1>2 DEF HalSocket, HalBind
    <2>2. hal.pc \in {"socket", "bind"}
      BY <1>2 DEF HalSocket, HalBind, HalAt
    <2> QED BY <1>0, <2>1, <2>2, ReturnsTypes, HalToTypes DEF HalThread, HalAt, HalStart
  <1>3. CASE HalThread
    <2>1. Returns(TRUE) \/ Returns(FALSE)
      BY <1>3 DEF HalThread
    <2> QED BY <1>0, <1>3, <2>1, ReturnsTypes DEF HalThread, HalAt, HalStart
  <1>4. CASE HalShutClient \/ HalCloseClient \/ HalShutSock \/ HalCloseSock \/ HalWritten
    <2>1. \E pc \in {"closeclient", "shutsock", "closesock", "set", "idle"} : HalTo(pc)
      BY <1>4 DEF HalShutClient, HalCloseClient, HalShutSock, HalCloseSock, HalWritten
    <2>2. hal.pc \in {"shutclient", "closeclient", "shutsock", "closesock", "written"}
      BY <1>4 DEF HalShutClient, HalCloseClient, HalShutSock, HalCloseSock, HalWritten, HalAt
    <2> QED BY <1>0, <2>1, <2>2, HalToTypes DEF HalThread, HalAt, HalStart
  <1>5. CASE HalSet
    BY <1>0, <1>5 DEF HalSet, HalAt, HalThread, HalStart, Hals
  <1>6. CASE Sleep
    BY <1>0, <1>6 DEF Sleep, HalThread, HalAt, HalStart, Hals
  <1>7. CASE Wake
    BY <1>0, <1>7 DEF Wake, HalThread, HalAt, HalStart, Hals, TypeOK
  <1> QED BY <1>1, <1>2, <1>3, <1>4, <1>5, <1>6, <1>7 DEF Hal, HalStep

LEMMA StepLone ==
    ASSUME Rush # "any", TypeOK, PlaceInv, StartInv, LoneInv, [Next]_vars
    PROVE  LoneInv'
  <1>1. CASE UNCHANGED vars
    BY <1>1 DEF vars, globals, kernel, LoneInv, AllEnded
  <1>2. ASSUME NEW t \in Start, Looper(t) PROVE LoneInv'
    <2>1. UNCHANGED <<psthread_run, hal>>
      BY <1>2 DEF Looper
    <2>2. ~AllEnded /\ t = hal.starts
      BY <1>2, LooperIdles DEF AllEnded, LoneInv, Gone
    <2> QED BY <1>2, <2>1, <2>2, LooperIdles DEF LoneInv
  <1>3. CASE Hal
    <2>1. CASE HalThread
      <3>1. hal'.pc \notin Starting /\ psthread_run' /\ hal'.starts = hal.starts
        BY <1>3, <2>1, HalStarts, HalSays DEF HalThread, HalStart, HalAt
      <3>2. \A u \in Start : looper'[u].pc \notin Gone => u = hal'.starts
        BY <1>3, <3>1, HalLoopers DEF LoneInv
      <3> QED BY <3>1, <3>2 DEF LoneInv
    <2>2. CASE ~HalThread
      <3>1. looper' = looper
        BY <1>3, <2>2, HalRest
      <3>2. Wake /\ ~psthread_run => AllEnded
        BY DEF Wake, MayWake, LoneInv
      <3>3. hal'.pc \in Starting => AllEnded'
        BY <1>3, <3>1, <3>2, HalStarts DEF LoneInv, AllEnded
      <3>4. hal'.awake /\ ~psthread_run' => AllEnded'
        <4>1. Sleep => ~hal'.awake
          BY DEF Sleep, TypeOK
        <4> QED BY <1>3, <3>1, <3>2, <4>1, HalStarts, HalSays DEF LoneInv, AllEnded
      <3>5. \A u \in Start : looper'[u].pc \notin Gone => u = hal'.starts
        BY <1>3, <3>1, HalStarts DEF LoneInv, AllEnded, Gone
      <3> QED BY <3>3, <3>4, <3>5 DEF LoneInv
    <2> QED BY <2>1, <2>2
  <1>4. ASSUME NEW c \in Client, ClientStep(c) PROVE LoneInv'
    BY <1>4 DEF ClientStep, globals, LoneInv, AllEnded
  <1> QED BY <1>1, <1>2, <1>3, <1>4 DEF Next

\* A looper that was started goes on, and no other does.
LEMMA LooperOrder ==
    ASSUME TypeOK, OrderInv, NEW t \in Start, Looper(t)
    PROVE  OrderInv'
  <1>1. UNCHANGED <<psthread_run, hal, rushed, resumed>>
    BY DEF Looper
  <1>2. /\ \A u \in Start : u # t => looper'[u] = looper[u]
        /\ looper[t].pc \notin Gone
    BY LooperIdles
  <1>3. \A u \in Start : u > hal.starts
          \/ (u = hal.starts /\ hal.pc \in {"socket", "bind", "thread"})
                           => looper'[u].pc = "none"
    BY <1>2 DEF OrderInv, Gone
  <1> QED BY <1>1, <1>3 DEF OrderInv

\* A step of the HAL thread that leaves the condition true found it true.
LEMMA HalKept ==
    ASSUME TypeOK, PlaceInv, OrderInv, Hal
    PROVE  /\ Kept' => Kept
           /\ resumed' => rushed'
           /\ hal'.awake /\ ~resumed' => ~resumed /\ (hal.awake \/ ~rushed)
  <1>1. hal.awake \in BOOLEAN /\ hal'.awake \in BOOLEAN /\ (resumed => rushed)
    BY HalTypes DEF TypeOK, TurnInv, OrderInv, Hals
  <1>2. CASE Sleep /\ UNCHANGED resumed
    BY <1>1, <1>2 DEF Sleep, Rushes, Kept
  <1>3. CASE Wake /\ UNCHANGED rushed
    BY <1>1, <1>3 DEF Wake, Kept
  <1>4. CASE ~Sleep /\ ~Wake /\ UNCHANGED <<rushed, resumed>>
    <2>1. hal'.awake <=> hal.awake
      BY <1>1, <1>4, HalStarts
    <2> QED BY <1>1, <1>4, <2>1 DEF Kept
  <1> QED BY <1>2, <1>3, <1>4 DEF Hal

LEMMA HalOrder ==
    ASSUME TypeOK, PlaceInv, StartInv, OrderInv, Hal
    PROVE  OrderInv'
  <1> USE DEF globals, kernel, Stopping
  <1>0. /\ hal \in Hals /\ looper \in [Start -> Threads]
        /\ MaxStarts \in Nat /\ rushed \in BOOLEAN
    BY BoundAssumption DEF TypeOK, Hals, Threads
  <1>1. resumed' => rushed'
    BY HalKept
  <1>2. CASE HalStart
    <2>1. looper' = looper /\ rushed' = rushed /\ hal.awake /\ hal.pc = "start"
      BY <1>2 DEF HalStart, HalAt, Hal, Sleep, StartInv, Starting
    <2>2. CASE psthread_run' = TRUE /\ hal' = [hal EXCEPT !.pc = "socket", !.starts = @ + 1]
      <3>1. hal'.starts = hal.starts + 1 /\ hal'.pc = "socket" /\ hal'.awake
            /\ hal.starts \in Nat
        BY <1>0, <2>1, <2>2 DEF Hals
      <3>2. \A t \in Start : t >= hal.starts + 1 => t > hal.starts
        BY <3>1 DEF Start
      <3>3. \A t \in Start : t > hal'.starts \/ t = hal'.starts => looper'[t].pc = "none"
        BY <2>1, <3>1, <3>2 DEF OrderInv, Start
      <3> QED BY <1>1, <2>1, <3>1, <3>3 DEF OrderInv
    <2>3. CASE Returns(FALSE) /\ UNCHANGED psthread_run
      <3>1. /\ hal'.pc \in {"set", "idle", "dead"} /\ hal'.awake = hal.awake
            /\ hal'.starts = hal.starts
        BY <1>0, <2>3, ReturnsTypes
      <3> QED BY <1>1, <2>1, <2>3, <3>1 DEF OrderInv
    <2> QED BY <1>2, <2>2, <2>3 DEF HalStart
  <1>3. CASE HalSocket \/ HalBind
    <2>1. HalTo("bind") \/ HalTo("thread") \/ Returns(FALSE)
      BY <1>3 DEF HalSocket, HalBind
    <2>2. /\ hal'.pc \in {"bind", "thread", "set", "idle", "dead"} /\ hal'.awake = hal.awake
          /\ hal'.starts = hal.starts
      BY <1>0, <2>1, HalToTypes, ReturnsTypes DEF HalPc
    <2>3. /\ UNCHANGED <<looper, rushed, psthread_run>>
          /\ hal.pc \in {"socket", "bind"} /\ hal.awake
      BY <1>3 DEF HalSocket, HalBind, HalAt, Hal, Sleep, StartInv, Starting
    <2> QED BY <1>1, <2>2, <2>3 DEF OrderInv
  <1>4. CASE HalThread
    <2>1. /\ hal'.pc \in {"set", "idle", "dead"} /\ hal'.awake = hal.awake
          /\ hal'.starts = hal.starts
      BY <1>0, <1>4, ReturnsTypes DEF HalThread
    <2>2. /\ UNCHANGED <<rushed, psthread_run>>
          /\ hal.pc = "thread" /\ hal.awake
      BY <1>4 DEF HalThread, HalAt, Hal, Sleep, StartInv, Starting
    <2>4. \A t \in Start : t > hal.starts => looper'[t].pc = "none"
      <3>1. ASSUME NEW t \in Start, t > hal.starts PROVE looper'[t].pc = "none"
        <4>1. t # hal.starts
          BY <1>0, <3>1 DEF Hals, Start
        <4> QED BY <3>1, <4>1, HalLoopers DEF OrderInv
      <3> QED BY <3>1
    <2> QED BY <1>1, <2>1, <2>2, <2>4 DEF OrderInv
  <1>5. CASE HalShutClient \/ HalCloseClient \/ HalShutSock \/ HalCloseSock \/ HalWritten
    <2>1. \E pc \in {"closeclient", "shutsock", "closesock", "set", "idle"} : HalTo(pc)
      BY <1>5 DEF HalShutClient, HalCloseClient, HalShutSock, HalCloseSock, HalWritten
    <2>2. /\ hal'.pc \in {"closeclient", "shutsock", "closesock", "set", "idle"}
          /\ hal'.awake = hal.awake /\ hal'.starts = hal.starts
      BY <1>0, <2>1, HalToTypes DEF HalPc
    <2>3. looper' = looper /\ rushed' = rushed /\ psthread_run' = psthread_run
      BY <1>5 DEF HalShutClient, HalCloseClient, HalShutSock, HalCloseSock, HalWritten,
                  HalAt, Hal, Sleep
    <2>4. hal.awake => hal'.pc = "idle"
      BY <1>0, <1>5, HalToTypes DEF HalShutClient, HalCloseClient, HalShutSock, HalCloseSock,
                  HalWritten, HalAt, OrderInv, HalPc
    <2> QED BY <1>1, <2>2, <2>3, <2>4 DEF OrderInv
  <1>6. CASE HalSet
    <2>1. /\ hal'.pc = "written" /\ hal'.awake = hal.awake /\ hal'.starts = hal.starts
          /\ UNCHANGED <<looper, rushed, psthread_run>>
      BY <1>0, <1>6 DEF HalSet, HalAt, Hal, Sleep, Hals
    <2> QED BY <1>1, <2>1 DEF OrderInv
  <1>7. CASE Sleep
    <2>1. /\ hal'.pc = "shutclient" /\ hal'.awake = FALSE /\ hal'.starts = hal.starts
          /\ looper' = looper /\ psthread_run' = FALSE
          /\ hal.awake
      BY <1>0, <1>7 DEF Sleep, Hals
    <2> QED BY <1>1, <2>1 DEF OrderInv
  <1>8. CASE Wake
    <2>1. /\ hal'.pc = IF psthread_run THEN "set" ELSE "start"
          /\ hal'.awake = TRUE /\ hal'.starts = hal.starts
          /\ UNCHANGED <<looper, rushed, psthread_run>>
      BY <1>0, <1>8 DEF Wake, Hals, HalAt, Hal, Sleep
    <2> QED BY <1>1, <2>1 DEF OrderInv
  <1> QED BY <1>2, <1>3, <1>4, <1>5, <1>6, <1>7, <1>8 DEF Hal, HalStep

-----------------------------------------------------------------------------
(* However early the device wakes.                                         *)

\* The one socket that listens is that of the last start, from its socket() to the
\* stop that closes it.
ListenInv ==
    \A f \in Fd : file[f].kind = "listening" =>
        /\ f = sock /\ file[f].of = hal.starts
        /\ hal.pc \notin {"start", "socket"}
        /\ psthread_run \/ hal.pc \in Stopping

\* Looper t has nothing left to do but to end.
Done(t) ==
    \/ looper[t].pc \in Gone
    \/ looper[t].pc = "store" /\ looper[t].ret = -1
    \/ /\ looper[t].pc = "blocked"
       /\ Listening(looper[t].on) \in shut /\ backlog[looper[t].on] = {}

SockListens == sock \in Fd /\ file[sock].kind = "listening"

\* As long as the socket of the last start listens no other descriptor in hand is its
\* number, and its looper waits at no other.
Current(t) == looper[t].pc # "none" =>
    /\ SockListens =>
          /\ looper[t].pc # "reloop" => clientsock # sock
          /\ looper[t].pc \in {"store", "written"} => looper[t].ret # sock
          /\ HalWrites => hal.ret # sock
    /\ looper[t].pc = "blocked" => SockListens /\ looper[t].on = t

\* The looper of the last start is the only one that goes on.
LastInv == ~Overtaken =>
    /\ \A t \in Start : t # hal.starts => Done(t)
    /\ hal.pc \in Starting \/ (hal.awake /\ ~psthread_run) => \A t \in Start : Done(t)
    /\ hal.awake /\ psthread_run => \A t \in Start : t = hal.starts => Current(t)

\* The looper that a stop at rest has yet to tell.
Waiting(t) ==
    /\ hal.pc \in Stopping \ {"closesock"} /\ t = hal.starts
    /\ looper[t].pc = "blocked" /\ looper[t].on = t /\ backlog[t] = {}
    /\ SockListens /\ clientsock # sock

RestInv == ~hal.awake /\ ~rushed => \A t \in Start : Done(t) \/ Waiting(t)

\* What the condition of the two theorems was before a step.
LEMMA OvertakenStays == ASSUME [Next]_vars, ~Overtaken' PROVE ~Overtaken
  BY DEF Next, vars, Looper, Hal, Wake, ClientStep, Overtaken

\* No looper opens a socket to listen at, and none closes one at another number.
LEMMA LooperListens ==
    ASSUME TypeOK, PlaceInv, NEW t \in Start, Looper(t)
    PROVE  \A f \in Fd : file'[f].kind = "listening" => file'[f] = file[f]
  <1>0. file \in [Fd -> Files] /\ Unused \in Files /\ Sysfs \in Files
    BY DEF TypeOK, Files
  <1>1. CASE LooperReloop(t) \/ LooperWritten(t) \/ LooperClose(t)
    <2>1. \E f : Close(f)
      BY <1>1 DEF LooperReloop, LooperWritten, LooperClose
    <2> QED BY <2>1, CloseExact, Kinds
  <1>2. CASE LooperConnected(t)
    <2>1. PICK c \in backlog[looper[t].on] : Open(Connection(c))
      BY <1>2 DEF LooperConnected
    <2> QED BY <1>0, <2>1, OpenExact, Kinds
  <1>3. CASE LooperServe(t)
    BY <1>0, <1>3, OpenExact, Kinds DEF LooperServe
  <1>4. file' = file \/ LooperReloop(t) \/ LooperWritten(t) \/ LooperClose(t)
        \/ LooperConnected(t) \/ LooperServe(t)
    BY DEF Looper, LooperAccept, LooperRefused, LooperStore, LooperCheck, LooperRecv,
           LooperReceived, LooperNoMode, LooperSend
  <1> QED BY <1>1, <1>2, <1>3, <1>4

LEMMA HalListens ==
    ASSUME TypeOK, PlaceInv, StartInv, OrderInv, ListenInv, Hal
    PROVE  ListenInv'
  <1> USE DEF globals, kernel, Stopping, HalPc
  <1>0. hal \in Hals /\ file \in [Fd -> Files]
    BY DEF TypeOK, Hals, Files
  <1>1. CASE HalStart
    <2>1. \A f \in Fd : file'[f].kind # "listening"
      BY <1>1 DEF HalStart, HalAt, ListenInv
    <2> QED BY <2>1 DEF ListenInv
  <1>2. CASE HalSocket
    <2>1. \A f \in Fd : file[f].kind # "listening"
      BY <1>2 DEF HalSocket, HalAt, ListenInv
    <2>2. psthread_run' = psthread_run /\ psthread_run
      BY <1>2 DEF HalSocket, HalAt, StartInv, Starting
    <2>3. CASE Open(Listening(hal.starts)) /\ sock' = Lowest /\ HalTo("bind")
      <3>1. hal'.pc = "bind" /\ hal'.starts = hal.starts
        BY <1>0, <2>3, HalToTypes
      <3>2. /\ file'[sock'] = Listening(hal.starts)
            /\ \A f \in Fd : f # sock' => file'[f] = file[f]
        BY <1>0, <2>3, OpenExact
      <3> QED BY <2>1, <2>2, <3>1, <3>2, Kinds DEF ListenInv
    <2>4. CASE UNCHANGED file
      BY <2>1, <2>4 DEF ListenInv
    <2> QED BY <1>2, <2>3, <2>4 DEF HalSocket
  <1>3. CASE HalBind \/ HalThread
    <2>1. /\ UNCHANGED <<psthread_run, sock, file>> /\ psthread_run
          /\ HalTo("thread") \/ Returns(TRUE) \/ Returns(FALSE)
      BY <1>3 DEF HalBind, HalThread, HalAt, StartInv, Starting
    <2>2. hal'.starts = hal.starts /\ hal'.pc \notin {"start", "socket"}
      BY <1>0, <2>1, HalToTypes, ReturnsTypes
    <2> QED BY <2>1, <2>2 DEF ListenInv
  <1>4. CASE Sleep
    <2>1. hal'.starts = hal.starts /\ hal'.pc = "shutclient" /\ UNCHANGED <<sock, file>>
      BY <1>0, <1>4 DEF Sleep, Hals
    <2> QED BY <2>1 DEF ListenInv
  <1>5. CASE HalShutClient \/ HalCloseClient \/ HalShutSock
    <2>1. /\ UNCHANGED <<psthread_run, sock>>
          /\ HalTo("closeclient") \/ HalTo("shutsock") \/ HalTo("closesock")
          /\ file' = file \/ Close(clientsock)
      BY <1>5 DEF HalShutClient, HalCloseClient, HalShutSock
    <2>2. hal'.starts = hal.starts /\ hal'.pc \in Stopping
      BY <1>0, <2>1, HalToTypes
    <2> QED BY <2>1, <2>2, CloseExact, Kinds DEF ListenInv
  <1>6. CASE HalCloseSock
    <2>1. \A f \in Fd : file'[f].kind # "listening"
      BY <1>6, CloseExact, Kinds DEF HalCloseSock, ListenInv
    <2> QED BY <2>1 DEF ListenInv
  <1>7. CASE HalSet \/ HalWritten
    <2>1. /\ UNCHANGED <<psthread_run, sock>> /\ hal.pc \notin Stopping
          /\ hal'.starts = hal.starts /\ hal'.pc \notin {"start", "socket"}
      <3>1. CASE HalSet
        BY <1>0, <3>1 DEF HalSet, HalAt, Hals
      <3>2. CASE HalWritten
        BY <1>0, <3>2, HalToTypes DEF HalWritten, HalAt
      <3> QED BY <1>7, <3>1, <3>2
    <2>2. \A f \in Fd : file'[f].kind = "listening" => file'[f] = file[f]
      BY <1>0, <1>7, OpenExact, CloseExact, Kinds DEF HalSet, HalWritten
    <2> QED BY <2>1, <2>2 DEF ListenInv
  <1>8. CASE Wake
    <2>1. /\ hal.pc = "idle" /\ hal'.pc = IF psthread_run THEN "set" ELSE "start"
          /\ hal'.starts = hal.starts /\ UNCHANGED <<psthread_run, sock, file>>
      BY <1>0, <1>8 DEF Wake, HalAt, Hals
    <2> QED BY <2>1 DEF ListenInv
  <1> QED BY <1>1, <1>2, <1>3, <1>4, <1>5, <1>6, <1>7, <1>8 DEF Hal, HalStep

LEMMA StepListen ==
    TypeOK /\ PlaceInv /\ StartInv /\ OrderInv /\ ListenInv /\ [Next]_vars
        => OrderInv' /\ ListenInv'
  <1> SUFFICES ASSUME TypeOK, PlaceInv, StartInv, OrderInv, ListenInv, [Next]_vars
               PROVE  OrderInv' /\ ListenInv'
    OBVIOUS
  <1>1. CASE UNCHANGED vars
    BY <1>1 DEF vars, globals, kernel, OrderInv, ListenInv
  <1>2. ASSUME NEW t \in Start, Looper(t) PROVE OrderInv' /\ ListenInv'
    <2>1. UNCHANGED <<psthread_run, sock, hal>>
      BY <1>2 DEF Looper
    <2> QED BY <1>2, <2>1, LooperOrder, LooperListens DEF ListenInv
  <1>3. CASE Hal
    BY <1>3, HalOrder, HalListens
  <1>4. ASSUME NEW c \in Client, ClientStep(c) PROVE OrderInv' /\ ListenInv'
    <2>1. UNCHANGED <<psthread_run, sock, looper, hal, file, resumed>>
      BY <1>4 DEF ClientStep, globals
    <2>2. rushed => rushed'
      BY <1>4 DEF ClientStep, Connect, Rushes
    <2> QED BY <2>1, <2>2 DEF OrderInv, ListenInv
  <1> QED BY <1>1, <1>2, <1>3, <1>4 DEF Next

\* A looper that takes no step is done if it was.
LEMMA StillDone ==
    ASSUME PlaceInv, NEW t \in Start, Done(t), looper'[t] = looper[t], shut \subseteq shut',
           \A s \in Start : Listening(s) \in shut /\ backlog[s] = {} => backlog'[s] = {}
    PROVE  Done(t)'
  BY DEF Done, PlaceInv

\* No looper adds to the connections that wait.
LEMMA LooperBacklog ==
    ASSUME TypeOK, NEW t \in Start, Looper(t)
    PROVE  \A s \in Start : backlog[s] = {} => backlog'[s] = {}
  <1>1. CASE LooperConnected(t)
    <2>1. PICK c : backlog' = [backlog EXCEPT ![looper[t].on] = @ \ {c}]
      BY <1>1 DEF LooperConnected
    <2> QED BY <2>1 DEF TypeOK
  <1>2. backlog' = backlog \/ LooperConnected(t)
    BY DEF Looper, LooperReloop, LooperAccept, LooperRefused, LooperStore, LooperCheck,
           LooperRecv, LooperReceived, LooperServe, LooperNoMode, LooperWritten,
           LooperSend, LooperClose
  <1> QED BY <1>1, <1>2

\* A looper at whose socket nobody waits can only give up, and one that gave up ends.
LEMMA LooperGivesUp ==
    ASSUME TypeOK, PlaceInv, NEW t \in Start, Looper(t),
           \/ Done(t)
           \/ looper[t].pc = "blocked" /\ backlog[looper[t].on] = {}
    PROVE  /\ Done(t)' /\ clientsock' \in {clientsock, -1}
           /\ UNCHANGED <<file, backlog, client>>
  <1>0. looper \in [Start -> Threads]
    BY DEF TypeOK, Threads
  <1>1. looper[t].pc \notin Gone
    BY LooperIdles
  <1>2. CASE looper[t].pc = "store" /\ looper[t].ret = -1
    <2>1. LooperStore(t)
      BY <1>2 DEF Looper, LooperReloop, LooperAccept, LooperConnected, LooperRefused,
             LooperCheck, LooperRecv, LooperReceived, LooperServe, LooperNoMode,
             LooperWritten, LooperSend, LooperClose, Goto
    <2>2. ~(looper[t].ret > 0)
      BY <1>2
    <2> QED BY <1>0, <1>2, <2>1, <2>2 DEF LooperStore, Goto, Done, Gone, Threads
  <1>3. CASE looper[t].pc = "blocked" /\ backlog[looper[t].on] = {}
    <2>1. LooperRefused(t)
      BY <1>3 DEF Looper, LooperReloop, LooperAccept, LooperConnected, LooperStore,
             LooperCheck, LooperRecv, LooperReceived, LooperServe, LooperNoMode,
             LooperWritten, LooperSend, LooperClose, Goto
    <2> QED BY <1>0, <2>1 DEF LooperRefused, Done, Threads
  <1> QED BY <1>1, <1>2, <1>3 DEF Done

\* The looper of the last start.
LEMMA LooperCurrent ==
    ASSUME TypeOK, PlaceInv, ListenInv, NEW t \in Start, t = hal.starts, Current(t), Looper(t)
    PROVE  Current(t)'
  <1> USE DEF Current, SockListens, HalWrites
  <1>0. /\ looper \in [Start -> Threads] /\ file \in [Fd -> Files]
        /\ UNCHANGED <<sock, hal>> /\ -1 \notin Fd /\ 0 \notin Fd
    BY DEF TypeOK, Threads, Files, Looper, Fd
  <1>1. SockListens' => SockListens
    BY <1>0, LooperListens
  <1>2. CASE LooperReloop(t)
    <2>1. /\ looper[t].pc = "reloop" /\ looper'[t].pc = "accept" /\ clientsock' = clientsock
          /\ \A g \in Fd : file'[g] = IF g = clientsock THEN Unused ELSE file[g]
      BY <1>0, <1>2, CloseExact DEF LooperReloop, Threads
    <2> QED BY <1>0, <2>1, Kinds
  <1>3. CASE LooperAccept(t)
    <2>1. /\ looper[t].pc = "accept" /\ UNCHANGED <<clientsock, file>>
          /\ \/ looper'[t].pc = "blocked" /\ looper'[t].on = At(sock).of
                /\ At(sock).kind = "listening"
             \/ looper'[t].pc = "store" /\ looper'[t].ret = -1
      BY <1>0, <1>3 DEF LooperAccept, Threads
    <2>2. At(sock).kind = "listening" => SockListens /\ At(sock).of = t
      BY Kinds DEF At, ListenInv
    <2> QED BY <1>0, <2>1, <2>2
  <1>4. CASE LooperConnected(t)
    <2>1. PICK c \in backlog[looper[t].on] : Open(Connection(c))
      BY <1>4 DEF LooperConnected
    <2>2. /\ looper[t].pc = "blocked" /\ looper'[t].pc = "store" /\ looper'[t].ret = Lowest
          /\ clientsock' = clientsock
      BY <1>0, <1>4 DEF LooperConnected, Threads
    <2>3. file[Lowest] = Unused
      BY <1>0, <2>1, OpenExact
    <2> HIDE DEF Lowest
    <2> QED BY <1>0, <1>1, <2>2, <2>3, Kinds
  <1>5. CASE LooperRefused(t)
    <2>1. /\ looper[t].pc = "blocked" /\ looper'[t].pc = "store" /\ looper'[t].ret = -1
          /\ UNCHANGED <<clientsock, file>>
      BY <1>0, <1>5 DEF LooperRefused, Threads
    <2> QED BY <1>0, <2>1
  <1>6. CASE LooperStore(t)
    <2>1. /\ looper[t].pc = "store" /\ looper'[t].pc \in {"check", "ended"}
          /\ clientsock' = looper[t].ret /\ UNCHANGED file
      BY <1>0, <1>6 DEF LooperStore, Threads, Goto
    <2> QED BY <1>0, <2>1
  <1>7. CASE LooperCheck(t) \/ LooperRecv(t) \/ LooperReceived(t) \/ LooperNoMode(t)
             \/ LooperSend(t)
    <2>1. /\ looper[t].pc \in {"check", "recv", "receiving", "serve", "send"}
          /\ looper'[t].pc \in {"recv", "ended", "receiving", "reloop", "serve", "send",
                                "close"}
          /\ UNCHANGED <<clientsock, file>>
      <3>1. CASE LooperCheck(t) \/ LooperRecv(t)
        BY <1>0, <3>1 DEF LooperCheck, LooperRecv, Threads, Goto
      <3>2. CASE LooperReceived(t) \/ LooperNoMode(t)
        BY <1>0, <3>2 DEF LooperReceived, LooperNoMode, Threads, Goto
      <3>3. CASE LooperSend(t)
        BY <1>0, <3>3 DEF LooperSend, Threads
      <3> QED BY <1>7, <3>1, <3>2, <3>3
    <2> QED BY <1>0, <2>1
  <1>8. CASE LooperServe(t)
    <2>1. /\ looper[t].pc = "serve" /\ looper'[t].pc = "written" /\ looper'[t].ret = Lowest
          /\ clientsock' = clientsock
      BY <1>0, <1>8 DEF LooperServe, Threads
    <2>2. file[Lowest] = Unused
      BY <1>0, <1>8, OpenExact DEF LooperServe
    <2> HIDE DEF Lowest
    <2> QED BY <1>0, <1>1, <2>1, <2>2, Kinds
  <1>9. CASE LooperWritten(t) \/ LooperClose(t)
    <2>1. /\ looper[t].pc \in {"written", "close"} /\ looper'[t].pc \in {"send", "accept"}
          /\ clientsock' = clientsock
      BY <1>0, <1>9 DEF LooperWritten, LooperClose, Threads, Goto
    <2> QED BY <1>0, <1>1, <2>1
  <1> QED BY <1>2, <1>3, <1>4, <1>5, <1>6, <1>7, <1>8, <1>9 DEF Looper

LEMMA LooperLast ==
    ASSUME TypeOK, PlaceInv, ListenInv, LastInv, RestInv, OrderInv, NEW t \in Start, Looper(t)
    PROVE  LastInv' /\ RestInv'
  <1>1. /\ UNCHANGED <<psthread_run, sock, hal, shut, rushed, resumed>>
        /\ Overtaken' = Overtaken
    BY DEF Looper, Overtaken
  <1>2. ASSUME NEW u \in Start, Done(u) PROVE Done(u)'
    <2>1. u # t => looper'[u] = looper[u]
      BY LooperIdles
    <2> QED BY <1>1, <1>2, <2>1, LooperGivesUp, LooperBacklog, StillDone
  <1>3. ASSUME ~Overtaken, NEW u \in Start, u = hal.starts, Current(u) PROVE Current(u)'
    <2>1. CASE u = t
      BY <1>3, <2>1, LooperCurrent
    <2>2. CASE u # t
      <3>1. Done(t)
        BY <1>3, <2>2 DEF LastInv
      <3>2. looper'[u] = looper[u] /\ clientsock' \in {clientsock, -1} /\ file' = file
        BY <2>2, <3>1, LooperIdles, LooperGivesUp
      <3>3. -1 \notin Fd
        BY DEF Fd
      <3> QED BY <1>1, <1>3, <3>2, <3>3 DEF Current, SockListens, HalWrites
    <2> QED BY <2>1, <2>2
  <1>4. LastInv'
    BY <1>1, <1>2, <1>3 DEF LastInv
  <1>5. ASSUME ~hal.awake, ~rushed, NEW u \in Start, Waiting(u) PROVE Done(u)' \/ Waiting(u)'
    <2>1. CASE u = t
      BY <1>5, <2>1, LooperGivesUp DEF Waiting
    <2>2. CASE u # t
      <3>1. Done(t)
        BY <1>5, <2>2 DEF RestInv, Waiting
      <3>2. /\ looper'[u] = looper[u] /\ clientsock' \in {clientsock, -1}
            /\ UNCHANGED <<file, backlog>>
        BY <2>2, <3>1, LooperIdles, LooperGivesUp
      <3>3. -1 \notin Fd
        BY DEF Fd
      <3> QED BY <1>1, <1>5, <3>2, <3>3 DEF Waiting, SockListens
    <2> QED BY <2>1, <2>2
  <1>6. RestInv'
    BY <1>1, <1>2, <1>5 DEF RestInv
  <1> QED BY <1>4, <1>6

LEMMA ClientLast ==
    ASSUME TypeOK, PlaceInv, LastInv, RestInv, NEW c \in Client, ClientStep(c)
    PROVE  LastInv' /\ RestInv'
  <1>1. /\ UNCHANGED <<psthread_run, sock, clientsock, looper, hal, file, shut, resumed>>
        /\ rushed => rushed'
    <2>1. rushed => rushed'
      BY DEF ClientStep, Connect, Rushes
    <2> QED BY <2>1 DEF ClientStep, globals
  <1>2. \A s \in Start : Listening(s) \in shut /\ backlog[s] = {} => backlog'[s] = {}
    BY DEF ClientStep, Connect, SendRequest, Receive, TypeOK
  <1>3. ASSUME NEW t \in Start, Done(t) PROVE Done(t)'
    BY <1>1, <1>2, <1>3, StillDone
  <1>4. ASSUME NEW t \in Start PROVE Current(t)' <=> Current(t)
    BY <1>1 DEF Current, SockListens, HalWrites
  <1>5. LastInv'
    BY <1>1, <1>3, <1>4 DEF LastInv, Overtaken
  <1>6. ASSUME ~rushed', NEW t \in Start, Waiting(t) PROVE Waiting(t)'
    <2>1. ~Connect(c)
      BY <1>6 DEF Connect, Rushes, Waiting, Stopping
    <2>2. backlog' = backlog
      BY <2>1 DEF ClientStep, SendRequest, Receive
    <2> QED BY <1>1, <1>6, <2>2 DEF Waiting, SockListens
  <1>7. RestInv'
    BY <1>1, <1>3, <1>6 DEF RestInv
  <1> QED BY <1>5, <1>7

\* A shutdown only adds to the sockets that were shut down.
LEMMA ShutGrows ==
    ASSUME Hal
    PROVE  shut \subseteq shut' /\ backlog' = backlog
  BY DEF Hal, HalStep, HalStart, HalSocket, HalBind, HalThread, HalShutClient,
         HalCloseClient, HalShutSock, HalCloseSock, HalSet, HalWritten, Sleep, Wake, Shutdown,
         kernel, globals

\* The HAL thread and what a stop has to tell.
LEMMA HalRests ==
    ASSUME TypeOK, PlaceInv, StartInv, OrderInv, ListenInv, LastInv, RestInv, Hal,
           ~hal'.awake, ~rushed', NEW t \in Start
    PROVE  Done(t)' \/ Waiting(t)'
  <1> USE DEF globals, kernel, Stopping, HalPc
  <1>0. /\ hal \in Hals /\ looper \in [Start -> Threads] /\ file \in [Fd -> Files]
        /\ shut \subseteq shut' /\ backlog' = backlog
    BY ShutGrows DEF TypeOK, Hals, Threads, Files
  <1>1. ~rushed /\ ~Overtaken
    BY DEF Hal, Sleep, Rushes, TypeOK, OrderInv, Overtaken
  <1>2. CASE Sleep
    <2>1. /\ UNCHANGED <<sock, clientsock, looper, file, shut>>
          /\ hal.awake /\ AtRest /\ hal'.pc = "shutclient" /\ hal'.starts = hal.starts
      BY <1>0, <1>2 DEF Sleep, Rushes, Hals
    <2>2. CASE Done(t)
      BY <1>0, <2>1, <2>2, StillDone
    <2>3. CASE ~Done(t)
      <3>1. t = hal.starts /\ psthread_run /\ looper[t].pc = "blocked" /\ backlog[t] = {}
        BY <1>1, <2>1, <2>3 DEF LastInv, AtRest, Done, Gone
      <3>2. SockListens /\ looper[t].on = t /\ clientsock # sock
        BY <1>1, <2>1, <3>1 DEF LastInv, Current
      <3> QED BY <1>0, <2>1, <3>1, <3>2 DEF Waiting, SockListens
    <2> QED BY <2>2, <2>3
  <1>3. CASE ~Sleep
    <2>1. ~hal.awake /\ ~Wake
      <3>1. ~Wake
        BY <1>0 DEF Wake, Hals
      <3> QED BY <1>3, <3>1, HalStarts
    <2>2. /\ UNCHANGED <<sock, clientsock, looper>>
          /\ hal.pc \notin Starting
      <3>1. hal.pc \notin Starting
        BY <2>1 DEF StartInv
      <3> QED BY <1>3, <2>1, <3>1 DEF Hal, HalStep, HalStart, HalSocket, HalBind, HalThread,
                HalShutClient, HalCloseClient, HalShutSock, HalCloseSock, HalSet, HalWritten,
                HalAt, Starting
    <2>3. CASE Done(t)
      BY <1>0, <2>2, <2>3, StillDone
    <2>4. CASE Waiting(t) /\ (HalShutClient \/ HalCloseClient)
      <3>1. /\ hal'.pc \in {"closeclient", "shutsock"} /\ hal'.starts = hal.starts
        BY <1>0, <2>4, HalToTypes DEF HalShutClient, HalCloseClient
      <3>2. file' = file \/ Close(clientsock)
        BY <2>4 DEF HalShutClient, HalCloseClient
      <3> QED BY <1>0, <2>2, <2>4, <3>1, <3>2, CloseExact DEF Waiting, SockListens
    <2>5. CASE Waiting(t) /\ HalShutSock
      <3>1. At(sock) = Listening(t)
        <4>1. file[sock].kind = "listening" /\ file[sock].of = t /\ sock \in Fd
          BY <2>5 DEF Waiting, SockListens, ListenInv
        <4> QED BY <1>0, <4>1, SocketAt, Kinds DEF At
      <3>2. Listening(t) \in shut'
        BY <2>5, <3>1, Kinds DEF HalShutSock, Shutdown
      <3> QED BY <1>0, <2>2, <2>5, <3>2 DEF Waiting, Done
    <2>6. Done(t) \/ (Waiting(t) /\ (HalShutClient \/ HalCloseClient \/ HalShutSock))
      <3>1. Done(t) \/ Waiting(t)
        BY <1>1, <2>1 DEF RestInv
      <3> QED BY <1>3, <2>1, <2>2, <3>1 DEF Hal, HalStep, HalStart, HalSocket, HalBind,
                HalThread, HalCloseSock, HalSet, HalWritten, HalAt, Waiting
    <2> QED BY <2>3, <2>4, <2>5, <2>6
  <1> QED BY <1>2, <1>3

LEMMA HalLast ==
    ASSUME TypeOK, PlaceInv, StartInv, OrderInv, ListenInv, LastInv, RestInv, Hal, OrderInv',
           ~Overtaken'
    PROVE  LastInv'
  <1> USE DEF globals, kernel, HalPc
  <1>0. /\ hal \in Hals /\ looper \in [Start -> Threads] /\ file \in [Fd -> Files]
        /\ shut \subseteq shut' /\ backlog' = backlog /\ ~Overtaken
    BY ShutGrows, OvertakenStays DEF TypeOK, Hals, Threads, Files, Next
  <1>1. ASSUME NEW t \in Start, Done(t), looper'[t] = looper[t] PROVE Done(t)'
    BY <1>0, <1>1, StillDone
  <1>2. CASE HalStart \/ HalSocket \/ HalBind
    <2>1. looper' = looper /\ hal.pc \in {"start", "socket", "bind"}
      BY <1>2 DEF HalStart, HalSocket, HalBind, HalAt
    <2>2. \A t \in Start : Done(t)'
      BY <1>0, <1>1, <2>1 DEF LastInv, Starting
    <2>3. psthread_run' => \A t \in Start : t = hal'.starts => looper'[t].pc = "none"
      <3>1. CASE hal'.pc \in {"socket", "bind", "thread"}
        BY <3>1 DEF OrderInv
      <3>2. CASE HalStart /\ hal'.pc # "socket"
        <4>1. psthread_run' = psthread_run
          BY <1>0, <3>2 DEF HalStart, Hals
        <4> QED BY <2>1, <3>2, <4>1 DEF OrderInv, HalStart, HalAt
      <3>3. CASE HalSocket \/ HalBind
        <4>1. HalTo("bind") \/ HalTo("thread") \/ Returns(FALSE)
          BY <3>3 DEF HalSocket, HalBind
        <4>2. hal'.starts = hal.starts
          BY <1>0, <4>1, HalToTypes, ReturnsTypes
        <4> QED BY <2>1, <3>3, <4>2 DEF OrderInv, HalSocket, HalBind, HalAt
      <3> QED BY <1>2, <3>1, <3>2, <3>3
    <2> QED BY <2>2, <2>3 DEF LastInv, Current
  <1>3. CASE HalThread
    <2>1. /\ psthread_run' /\ hal'.pc \in {"set", "idle", "dead"} /\ hal'.starts = hal.starts
          /\ hal.pc = "thread"
      BY <1>0, <1>3, ReturnsTypes DEF HalThread, HalAt, StartInv, Starting
    <2>2. \A t \in Start : t # hal.starts => Done(t)'
      BY <1>0, <1>1, HalLoopers DEF LastInv
    <2>3. ASSUME NEW t \in Start, t = hal.starts PROVE looper'[t].pc \in {"none", "reloop"}
      <3>1. looper[t] \in Threads /\ looper[t].pc = "none"
        BY <1>0, <2>1, <2>3 DEF OrderInv
      <3>2. looper' = looper \/ looper' = [looper EXCEPT ![hal.starts].pc = "reloop"]
        BY <1>3 DEF HalThread
      <3> QED BY <1>0, <2>3, <3>1, <3>2 DEF Threads
    <2>4. \A t \in Start : t = hal.starts => Current(t)'
      BY <2>1, <2>3 DEF Current, HalWrites
    <2> QED BY <2>1, <2>2, <2>4 DEF LastInv, Starting
  <1>4. CASE Sleep \/ HalShutClient \/ HalCloseClient \/ HalShutSock \/ HalCloseSock
    <2>1. looper' = looper
      BY <1>4 DEF Sleep, HalShutClient, HalCloseClient, HalShutSock, HalCloseSock
    <2>2. hal'.starts = hal.starts /\ ~hal'.awake /\ hal'.pc \notin Starting
      <3>1. CASE Sleep
        BY <1>0, <3>1 DEF Sleep, Hals, Starting
      <3>2. CASE ~Sleep
        <4>1. hal.pc \in Stopping
          BY <1>4, <3>2 DEF HalShutClient, HalCloseClient, HalShutSock, HalCloseSock, HalAt,
                            Stopping
        <4>2. \E pc \in {"closeclient", "shutsock", "closesock", "set"} : HalTo(pc)
          BY <1>4, <3>2 DEF HalShutClient, HalCloseClient, HalShutSock, HalCloseSock
        <4> QED BY <1>0, <4>1, <4>2, HalToTypes DEF OrderInv, Starting
      <3> QED BY <3>1, <3>2
    <2> QED BY <1>0, <1>1, <2>1, <2>2 DEF LastInv
  <1>5. CASE HalSet \/ HalWritten
    <2>1. /\ UNCHANGED <<psthread_run, sock, clientsock, looper>>
          /\ hal'.pc \in {"written", "idle"}
          /\ hal'.starts = hal.starts /\ hal'.awake = hal.awake
      <3>1. CASE HalSet
        BY <1>0, <3>1 DEF HalSet, Hals
      <3>2. CASE HalWritten
        BY <1>0, <3>2, HalToTypes DEF HalWritten
      <3> QED BY <1>5, <3>1, <3>2
    <2>2. ASSUME NEW t \in Start, Current(t) PROVE Current(t)'
      <3>1. CASE HalSet
        <4>1. /\ hal'.ret = Lowest /\ file[Lowest] = Unused
              /\ \A f \in Fd : f # Lowest => file'[f] = file[f]
              /\ file'[Lowest] = Sysfs
          BY <1>0, <3>1, OpenExact DEF HalSet, Hals
        <4> HIDE DEF Lowest
        <4>2. SockListens' => SockListens /\ Lowest # sock
          BY <2>1, <4>1, Kinds DEF SockListens
        <4>3. SockListens => SockListens'
          BY <2>1, <4>1, Kinds DEF SockListens
        <4> QED BY <2>1, <2>2, <4>1, <4>2, <4>3 DEF Current, HalWrites
      <3>2. CASE HalWritten
        <4>1. /\ hal.pc = "written" /\ hal'.pc = "idle"
              /\ \A g \in Fd : file'[g] = IF g = hal.ret THEN Unused ELSE file[g]
          BY <1>0, <3>2, HalToTypes, CloseExact DEF HalWritten, HalAt
        <4> QED BY <2>1, <2>2, <4>1, Kinds DEF Current, SockListens, HalWrites
      <3> QED BY <1>5, <3>1, <3>2
    <2> QED BY <1>0, <1>1, <2>1, <2>2 DEF LastInv, Starting
  <1>6. CASE Wake
    <2>1. /\ UNCHANGED <<psthread_run, sock, clientsock, looper, file>>
          /\ hal.pc = "idle" /\ hal'.pc = IF psthread_run THEN "set" ELSE "start"
          /\ hal'.starts = hal.starts /\ hal'.awake = TRUE
      BY <1>0, <1>6 DEF Wake, HalAt, Hals
    <2>2. ~psthread_run => \A t \in Start : Done(t)
      <3>1. CASE hal.awake
        BY <1>0, <3>1 DEF LastInv
      <3>2. CASE ~hal.awake /\ AllEnded
        BY <3>2 DEF AllEnded, Done, Gone
      <3>3. CASE ~hal.awake /\ ~rushed
        BY <2>1, <3>3 DEF RestInv, Waiting, Stopping
      <3>4. hal.awake \/ AllEnded \/ ~rushed
        BY <1>6 DEF Wake, MayWake, Overtaken
      <3> QED BY <3>1, <3>2, <3>3, <3>4
    <2>3. psthread_run => hal.awake
      BY DEF StartInv
    <2>4. ASSUME NEW t \in Start, Current(t) PROVE Current(t)'
      BY <2>1, <2>4 DEF Current, SockListens, HalWrites
    <2> QED BY <1>0, <1>1, <2>1, <2>2, <2>3, <2>4 DEF LastInv, Starting
  <1> QED BY <1>2, <1>3, <1>4, <1>5, <1>6 DEF Hal, HalStep

EarlyInv == OrderInv /\ ListenInv /\ LastInv /\ RestInv

LEMMA InitEarly == Init => StartInv /\ EarlyInv
  <1> SUFFICES ASSUME Init PROVE StartInv /\ EarlyInv
    OBVIOUS
  <1>1. /\ \A t \in Start : looper[t].pc = "none"
        /\ \A f \in Fd : file[f] = Unused
        /\ hal.pc = "start" /\ hal.awake /\ ~psthread_run /\ ~rushed /\ ~resumed
    BY DEF Init
  <1> QED BY <1>1, Kinds DEF StartInv, EarlyInv, OrderInv, ListenInv, LastInv, RestInv, Done,
        Gone, Starting, Stopping

LEMMA StepEarly ==
    ASSUME TypeOK, PlaceInv, StartInv, EarlyInv, [Next]_vars
    PROVE  EarlyInv'
  <1>0. OrderInv /\ ListenInv /\ LastInv /\ RestInv
    BY DEF EarlyInv
  <1>1. OrderInv' /\ ListenInv'
    BY <1>0, StepListen
  <1>2. CASE UNCHANGED vars
    BY <1>0, <1>1, <1>2 DEF vars, globals, kernel, EarlyInv, LastInv, RestInv, Done, Current,
       Waiting, SockListens, HalWrites, Overtaken
  <1>3. CASE \E t \in Start : Looper(t)
    BY <1>0, <1>1, <1>3, LooperLast DEF EarlyInv
  <1>4. CASE Hal
    <2>1. LastInv'
      BY <1>0, <1>1, <1>4, HalLast DEF LastInv
    <2>2. RestInv'
      BY <1>0, <1>4, HalRests DEF RestInv
    <2> QED BY <1>1, <2>1, <2>2 DEF EarlyInv
  <1>5. CASE \E c \in Client : ClientStep(c)
    BY <1>0, <1>1, <1>5, ClientLast DEF EarlyInv
  <1> QED BY <1>2, <1>3, <1>4, <1>5 DEF Next

\* The requests are carried out one at a time, as the table of the locks, which
\* has no lock, requires (PerfLockAcquire and PerfLockRelease are called by the
\* looper): for any number of starts, of clients and of descriptors, whichever
\* calls fail, and however early the device wakes after a stop at rest, whose
\* looper may be left while the next one answers.
THEOREM OneLooperServes == Spec => []OneServes
  <1>1. TypeOK /\ PlaceInv /\ StartInv /\ SleepInv /\ EarlyInv /\ [Next]_vars
           => StartInv' /\ SleepInv' /\ EarlyInv'
    BY StepSleep, StepEarly
  <1>2. EarlyInv => OneServes
    BY DEF EarlyInv, LastInv, OneServes, Serving, Done, Gone
  <1>3. Init => SleepInv
    BY DEF Init, SleepInv, Idling
  <1> QED BY <1>1, <1>2, <1>3, InitEarly, ServerTypeCorrect, PTL DEF Spec

-----------------------------------------------------------------------------
(* The replies.                                                            *)

\* No step of the HAL thread opens a connection, or moves clientsock.
LEMMA HalFiles ==
    ASSUME TypeOK, PlaceInv, Hal
    PROVE  /\ clientsock' = clientsock
           /\ At(clientsock)'.kind = "connection" => At(clientsock)' = At(clientsock)
  <1> USE DEF globals, kernel
  <1>0. file \in [Fd -> Files] /\ Unused \in Files /\ Sysfs \in Files
    BY DEF TypeOK, Files
  <1>1. clientsock' = clientsock
    BY DEF Hal, HalStep, HalStart, HalSocket, HalBind, HalThread, HalShutClient,
       HalCloseClient,
           HalShutSock, HalCloseSock, HalSet, HalWritten, Sleep, Wake
  <1>2. \/ file' = file
        \/ \E x \in {Unused, Sysfs, Listening(hal.starts)} : \A f \in Fd :
             file'[f] \in {file[f], x}
    <2>1. CASE HalSocket
      <3>1. hal.starts \in Start
        <4>1. hal.starts > 0 /\ hal.starts \in 0..MaxStarts
          BY <2>1 DEF HalSocket, HalAt, PlaceInv, TypeOK, Starting
        <4> QED BY <4>1, BoundAssumption DEF Start
      <3>2. Listening(hal.starts) \in Files
        BY <3>1 DEF Files, Socket
      <3> QED BY <1>0, <2>1, <3>2, OpenFacts DEF HalSocket
    <2>2. CASE HalSet
      BY <1>0, <2>2, OpenFacts DEF HalSet
    <2>3. CASE HalCloseClient \/ HalCloseSock \/ HalWritten
      BY <1>0, <2>3, CloseFacts DEF HalCloseClient, HalCloseSock, HalWritten
    <2>4. CASE Sleep \/ Wake \/ HalStart \/ HalBind \/ HalThread \/ HalShutClient
                 \/ HalShutSock
      BY <2>4 DEF Sleep, Wake, HalStart, HalBind, HalThread, HalShutClient, HalShutSock
    <2> QED BY <2>1, <2>2, <2>3, <2>4 DEF Hal, HalStep
  <1>3. \A f \in Fd : file'[f].kind = "connection" => file'[f] = file[f]
    BY <1>2 DEF Unused, Sysfs, Listening
  <1> QED BY <1>1, <1>3 DEF At, Unused

\* What ReplyInv says of one looper.
Answers(l) ==
    /\ l.pc \in Answering /\ At(clientsock).kind = "connection" => At(clientsock).of = l.on
    /\ l.pc \in {"written", "send"} => l.reply \in {l.on, "EINVAL"}

\* The connection in hand remains what it was, or is closed, while files other
\* than connections are opened and any are closed.
LEMMA SameConnection ==
    ASSUME file \in [Fd -> Files], UNCHANGED clientsock,
           Open(Sysfs) \/ (\E f \in Fd \cup {-1, 0} : Close(f)) \/ UNCHANGED file
    PROVE  At(clientsock)'.kind = "connection" => At(clientsock)' = At(clientsock)
  <1>1. Unused \in Files /\ Sysfs \in Files
    BY DEF Files
  <1>2. file' = file \/ \E x \in {Unused, Sysfs} : \A f \in Fd : file'[f] \in {file[f], x}
    BY <1>1, OpenFacts, CloseFacts
  <1>3. \A f \in Fd : file'[f].kind = "connection" => file'[f] = file[f]
    BY <1>2 DEF Unused, Sysfs
  <1> QED BY <1>3 DEF At, Unused

\* A looper answers the client whose request it received.
LEMMA LooperAnswers ==
    ASSUME TypeOK, PlaceInv, NEW t \in Start, Answers(looper[t]), Looper(t)
    PROVE  Answers(looper[t])'
  <1>0. /\ looper \in [Start -> Threads] /\ file \in [Fd -> Files]
        /\ looper[t].ret \in Fd \cup {-1, 0}
    BY DEF TypeOK, Threads, Files
  <1>1. CASE \/ LooperReloop(t) \/ LooperAccept(t) \/ LooperConnected(t) \/ LooperRefused(t)
             \/ LooperStore(t) \/ LooperCheck(t) \/ LooperClose(t)
    <2>1. looper'[t].pc \notin Answering
      BY <1>0, <1>1 DEF LooperReloop, LooperAccept, LooperConnected, LooperRefused,
         LooperStore,
                        LooperCheck, LooperClose, Goto, Answering, Threads
    <2> QED BY <2>1 DEF Answers, Answering
  <1>2. CASE LooperRecv(t)
    <2>1. CASE At(clientsock).kind = "connection"
      <3>1. /\ looper'[t].on = At(clientsock).of /\ looper'[t].pc = "receiving"
            /\ UNCHANGED <<file, clientsock>>
        BY <1>0, <1>2, <2>1 DEF LooperRecv, Threads
      <3> QED BY <3>1 DEF Answers, At
    <2>2. CASE At(clientsock).kind # "connection"
      <3>1. looper'[t].pc = "reloop"
        BY <1>0, <1>2, <2>2 DEF LooperRecv, Threads
      <3> QED BY <3>1 DEF Answers, Answering
    <2> QED BY <2>1, <2>2
  <1>3. CASE LooperReceived(t) \/ LooperServe(t) \/ LooperNoMode(t)
             \/ LooperWritten(t) \/ LooperSend(t)
    <2>1. looper[t].pc \in Answering
      BY <1>3 DEF LooperReceived, LooperServe, LooperNoMode, LooperWritten, LooperSend,
         Goto, Answering
    <2>2. UNCHANGED clientsock
      BY <1>3 DEF LooperReceived, LooperServe, LooperNoMode, LooperWritten, LooperSend
    <2>3. At(clientsock)'.kind = "connection" => At(clientsock)' = At(clientsock)
      <3>1. Open(Sysfs) \/ (\E f \in Fd \cup {-1, 0} : Close(f)) \/ UNCHANGED file
        BY <1>0, <1>3 DEF LooperReceived, LooperServe, LooperNoMode, LooperWritten, LooperSend
      <3> QED BY <1>0, <2>2, <3>1, SameConnection
    <2>4. looper'[t].on = looper[t].on
      BY <1>0, <1>3 DEF LooperReceived, LooperServe, LooperNoMode, LooperWritten,
         LooperSend, Goto, Threads
    <2>5. looper'[t].pc \in {"written", "send"} => looper'[t].reply \in {looper[t].on,
            "EINVAL"}
      BY <1>0, <1>3 DEF LooperReceived, LooperServe, LooperNoMode, LooperWritten,
         LooperSend, Goto, Threads,
                        Answers
    <2> QED BY <2>1, <2>3, <2>4, <2>5 DEF Answers
  <1> QED BY <1>1, <1>2, <1>3 DEF Looper

\* What ReplyInv says of the clients.
Answered ==
    \A c \in Client : /\ client[c].inbox \in {c, "none", "EINVAL"}
                     /\ client[c].res \in {c, "none", "EINVAL", "refused", "undefined"}

LEMMA LooperSends ==
    ASSUME TypeOK, PlaceInv, Answered, NEW t \in Start, Answers(looper[t]), Looper(t)
    PROVE  Answered'
  <1>0. client \in [Client -> Clients]
    BY DEF TypeOK, Clients
  <1>1. CASE client' = client
    BY <1>1 DEF Answered
  <1>2. CASE /\ looper[t].pc = "send" /\ Arrives(clientsock)
             /\ client' = [client EXCEPT ![At(clientsock).of].inbox = looper[t].reply]
    <2>1. At(clientsock).of = looper[t].on /\ looper[t].reply \in {looper[t].on, "EINVAL"}
      BY <1>2 DEF Answers, Answering, Arrives
    <2> QED BY <1>0, <1>2, <2>1 DEF Answered, Clients
  <1>3. client' = client \/ LooperSend(t)
    BY DEF Looper, LooperReloop, LooperAccept, LooperConnected, LooperRefused, LooperStore,
           LooperCheck, LooperRecv, LooperReceived, LooperServe, LooperNoMode,
             LooperWritten, LooperClose
  <1> QED BY <1>1, <1>2, <1>3 DEF LooperSend

LEMMA ClientAnswered ==
    ASSUME TypeOK, Answered, NEW c \in Client, ClientStep(c)
    PROVE  Answered'
  <1>0. client \in [Client -> Clients]
    BY DEF TypeOK, Clients
  <1>1. ASSUME NEW res \in {c, "none", "EINVAL", "refused", "undefined"}, Finish(c, res)
        PROVE  Answered'
    BY <1>0, <1>1 DEF Finish, Answered, Clients
  <1>2. CASE Connect(c)
    BY <1>0, <1>1, <1>2 DEF Connect, Answered, Clients
  <1>3. CASE SendRequest(c)
    BY <1>0, <1>1, <1>3 DEF SendRequest, Answered, Clients
  <1>4. CASE Receive(c)
    BY <1>1, <1>4 DEF Receive, Answered
  <1> QED BY <1>2, <1>3, <1>4 DEF ClientStep

LEMMA StepReply ==
    ASSUME TypeOK, PlaceInv, LastInv, ReplyInv, [Next]_vars, ~Overtaken'
    PROVE  ReplyInv'
  <1>0. /\ Answered /\ \A t \in Start : Answers(looper[t])
        /\ \A t \in Start : t # hal.starts => Done(t)
    BY OvertakenStays DEF ReplyInv, Answered, Answers, LastInv
  <1> SUFFICES Answered' /\ \A t \in Start : Answers(looper[t])'
    BY DEF ReplyInv, Answered, Answers
  <1>1. CASE UNCHANGED vars
    BY <1>0, <1>1 DEF vars, globals, kernel, Answered, Answers, At
  <1>2. ASSUME NEW t \in Start, Looper(t)
        PROVE  Answered' /\ \A u \in Start : Answers(looper[u])'
    <2>1. ASSUME NEW u \in Start, u # t PROVE Answers(looper[u])'
      <3>1. looper'[u] = looper[u]
        BY <1>2, <2>1, LooperIdles
      <3>2. CASE u # hal.starts
        BY <1>0, <3>1, <3>2 DEF Done, Answers, Gone, Answering
      <3>3. CASE t # hal.starts
        <4>1. clientsock' \in {clientsock, -1} /\ file' = file
          BY <1>0, <1>2, <3>3, LooperGivesUp
        <4>2. At(-1)'.kind # "connection"
          BY Kinds DEF At, Fd
        <4>3. At(clientsock)'.kind = "connection" => At(clientsock)' = At(clientsock)
          BY <4>1, <4>2 DEF At
        <4> QED BY <1>0, <3>1, <4>3 DEF Answers
      <3> QED BY <2>1, <3>2, <3>3
    <2> QED BY <1>0, <1>2, <2>1, LooperAnswers, LooperSends
  <1>3. CASE Hal
    <2>1. client' = client
      BY <1>3, HalRest
    <2>2. ASSUME NEW u \in Start PROVE Answers(looper[u])'
      <3>1. CASE looper'[u] = looper[u]
        BY <1>0, <1>3, <3>1, HalFiles DEF Answers
      <3>2. CASE looper'[u].pc = "reloop"
        BY <3>2 DEF Answers, Answering
      <3>3. looper \in [Start -> Threads]
        BY DEF TypeOK, Threads
      <3>4. looper' = looper \/ looper' = [looper EXCEPT ![hal.starts].pc = "reloop"]
        BY <1>3, HalRest
      <3>5. looper'[u] = looper[u] \/ looper'[u].pc = "reloop"
        BY <3>3, <3>4 DEF Threads
      <3> QED BY <3>1, <3>2, <3>5
    <2> QED BY <1>0, <2>1, <2>2 DEF Answered
  <1>4. ASSUME NEW c \in Client, ClientStep(c)
        PROVE  Answered' /\ \A u \in Start : Answers(looper[u])'
    <2>1. UNCHANGED <<clientsock, looper, file>>
      BY <1>4 DEF ClientStep, globals
    <2> QED BY <1>0, <1>4, <2>1, ClientAnswered DEF Answers, At
  <1> QED BY <1>1, <1>2, <1>3, <1>4 DEF Next

\* No client is given the reply to another one's request ("receiving server
\* reply (handle)", rqbalance_ctl.c), although the reply goes to whatever
\* connection clientsock refers to by then, and is tried again, and although a
\* looper that was stopped may still write clientsock while the next one answers.
THEOREM ReplyIsOwn == Spec => []OwnReply
  <1>1. Init => SleepInv /\ ReplyInv
    BY DEF Init, SleepInv, ReplyInv, Idling, Answering
  <1>2. TypeOK /\ PlaceInv /\ StartInv /\ SleepInv /\ EarlyInv /\ ReplyInv /\ [Next]_vars
           => StartInv' /\ SleepInv' /\ EarlyInv' /\ ReplyInv'
    <2>1. TypeOK /\ PlaceInv /\ EarlyInv /\ ReplyInv /\ [Next]_vars => ReplyInv'
      BY StepReply DEF EarlyInv, ReplyInv
    <2> QED BY <2>1, StepSleep, StepEarly
  <1>3. ReplyInv => OwnReply
    BY ClientAssumption DEF ReplyInv, OwnReply, RepliesOwn
  <1> QED BY <1>1, <1>2, <1>3, InitEarly, ServerTypeCorrect, PTL DEF Spec

-----------------------------------------------------------------------------
(* The open files.                                                         *)

\* A looper ends without a connection, and the HAL thread starts the next one only then.
LEMMA LooperTurn ==
    ASSUME TypeOK, LoneInv, TurnInv, AsleepInv, NEW t \in Start, Looper(t)
    PROVE  TurnInv'
  <1>1. UNCHANGED <<psthread_run, hal, rushed, resumed>>
    BY DEF Looper
  <1>2. /\ \A u \in Start : u # t => looper'[u] = looper[u]
        /\ looper[t].pc \notin Gone
    BY LooperIdles
  <1>3. ASSUME AllEnded', Kept PROVE clientsock' \in {-1, 0}
    <2>1. looper'[t].pc = "ended"
      <3>1. looper'[t].pc \in Gone
        BY <1>3 DEF AllEnded, Gone
      <3>2. looper'[t].pc # "none"
        BY DEF Looper, LooperReloop, LooperAccept, LooperConnected, LooperRefused, LooperStore,
               LooperCheck, LooperRecv, LooperReceived, LooperServe, LooperNoMode,
                 LooperWritten, LooperSend,
               LooperClose, Goto, TypeOK
      <3> QED BY <3>1, <3>2 DEF Gone
    <2>2. CASE LooperStore(t)
      <3>1. looper[t].ret \in Fd \cup {-1, 0} /\ ~(looper[t].ret > 0)
        BY <2>1, <2>2 DEF LooperStore, Goto, TypeOK
      <3>2. looper[t].ret \notin Fd
        BY <3>1, BoundAssumption DEF Fd
      <3> QED BY <2>2, <3>1, <3>2 DEF LooperStore
    <2>3. CASE LooperCheck(t)
      <3>1. ~psthread_run /\ looper[t].pc = "check"
        BY <2>1, <2>3 DEF LooperCheck, Goto, TypeOK
      <3>2. hal.awake => AllEnded
        BY <3>1 DEF LoneInv
      <3> QED BY <1>2, <1>3, <3>1, <3>2 DEF AsleepInv, AllEnded, Kept, Gone
    <2>4. CASE ~LooperStore(t) /\ ~LooperCheck(t)
      BY <2>1, <2>4 DEF Looper, LooperReloop, LooperAccept, LooperConnected, LooperRefused,
               LooperRecv, LooperReceived, LooperServe, LooperNoMode, LooperWritten,
                 LooperSend,
               LooperClose, Goto, TypeOK
    <2> QED BY <2>2, <2>3, <2>4
  <1> QED BY <1>1, <1>3, LooperOrder DEF TurnInv, Kept

\* What AwakeInv says where looper t is the one there is.
AwakeLocal(t) ==
    /\ LooperFiles(t)
    /\ file[sock] = Listening(t) /\ clientsock # sock
    /\ HalWrites => hal.ret \in Fd /\ file[hal.ret] = Sysfs
    /\ \A f \in Fd : file[f] # Unused => f = sock \/ (HalWrites /\ f = hal.ret) \/ Owns(t, f)

LEMMA LocalStep ==
    ASSUME TypeOK, PlaceInv, psthread_run, NEW t \in Start, AwakeLocal(t), Looper(t)
    PROVE  AwakeLocal(t)'
  <1> USE DEF AwakeLocal, LooperFiles, GivenTo, Has, Writes, HalWrites, Owns
  <1>0. /\ looper \in [Start -> Threads] /\ file \in [Fd -> Files]
        /\ UNCHANGED <<sock, hal, path>>
        /\ -1 \notin Fd /\ 0 \notin Fd
    BY DEF TypeOK, Threads, Files, Looper, Fd
  <1>1. CASE LooperReloop(t)
    <2>1. /\ looper[t].pc = "reloop" /\ looper'[t].pc = "accept" /\ clientsock' = clientsock
          /\ \A g \in Fd : file'[g] = IF g = clientsock THEN Unused ELSE file[g]
      BY <1>0, <1>1, CloseExact DEF LooperReloop, Threads
    <2> QED BY <1>0, <2>1, Kinds
  <1>2. CASE LooperAccept(t)
    <2>1. /\ looper[t].pc = "accept" /\ looper'[t].pc = "blocked" /\ looper'[t].on = t
          /\ UNCHANGED <<clientsock, file>>
      BY <1>0, <1>2, Kinds DEF LooperAccept, Threads, At
    <2> QED BY <1>0, <2>1
  <1>3. CASE LooperConnected(t)
    <2>1. PICK c \in backlog[looper[t].on] : Open(Connection(c))
      BY <1>3 DEF LooperConnected
    <2>2. /\ looper[t].pc = "blocked" /\ looper'[t].pc = "store" /\ looper'[t].ret = Lowest
          /\ looper'[t].on = looper[t].on
          /\ clientsock' = clientsock
      BY <1>0, <1>3 DEF LooperConnected, Threads
    <2>3. /\ Lowest \in Fd /\ file[Lowest] = Unused /\ file'[Lowest] = Connection(c)
          /\ \A f \in Fd : f # Lowest => file'[f] = file[f]
      BY <1>0, <2>1, OpenExact
    <2> HIDE DEF Lowest
    <2> QED BY <1>0, <2>2, <2>3, Kinds
  <1>4. CASE LooperRefused(t)
    <2>1. /\ looper[t].pc = "blocked" /\ looper'[t].pc = "store" /\ looper'[t].ret = -1
          /\ looper'[t].on = looper[t].on
          /\ UNCHANGED <<clientsock, file>>
      BY <1>0, <1>4 DEF LooperRefused, Threads
    <2> QED BY <1>0, <2>1
  <1>5. CASE LooperStore(t)
    <2>1. /\ looper[t].pc = "store" /\ looper'[t].ret = looper[t].ret
          /\ looper'[t].on = looper[t].on
          /\ clientsock' = looper[t].ret /\ UNCHANGED file
          /\ looper'[t].pc = IF looper[t].ret > 0 THEN "check" ELSE "ended"
      BY <1>0, <1>5 DEF LooperStore, Threads, Goto
    <2>2. looper[t].ret \in Fd => looper[t].ret > 0
      BY DEF Fd
    <2>3. looper[t].ret = -1 \/ looper[t].ret \in Fd
      BY <2>1
    <2> QED BY <1>0, <2>1, <2>2, <2>3, Kinds
  <1>6. CASE LooperCheck(t) \/ LooperRecv(t) \/ LooperReceived(t)
    <2>1. /\ looper[t].pc \in {"check", "recv", "receiving"}
          /\ looper'[t].pc \in {"recv", "receiving", "serve"}
             \/ (looper'[t].pc = "reloop")
          /\ UNCHANGED <<clientsock, file>>
      BY <1>0, <1>6 DEF LooperCheck, LooperRecv, LooperReceived, Threads, Goto
    <2> QED BY <1>0, <2>1
  <1>7. CASE LooperServe(t)
    <2>1. /\ looper[t].pc = "serve" /\ looper'[t].pc = "written" /\ looper'[t].ret = Lowest
          /\ clientsock' = clientsock
      BY <1>0, <1>7 DEF LooperServe, Threads
    <2>2. /\ Lowest \in Fd /\ file[Lowest] = Unused /\ file'[Lowest] = Sysfs
          /\ \A f \in Fd : f # Lowest => file'[f] = file[f]
      BY <1>0, <1>7, OpenExact DEF LooperServe
    <2> HIDE DEF Lowest
    <2> QED BY <1>0, <2>1, <2>2, Kinds
  <1>11. CASE LooperNoMode(t)
    <2>1. /\ looper[t].pc = "serve" /\ looper'[t].pc = "send"
          /\ UNCHANGED <<clientsock, file>>
      BY <1>0, <1>11 DEF LooperNoMode, Threads
    <2> QED BY <1>0, <2>1
  <1>8. CASE LooperWritten(t)
    <2>1. /\ looper[t].pc = "written" /\ looper'[t].pc = "send"
               /\ looper'[t].ret = looper[t].ret
          /\ clientsock' = clientsock
          /\ \A g \in Fd : file'[g] = IF g = looper[t].ret THEN Unused ELSE file[g]
      BY <1>0, <1>8, CloseExact DEF LooperWritten, Threads, Goto
    <2> QED BY <1>0, <2>1, Kinds
  <1>9. CASE LooperSend(t)
    <2>1. /\ looper[t].pc = "send" /\ looper'[t].pc \in {"close", "send", "reloop"}
          /\ UNCHANGED <<clientsock, file>>
      BY <1>0, <1>9 DEF LooperSend, Threads
    <2> QED BY <1>0, <2>1
  <1>10. CASE LooperClose(t)
    <2>1. /\ looper[t].pc = "close" /\ looper'[t].pc = "accept" /\ clientsock' = clientsock
          /\ \A g \in Fd : file'[g] = IF g = clientsock THEN Unused ELSE file[g]
      BY <1>0, <1>10, CloseExact DEF LooperClose, Threads, Goto
    <2> QED BY <1>0, <2>1, Kinds
  <1> QED BY <1>1, <1>2, <1>3, <1>4, <1>5, <1>6, <1>7, <1>8, <1>9, <1>10,
           <1>11 DEF Looper

\* While a looper has not ended it is the one AwakeLocal is about.
LEMMA LocalFromAwake ==
    ASSUME StartInv, LoneInv, AwakeInv, hal.awake, ~resumed, NEW t \in Start,
           looper[t].pc \notin Gone
    PROVE  psthread_run /\ AwakeLocal(t)
  <1>1. t = hal.starts /\ ~AllEnded /\ psthread_run /\ hal.pc \notin Starting
    BY DEF LoneInv, AllEnded, Gone
  <1>2. LooperFiles(t)
    BY <1>1 DEF AwakeInv, Gone
  <1>3. SockOpen
    BY <1>1, <1>2 DEF SockOpen, LooperFiles, Starting
  <1>4. ASSUME NEW u \in Start, u # t, NEW f, Owns(u, f) PROVE FALSE
    <2>1. looper[u].pc \in Gone
      BY <1>1, <1>4 DEF LoneInv
    <2> QED BY <1>4, <2>1 DEF Owns, GivenTo, Has, Writes, Gone
  <1> QED BY <1>1, <1>2, <1>3, <1>4 DEF AwakeInv, AwakeLocal

LEMMA LooperAwake ==
    ASSUME TypeOK, PlaceInv, StartInv, LoneInv, AwakeInv, hal.awake, ~resumed,
           NEW t \in Start, Looper(t)
    PROVE  AwakeInv'
  <1>1. UNCHANGED <<psthread_run, sock, hal, path>>
    BY DEF Looper
  <1>2. looper[t].pc \notin Gone
    BY LooperIdles
  <1>3. psthread_run /\ AwakeLocal(t)'
    BY <1>2, LocalFromAwake, LocalStep
  <1>4. t = hal.starts /\ ~AllEnded /\ hal.pc \notin Starting
    BY <1>2 DEF LoneInv, AllEnded, Gone
  <1>5. SockOpen'
    BY <1>1, <1>3, <1>4 DEF SockOpen, AwakeLocal, LooperFiles, Starting
  <1> QED BY <1>1, <1>3, <1>4, <1>5 DEF AwakeInv, AwakeLocal, Starting

\* The HAL thread.
LEMMA HalTurn ==
    ASSUME TypeOK, PlaceInv, StartInv, LoneInv, TurnInv, Hal
    PROVE  TurnInv'
  <1>1. OrderInv' /\ (Kept' => Kept)
    BY HalOrder, HalKept DEF TurnInv
  <1>2. clientsock' = clientsock
    BY HalFiles
  <1>3. AllEnded' => AllEnded
    <2>1. HalThread => AllEnded
      BY DEF HalThread, HalAt, LoneInv, Starting
    <2> QED BY <2>1, HalRest DEF AllEnded
  <1> QED BY <1>1, <1>2, <1>3 DEF TurnInv

\* Where no looper runs, none has a file open.
LEMMA EndedOwnNothing == ASSUME AllEnded PROVE \A t \in Start : \A f : ~Owns(t, f)
  BY DEF AllEnded, Owns, GivenTo, Has, Writes

LEMMA HalAwake ==
    ASSUME Rush # "any", TypeOK, PlaceInv, StartInv, LoneInv, TurnInv, AwakeInv, AsleepInv,
           TurnInv', Hal, hal'.awake, ~resumed'
    PROVE  AwakeInv'
  <1> USE DEF globals, kernel
  <1>a. ~resumed /\ (hal.awake \/ ~rushed)
    BY HalKept DEF TurnInv
  <1> USE <1>a
  <1>0. /\ hal \in Hals /\ looper \in [Start -> Threads] /\ file \in [Fd -> Files]
        /\ MaxStarts \in Nat /\ rushed \in BOOLEAN /\ -1 \notin Fd /\ 0 \notin Fd
    BY BoundAssumption DEF TypeOK, Hals, Threads, Files, Fd
  <1>1. clientsock' = clientsock
    BY HalFiles
  <1>2. ASSUME hal.pc \in Starting
        PROVE  /\ hal.awake /\ AllEnded /\ clientsock \in {-1, 0}
               /\ \A f \in Fd : file[f] # Unused => SockOpen /\ f = sock
    <2>1. hal.awake /\ AllEnded /\ clientsock \in {-1, 0} /\ ~HalWrites
      BY <1>2 DEF StartInv, LoneInv, TurnInv, OrderInv, Starting, HalWrites, Kept
    <2> QED BY <2>1, EndedOwnNothing DEF AwakeInv
  <1>3. CASE HalStart
    <2>1. looper' = looper /\ sock' = sock /\ file' = file /\ hal.pc = "start" /\ ~psthread_run
      BY <1>3 DEF HalStart, HalAt, TurnInv, OrderInv
    <2>2. /\ \A f \in Fd : file'[f] = Unused
          /\ \A t \in Start : \A f : ~Owns(t, f)'
      <3>1. AllEnded'
        BY <1>2, <2>1 DEF AllEnded, Starting
      <3> QED BY <1>2, <2>1, <3>1 DEF SockOpen, Starting, AllEnded, Owns, GivenTo, Has, Writes
    <2>3. CASE psthread_run' = TRUE /\ hal' = [hal EXCEPT !.pc = "socket", !.starts = @ + 1]
      <3>1. hal'.pc = "socket"
        BY <1>0, <2>3 DEF Hals
      <3> QED BY <2>2, <3>1 DEF AwakeInv, TurnInv, OrderInv, SockOpen, HalWrites
    <2>4. CASE Returns(FALSE) /\ UNCHANGED psthread_run
      <3>1. hal'.pc \in {"set", "idle", "dead"}
        BY <1>0, <2>4, ReturnsTypes
      <3> QED BY <2>1, <2>2, <2>4, <3>1 DEF AwakeInv, SockOpen, HalWrites
    <2> QED BY <1>3, <2>3, <2>4 DEF HalStart
  <1>4. CASE HalSocket
    <2>1. /\ hal.pc = "socket" /\ looper' = looper /\ psthread_run' = psthread_run
          /\ \A f \in Fd : file[f] = Unused
      BY <1>2, <1>4 DEF HalSocket, HalAt, SockOpen, Starting
    <2>2. \A t \in Start : \A f : ~Owns(t, f)'
      BY <1>2, <2>1 DEF Starting, AllEnded, Owns, GivenTo, Has, Writes
    <2>3. CASE Open(Listening(hal.starts)) /\ sock' = Lowest /\ HalTo("bind")
      <3>1. hal'.pc = "bind" /\ hal'.starts = hal.starts
        BY <1>0, <2>3, HalToTypes DEF HalPc
      <3>2. /\ sock' \in Fd /\ file'[sock'] = Listening(hal.starts)
            /\ \A f \in Fd : f # sock' => file'[f] = Unused
        <4>1. /\ Lowest \in Fd /\ file'[Lowest] = Listening(hal.starts)
              /\ \A f \in Fd : f # Lowest => file'[f] = file[f]
          BY <1>0, <2>3, OpenExact
        <4> QED BY <2>1, <2>3, <4>1
      <3>3. clientsock' # sock'
        BY <1>0, <1>1, <1>2, <2>1, <3>2 DEF Starting
      <3>4. \A t \in Start : t = hal'.starts => looper'[t].pc = "none"
        BY <2>1, <3>1 DEF TurnInv, OrderInv
      <3>5. SockOpen' \/ ~psthread_run'
        BY <3>1, <3>2 DEF SockOpen
      <3>6. SockOpen'
        BY <2>1, <3>5 DEF StartInv, Starting
      <3> QED BY <3>1, <3>2, <3>3, <3>4, <3>6 DEF AwakeInv, HalWrites
    <2>4. CASE sock' = -1 /\ Returns(FALSE) /\ UNCHANGED file
      <3>1. hal'.pc \in {"set", "idle", "dead"} /\ hal'.starts = hal.starts
        BY <1>0, <2>4, ReturnsTypes
      <3>2. \A t \in Start : t = hal'.starts => looper'[t].pc = "none"
        BY <2>1, <3>1 DEF TurnInv, OrderInv
      <3> QED BY <1>0, <2>1, <2>4, <3>1, <3>2 DEF AwakeInv, SockOpen, HalWrites
    <2> QED BY <1>4, <2>3, <2>4 DEF HalSocket
  <1>5. CASE HalBind
    <2>1. /\ hal.pc = "bind" /\ hal.awake /\ psthread_run
          /\ UNCHANGED <<psthread_run, sock, looper, file>>
      BY <1>2, <1>5 DEF HalBind, HalAt, StartInv, Starting
    <2>2. /\ hal'.starts = hal.starts
          /\ \/ hal'.pc = "thread" /\ path' = hal.starts
             \/ hal'.pc \in {"set", "idle", "dead"}
      <3>1. CASE path' = hal.starts /\ HalTo("thread")
        BY <1>0, <3>1, HalToTypes DEF HalPc
      <3>2. CASE Returns(FALSE)
        BY <1>0, <3>2, ReturnsTypes
      <3> QED BY <1>5, <3>1, <3>2 DEF HalBind
    <2>3. \A t \in Start : t = hal'.starts => looper'[t].pc = "none"
      BY <2>1, <2>2 DEF TurnInv, OrderInv
    <2>4. sock' \in Fd /\ SockOpen /\ SockOpen'
      BY <2>1, <2>2 DEF AwakeInv, SockOpen
    <2>5. \A f \in Fd : file'[f] # Unused => f = sock'
      BY <1>2, <2>1 DEF Starting
    <2>6. file'[sock'] = Listening(hal'.starts) /\ clientsock' # sock'
      BY <1>1, <2>1, <2>2, <2>4 DEF AwakeInv
    <2> QED BY <2>2, <2>3, <2>4, <2>5, <2>6 DEF AwakeInv, HalWrites
  <1>6. CASE HalThread
    <2>1. /\ hal.pc = "thread" /\ hal.awake /\ psthread_run
          /\ UNCHANGED <<psthread_run, sock, file, path>>
          /\ sock \in Fd /\ path = hal.starts
      BY <1>2, <1>6 DEF HalThread, HalAt, StartInv, Starting, AwakeInv
    <2>2. hal'.pc \in {"set", "idle", "dead"} /\ hal'.starts = hal.starts
      BY <1>0, <1>6, ReturnsTypes DEF HalThread
    <2>3. SockOpen /\ SockOpen'
      BY <2>1, <2>2 DEF SockOpen
    <2>4. \A f \in Fd : file'[f] # Unused => f = sock'
      BY <1>2, <2>1 DEF Starting
    <2>5. file'[sock'] = Listening(hal'.starts) /\ clientsock' # sock'
      BY <1>1, <2>1, <2>2, <2>3 DEF AwakeInv
    <2>6. \A t \in Start : t = hal'.starts => looper'[t].pc \in {"none", "reloop"}
      <3>1. \A t \in Start : t = hal.starts => looper[t].pc = "none"
        BY <2>1 DEF TurnInv, OrderInv
      <3>2. ASSUME NEW t \in Start, t = hal.starts PROVE looper'[t].pc \in {"none", "reloop"}
        <4>1. looper[t] \in Threads /\ looper[t].pc = "none"
          BY <1>0, <3>1, <3>2
        <4>2. looper' = looper \/ looper' = [looper EXCEPT ![hal.starts].pc = "reloop"]
          BY <1>6 DEF HalThread
        <4> QED BY <1>0, <3>2, <4>1, <4>2 DEF Threads
      <3> QED BY <2>2, <3>2
    <2>7. \A t \in Start : t = hal'.starts /\ looper'[t].pc # "none" => LooperFiles(t)'
      BY <1>1, <1>2, <2>1, <2>2, <2>6 DEF LooperFiles, GivenTo, Has, Writes, Starting
    <2> QED BY <2>2, <2>3, <2>4, <2>5, <2>7 DEF AwakeInv, HalWrites
  <1>7. CASE HalShutClient \/ HalCloseClient \/ HalShutSock \/ HalCloseSock
    <2>1. hal.pc \in Stopping
      BY <1>7 DEF HalShutClient, HalCloseClient, HalShutSock, HalCloseSock, HalAt, Stopping
    <2>2. \E pc \in {"closeclient", "shutsock", "closesock", "set", "idle"} : HalTo(pc)
      BY <1>7 DEF HalShutClient, HalCloseClient, HalShutSock, HalCloseSock
    <2> QED BY <1>0, <2>1, <2>2, HalToTypes DEF TurnInv, OrderInv, HalPc
  <1>8. CASE HalSet
    <2>1. /\ hal.pc = "set" /\ hal'.pc = "written" /\ hal'.ret = Lowest
          /\ hal'.starts = hal.starts /\ hal.awake
          /\ UNCHANGED <<psthread_run, sock, looper, path>>
      BY <1>0, <1>8 DEF HalSet, HalAt, Hals
    <2>2. /\ Lowest \in Fd /\ file[Lowest] = Unused /\ file'[Lowest] = Sysfs
          /\ \A f \in Fd : f # Lowest => file'[f] = file[f]
      BY <1>0, <1>8, OpenExact DEF HalSet
    <2>3. SockOpen' = SockOpen
      BY <2>1 DEF SockOpen
    <2> HIDE DEF Lowest
    <2>4. \A t \in Start : t = hal'.starts /\ psthread_run' /\ looper'[t].pc # "none"
                              => LooperFiles(t)'
      <3>1. ASSUME NEW t \in Start, LooperFiles(t) PROVE LooperFiles(t)'
        BY <1>1, <2>1, <2>2, <3>1, Kinds DEF LooperFiles, GivenTo, Has, Writes, HalWrites
      <3> QED BY <2>1, <3>1 DEF AwakeInv
    <2>5. \A t \in Start : \A f : Owns(t, f)' <=> Owns(t, f)
      BY <1>1, <2>1 DEF Owns, GivenTo, Has, Writes
    <2>6. SockOpen => file'[sock'] = Listening(hal'.starts) /\ clientsock' # sock'
      BY <1>1, <2>1, <2>2, Kinds DEF AwakeInv, SockOpen
    <2> QED BY <2>1, <2>2, <2>3, <2>4, <2>5, <2>6 DEF AwakeInv, HalWrites
  <1>9. CASE HalWritten
    <2>1. /\ hal.pc = "written" /\ hal'.pc = "idle"
          /\ hal'.starts = hal.starts /\ hal.awake
          /\ UNCHANGED <<psthread_run, sock, looper, path>>
          /\ \A g \in Fd : file'[g] = IF g = hal.ret THEN Unused ELSE file[g]
      BY <1>0, <1>9, HalToTypes, CloseExact DEF HalWritten, HalAt, HalPc
    <2>2. hal.ret \in Fd /\ file[hal.ret] = Sysfs
      BY <2>1 DEF AwakeInv, HalWrites
    <2>3. SockOpen' = SockOpen
      BY <2>1 DEF SockOpen
    <2>4. \A t \in Start : t = hal'.starts /\ psthread_run' /\ looper'[t].pc # "none"
                              => LooperFiles(t)'
      <3>1. ASSUME NEW t \in Start, LooperFiles(t) PROVE LooperFiles(t)'
        BY <1>1, <2>1, <2>2, <3>1, Kinds DEF LooperFiles, GivenTo, Has, Writes, HalWrites
      <3> QED BY <2>1, <3>1 DEF AwakeInv
    <2>5. \A t \in Start : \A f : Owns(t, f)' <=> Owns(t, f)
      BY <1>1, <2>1 DEF Owns, GivenTo, Has, Writes
    <2>6. SockOpen => file'[sock'] = Listening(hal'.starts) /\ clientsock' # sock'
      BY <1>1, <2>1, <2>2, Kinds DEF AwakeInv, SockOpen
    <2> QED BY <2>1, <2>2, <2>3, <2>4, <2>5, <2>6 DEF AwakeInv, HalWrites
  <1>10. CASE Sleep
    BY <1>0, <1>10 DEF Sleep, Hals
  <1>11. CASE Wake
    <2>1. /\ hal.pc = "idle" /\ hal'.pc \in {"set", "start"} /\ hal'.starts = hal.starts
          /\ UNCHANGED <<psthread_run, sock, looper, file, path>>
      BY <1>0, <1>11 DEF Wake, Hals, HalAt
    <2>2. \A t \in Start : \A f : Owns(t, f)' <=> Owns(t, f)
      BY <1>1, <2>1 DEF Owns, GivenTo, Has, Writes
    <2>3. CASE hal.awake
      <3>1. ASSUME NEW t \in Start, LooperFiles(t) PROVE LooperFiles(t)'
        BY <1>1, <2>1, <3>1 DEF LooperFiles, GivenTo, Has, Writes, HalWrites
      <3> QED BY <1>1, <2>1, <2>2, <2>3, <3>1 DEF AwakeInv, SockOpen, HalWrites
    <2>4. CASE ~hal.awake
      <3>1. ~rushed /\ ~psthread_run
        BY <1>11, <2>4 DEF StartInv
      <3>2. \A f \in Fd : file'[f] = Unused
        BY <2>1, <2>4, <3>1 DEF AsleepInv, HalWrites, Stopping
      <3> QED BY <2>1, <3>1, <3>2 DEF AwakeInv, SockOpen, HalWrites
    <2> QED BY <2>3, <2>4
  <1> QED BY <1>3, <1>4, <1>5, <1>6, <1>7, <1>8, <1>9, <1>10, <1>11 DEF Hal, HalStep

\* Of a device that fell asleep at rest, a looper can only give up.
LEMMA LooperAsleep ==
    ASSUME TypeOK, PlaceInv, AsleepInv, ~hal.awake, ~rushed, NEW t \in Start, Looper(t)
    PROVE  AsleepInv'
  <1>0. /\ looper \in [Start -> Threads] /\ UNCHANGED <<sock, hal, shut, rushed>>
        /\ looper[t].pc \in {"blocked", "store"}
        /\ looper[t].pc = "store" => looper[t].ret = -1
        /\ \A u \in Start : u # t => looper'[u] = looper[u]
        /\ -1 \notin Fd
    BY LooperIdles DEF TypeOK, Threads, Looper, AsleepInv, Gone, Fd
  <1>1. LooperRefused(t) \/ LooperStore(t)
    <2>1. ~LooperConnected(t)
      <3>1. looper[t].pc = "blocked" => backlog[looper[t].on] = {}
        BY DEF AsleepInv, Told, PlaceInv
      <3> QED BY <3>1 DEF LooperConnected
    <2> QED BY <1>0, <2>1 DEF Looper, LooperReloop, LooperAccept, LooperCheck, LooperRecv,
               LooperReceived, LooperServe, LooperNoMode, LooperWritten, LooperSend,
                 LooperClose, Goto
  <1>2. /\ UNCHANGED <<file, backlog>>
        /\ looper'[t].pc \in {"store", "ended"}
             /\ (looper'[t].pc = "store" => looper'[t].ret = -1)
        /\ clientsock' \in {clientsock, -1}
    <2>1. CASE LooperRefused(t)
      BY <1>0, <2>1 DEF LooperRefused, Threads
    <2>2. CASE LooperStore(t)
      BY <1>0, <2>2 DEF LooperStore, Goto, Threads
    <2> QED BY <1>1, <2>1, <2>2
  <1>3. ASSUME NEW u \in Start, looper'[u].pc = "blocked"
        PROVE  IF hal.pc \in Stopping \ {"closesock"}
               THEN sock \in Fd /\ file[sock] = Listening(looper'[u].on) /\ clientsock' # sock
               ELSE Listening(looper'[u].on) \in shut
    <2>1. looper'[u] = looper[u]
      BY <1>0, <1>2, <1>3
    <2> QED BY <1>0, <1>2, <1>3, <2>1 DEF AsleepInv, Told
  <1> QED BY <1>0, <1>2, <1>3 DEF AsleepInv, Told, HalWrites

\* Nobody can connect by then.
LEMMA ClientAsleep ==
    ASSUME TypeOK, PlaceInv, AsleepInv, ~hal.awake, ~rushed', NEW c \in Client, ClientStep(c)
    PROVE  AsleepInv'
  <1>1. UNCHANGED <<globals, looper, hal, file, shut>> /\ ~rushed
    BY DEF ClientStep, Connect, Rushes, TypeOK
  <1>2. backlog' = backlog
    <2>1. CASE Connect(c)
      <3>1. hal.pc = "idle"
        BY <2>1 DEF Connect, Rushes
      <3>2. \A f \in Fd : file[f] = Unused
        BY <1>1, <3>1 DEF AsleepInv, Told, HalWrites, Stopping
      <3>3. ASSUME Alive(Listening(path)) PROVE Listening(path) \in shut
        <4>1. \A f \in Fd : file[f] # Listening(path)
          BY <3>2, Kinds
        <4>2. PICK t \in Start : looper[t].pc = "blocked"
                   /\ Listening(path) = Listening(looper[t].on)
          BY <3>3, <4>1, <1>1 DEF Alive, AsleepInv
        <4>3. Listening(looper[t].on) \in shut
          BY <1>1, <3>1, <4>2 DEF AsleepInv, Told, Stopping
        <4> QED BY <4>2, <4>3
      <3> QED BY <2>1, <3>3 DEF Connect
    <2>2. CASE SendRequest(c) \/ Receive(c)
      BY <2>2 DEF SendRequest, Receive
    <2> QED BY <2>1, <2>2 DEF ClientStep
  <1> QED BY <1>1, <1>2 DEF AsleepInv, Told, HalWrites, globals

LEMMA HalAsleep ==
    ASSUME TypeOK, PlaceInv, StartInv, LoneInv, TurnInv, AwakeInv, AsleepInv,
           Hal, ~hal'.awake, ~rushed'
    PROVE  AsleepInv'
  <1> USE DEF globals, kernel, Stopping
  <1>a. ~rushed /\ ~resumed
    BY DEF Hal, Sleep, Rushes, TypeOK, TurnInv, OrderInv
  <1> USE <1>a
  <1>0. /\ hal \in Hals /\ looper \in [Start -> Threads] /\ file \in [Fd -> Files]
        /\ backlog' = backlog /\ clientsock' = clientsock
    <2>1. backlog' = backlog
      BY DEF Hal, HalStep, HalStart, HalSocket, HalBind, HalThread, HalShutClient,
         HalCloseClient,
             HalShutSock, HalCloseSock, HalSet, HalWritten, Sleep, Wake
    <2> QED BY <2>1, HalFiles DEF TypeOK, Hals, Threads, Files
  <1>1. CASE Sleep
    <2>1. /\ AtRest /\ hal.awake /\ hal.pc = "idle" /\ hal'.pc = "shutclient"
          /\ UNCHANGED <<sock, looper, file, shut>>
      BY <1>0, <1>1 DEF Sleep, Rushes, HalAt, Hals
    <2>2. /\ \A s \in Start : backlog'[s] = {}
          /\ \A t \in Start : looper'[t].pc \in {"none", "blocked", "ended"}
      BY <1>0, <2>1 DEF AtRest
    <2>3. \A t \in Start : looper'[t].pc = "blocked"
             => sock' \in Fd /\ file'[sock'] = Listening(looper'[t].on) /\ clientsock' # sock'
      <3>1. ASSUME NEW t \in Start, looper[t].pc = "blocked"
            PROVE  sock \in Fd /\ file[sock] = Listening(looper[t].on) /\ clientsock # sock
        BY <2>1, <3>1, LocalFromAwake DEF AwakeLocal, LooperFiles, Gone
      <3> QED BY <1>0, <2>1, <3>1
    <2>4. \A f \in Fd : file'[f] # Unused => f = sock'
      <3>1. \A t \in Start : \A f : ~Owns(t, f)
        BY <2>1, <2>2 DEF Owns, GivenTo, Has, Writes
      <3> QED BY <2>1, <3>1 DEF AwakeInv, HalWrites
    <2> QED BY <2>1, <2>2, <2>3, <2>4 DEF AsleepInv, Told, HalWrites
  <1>2. CASE HalStep \/ Wake
    <2>0. ~rushed
      BY <1>a
    <2>1. hal.pc \in Starting => ~(hal'.awake = hal.awake)
      BY DEF StartInv
    <2>2. CASE HalStart \/ HalSocket \/ HalBind \/ HalThread
      <3>1. hal.pc \in Starting
        BY <2>2 DEF HalStart, HalSocket, HalBind, HalThread, HalAt, Starting
      <3>2. \/ hal' = [hal EXCEPT !.pc = "socket", !.starts = @ + 1]
            \/ HalTo("bind") \/ HalTo("thread") \/ Returns(FALSE) \/ Returns(TRUE)
        BY <2>2 DEF HalStart, HalSocket, HalBind, HalThread
      <3>3. hal'.awake = hal.awake
        BY <1>0, <3>2, HalToTypes, ReturnsTypes DEF HalPc, Hals
      <3> QED BY <2>1, <3>1, <3>3
    <2>3. CASE Wake
      BY <1>0, <2>3 DEF Wake, Hals
    <2>4. CASE HalShutClient \/ HalCloseClient \/ HalShutSock \/ HalCloseSock \/ HalSet
                 \/ HalWritten
      <3>1. UNCHANGED <<sock, looper>> /\ ~hal.awake
        <4>1. /\ UNCHANGED <<sock, looper>>
              /\ \/ \E pc \in {"closeclient", "shutsock", "closesock", "set",
                      "idle"} : HalTo(pc)
                 \/ hal' = [hal EXCEPT !.pc = "written", !.ret = Lowest]
          BY <2>4 DEF HalShutClient, HalCloseClient, HalShutSock, HalCloseSock, HalSet,
             HalWritten
        <4> QED BY <1>0, <4>1, HalToTypes DEF HalPc, Hals
      <3>2. /\ \A s \in Start : backlog'[s] = {}
            /\ \A t \in Start : /\ looper'[t].pc \in {"none", "blocked", "store", "ended"}
                                /\ looper'[t].pc = "store" => looper'[t].ret = -1
        BY <1>0, <2>0, <3>1 DEF AsleepInv, Told
      <3>3. CASE HalShutClient \/ HalCloseClient
        <4>1. /\ hal.pc \in {"shutclient", "closeclient"}
                   /\ hal'.pc \in {"closeclient", "shutsock"}
              /\ file' = file \/ \A g \in Fd : file'[g] = IF g = clientsock THEN Unused
                   ELSE file[g]
          BY <1>0, <3>3, HalToTypes, CloseExact DEF HalShutClient, HalCloseClient, HalAt, HalPc
        <4>2. ASSUME NEW t \in Start, looper[t].pc = "blocked"
              PROVE  sock \in Fd /\ file'[sock] = Listening(looper[t].on) /\ clientsock # sock
          BY <2>0, <3>1, <4>1, <4>2 DEF AsleepInv, Told
        <4>3. \A f \in Fd : file'[f] # Unused => f = sock
          BY <2>0, <3>1, <4>1 DEF AsleepInv, Told, HalWrites
        <4>4. \A t \in Start : looper'[t].pc = "blocked"
                 => sock' \in Fd /\ file'[sock'] = Listening(looper'[t].on)
                   /\ clientsock' # sock'
          BY <1>0, <3>1, <4>2
        <4>5. \A f \in Fd : file'[f] # Unused => f = sock'
          BY <3>1, <4>3
        <4>6. ~HalWrites' /\ hal'.pc \in Stopping \ {"closesock"}
          BY <4>1 DEF HalWrites
        <4>8. \A t \in Start : Told(t)'
          BY <4>4, <4>6 DEF Told
        <4> QED BY <3>2, <4>4, <4>5, <4>6, <4>8 DEF AsleepInv, HalWrites
      <3>4. CASE HalShutSock
        <4>1. hal.pc = "shutsock" /\ hal'.pc = "closesock" /\ file' = file
          BY <1>0, <3>4, HalToTypes DEF HalShutSock, HalAt, HalPc
        <4>2. ASSUME NEW t \in Start, looper[t].pc = "blocked"
              PROVE  Listening(looper[t].on) \in shut'
          <5>1. At(sock) = Listening(looper[t].on)
            BY <2>0, <3>1, <4>1, <4>2 DEF AsleepInv, Told, At
          <5> QED BY <3>4, <5>1, Kinds DEF HalShutSock, Shutdown
        <4>3. \A f \in Fd : file'[f] # Unused => f = sock
          BY <2>0, <3>1, <4>1 DEF AsleepInv, Told, HalWrites
        <4>4. \A t \in Start : looper'[t].pc = "blocked" => Listening(looper'[t].on) \in shut'
          BY <3>1, <4>2
        <4>5. \A f \in Fd : file'[f] # Unused => f = sock'
          BY <3>1, <4>3
        <4>6. ~HalWrites' /\ hal'.pc = "closesock"
          BY <4>1 DEF HalWrites
        <4>8. \A t \in Start : Told(t)'
          BY <4>4, <4>6 DEF Told
        <4> QED BY <3>2, <4>4, <4>5, <4>6, <4>8 DEF AsleepInv, HalWrites
      <3>5. CASE HalCloseSock \/ HalSet \/ HalWritten
        <4>1. ASSUME NEW t \in Start, looper[t].pc = "blocked"
              PROVE  Listening(looper[t].on) \in shut'
          BY <2>0, <3>1, <3>5, <4>1 DEF AsleepInv, Told, HalCloseSock, HalSet, HalWritten,
             HalAt
        <4>0. \A t \in Start : looper'[t].pc = "blocked" => Listening(looper'[t].on) \in shut'
          BY <3>1, <4>1
        <4>2. CASE HalCloseSock
          <5>1. /\ hal.pc = "closesock" /\ hal'.pc = "set"
                /\ \A g \in Fd : file'[g] = IF g = sock THEN Unused ELSE file[g]
            BY <1>0, <4>2, HalToTypes, CloseExact DEF HalCloseSock, HalAt, HalPc
          <5>2. \A f \in Fd : file'[f] = Unused
            BY <2>0, <3>1, <5>1 DEF AsleepInv, Told, HalWrites
          <5>3. ~HalWrites' /\ hal'.pc \notin Stopping
            BY <5>1 DEF HalWrites
          <5>8. \A t \in Start : Told(t)'
            BY <4>0, <5>3 DEF Told
          <5> QED BY <3>2, <4>0, <5>2, <5>3, <5>8 DEF AsleepInv, HalWrites
        <4>3. CASE HalSet
          <5>1. hal.pc = "set" /\ hal'.pc = "written" /\ hal'.ret = Lowest
            BY <1>0, <4>3 DEF HalSet, HalAt, Hals
          <5>2. /\ Lowest \in Fd /\ file'[Lowest] = Sysfs
                /\ \A f \in Fd : f # Lowest => file'[f] = file[f]
            BY <1>0, <4>3, OpenExact DEF HalSet
          <5>3. \A f \in Fd : file[f] = Unused
            BY <2>0, <3>1, <5>1 DEF AsleepInv, Told, HalWrites
          <5> HIDE DEF Lowest
          <5>4. hal'.pc \notin Stopping /\ hal'.ret \in Fd /\ file'[hal'.ret] = Sysfs
            BY <5>1, <5>2
          <5>5. \A f \in Fd : file'[f] # Unused => HalWrites' /\ f = hal'.ret
            BY <5>1, <5>2, <5>3 DEF HalWrites
          <5>8. \A t \in Start : Told(t)'
            BY <4>0, <5>4 DEF Told
          <5> QED BY <3>2, <4>0, <5>4, <5>5, <5>8 DEF AsleepInv, HalWrites
        <4>4. CASE HalWritten
          <5>1. /\ hal.pc = "written" /\ hal'.pc = "idle"
                /\ \A g \in Fd : file'[g] = IF g = hal.ret THEN Unused ELSE file[g]
            BY <1>0, <4>4, HalToTypes, CloseExact DEF HalWritten, HalAt, HalPc
          <5>2. \A f \in Fd : file'[f] = Unused
            BY <2>0, <3>1, <5>1 DEF AsleepInv, Told, HalWrites
          <5>3. ~HalWrites' /\ hal'.pc \notin Stopping
            BY <5>1 DEF HalWrites
          <5>8. \A t \in Start : Told(t)'
            BY <4>0, <5>3 DEF Told
          <5> QED BY <3>2, <4>0, <5>2, <5>3, <5>8 DEF AsleepInv, HalWrites
        <4> QED BY <3>5, <4>2, <4>3, <4>4
      <3> QED BY <2>4, <3>3, <3>4, <3>5
    <2> QED BY <1>2, <2>2, <2>3, <2>4 DEF HalStep
  <1> QED BY <1>1, <1>2 DEF Hal

LEMMA StepFiles ==
    ASSUME Rush # "any", TypeOK, PlaceInv, StartInv, LoneInv, TurnInv, AwakeInv, AsleepInv,
           [Next]_vars
    PROVE  TurnInv' /\ AwakeInv' /\ AsleepInv'
  <1>1. CASE UNCHANGED vars
    BY <1>1 DEF vars, globals, kernel, TurnInv, OrderInv, AwakeInv, AsleepInv, AllEnded,
       SockOpen,
       HalWrites,
                LooperFiles, Owns, GivenTo, Has, Writes, Told, Kept
  <1>2. ASSUME NEW t \in Start, Looper(t) PROVE TurnInv' /\ AwakeInv' /\ AsleepInv'
    <2>1. hal' = hal /\ rushed' = rushed /\ resumed' = resumed
      BY <1>2 DEF Looper
    <2> QED BY <1>2, <2>1, LooperTurn, LooperAwake, LooperAsleep DEF AwakeInv, AsleepInv
  <1>3. CASE Hal
    <2>1. TurnInv'
      BY <1>3, HalTurn
    <2>2. AwakeInv'
      BY <1>3, <2>1, HalAwake DEF AwakeInv
    <2>3. AsleepInv'
      BY <1>3, HalAsleep DEF AsleepInv, Told
    <2> QED BY <2>1, <2>2, <2>3
  <1>4. ASSUME NEW c \in Client, ClientStep(c) PROVE TurnInv' /\ AwakeInv' /\ AsleepInv'
    <2>1. UNCHANGED <<psthread_run, sock, clientsock, looper, hal, file, path, resumed>>
      BY <1>4 DEF ClientStep, globals
    <2>2. ~rushed' => ~rushed
      BY <1>4 DEF ClientStep, Connect, Rushes, TypeOK
    <2>3. TurnInv'
      BY <2>1, <2>2 DEF TurnInv, OrderInv, AllEnded, Kept
    <2>4. AwakeInv'
      BY <2>1 DEF AwakeInv, SockOpen, HalWrites, LooperFiles, Owns, GivenTo, Has, Writes, Told
    <2>5. AsleepInv'
      BY <1>4, <2>1, ClientAsleep DEF AsleepInv, Told
    <2> QED BY <2>3, <2>4, <2>5
  <1> QED BY <1>1, <1>2, <1>3, <1>4 DEF Next

FilesInv == TurnInv /\ AwakeInv /\ AsleepInv

LEMMA InitFiles == Init => StartInv /\ SleepInv /\ LoneInv /\ FilesInv
  <1> SUFFICES ASSUME Init PROVE StartInv /\ SleepInv /\ LoneInv /\ FilesInv
    OBVIOUS
  <1>1. /\ \A t \in Start : looper[t].pc = "none"
        /\ \A f \in Fd : file[f] = Unused
        /\ hal.pc = "start" /\ hal.awake /\ ~psthread_run /\ clientsock = 0
        /\ ~rushed /\ ~resumed
    BY DEF Init
  <1> QED BY <1>1 DEF StartInv, SleepInv, Idling, LoneInv, FilesInv, TurnInv, OrderInv,
        AwakeInv,
        AsleepInv, Starting, Stopping,
                      AllEnded, Gone, HalWrites, SockOpen

\* Every file that the service opened is closed once the server is stopped, and
\* none but that (the looper and the HAL thread use the numbers of descriptors
\* which they share without a lock): for any number of starts, clients and
\* descriptors, whichever calls fail, unless the device falls asleep during a request.
THEOREM FilesAllClosed == ASSUME Rush # "any" PROVE Spec => []FilesClosed
  <1>1. Init => StartInv /\ SleepInv /\ LoneInv /\ FilesInv
    BY InitFiles
  <1>2. TypeOK /\ PlaceInv /\ StartInv /\ SleepInv /\ LoneInv /\ FilesInv /\ [Next]_vars
           => StartInv' /\ SleepInv' /\ LoneInv' /\ FilesInv'
    BY StepSleep, StepLone, StepFiles DEF FilesInv
  <1>3. FilesInv => FilesClosed
    BY DEF FilesInv, AsleepInv, FilesClosed, Stopping, HalWrites
  <1> QED BY <1>1, <1>2, <1>3, ServerTypeCorrect, PTL DEF Spec

\* While the device is awake, sock refers to the socket that clients connect to
\* and a looper waits at it, unless its start or an accept() failed, though the
\* numbers of descriptors are given again and again (manage_powerserver): unless
\* it was woken after a stop that found the looper at work.
THEOREM SocketIsKept == ASSUME Rush # "any" PROVE Spec => []SocketKept
  <1>1. Init => StartInv /\ SleepInv /\ LoneInv /\ FilesInv
    BY InitFiles
  <1>2. TypeOK /\ PlaceInv /\ StartInv /\ SleepInv /\ LoneInv /\ FilesInv /\ [Next]_vars
           => StartInv' /\ SleepInv' /\ LoneInv' /\ FilesInv'
    BY StepSleep, StepLone, StepFiles DEF FilesInv
  <1>3. TypeOK /\ LoneInv /\ FilesInv => SocketKept
    <2> SUFFICES ASSUME TypeOK, LoneInv, FilesInv, ~resumed, hal.pc = "idle", hal.awake,
                        psthread_run, AtRest, looper[hal.starts].pc # "none"
                 PROVE  /\ path = hal.starts /\ At(sock) = Listening(path)
                        /\ GaveUp(path)
                             \/ (looper[path].pc = "blocked" /\ looper[path].on = path)
      BY DEF SocketKept, SocketInUse, SocketThere
    <2>1. hal.starts \in Start
      <3>1. hal.starts # 0
        BY DEF FilesInv, TurnInv, OrderInv
      <3> QED BY <3>1, BoundAssumption DEF TypeOK, Start
    <2>2. LooperFiles(hal.starts) /\ looper[hal.starts].pc \in {"blocked", "ended"}
      BY <2>1 DEF FilesInv, AwakeInv, AtRest
    <2>3. SockOpen
      BY <2>2 DEF SockOpen, LooperFiles
    <2> QED BY <2>2, <2>3 DEF FilesInv, AwakeInv, LooperFiles, GaveUp, At
  <1> QED BY <1>1, <1>2, <1>3, ServerTypeCorrect, PTL DEF Spec

=============================================================================
