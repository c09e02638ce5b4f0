------------------------------ MODULE MCServer ------------------------------
(***************************************************************************)
(* Instances for TLC of what a server is made of: the process with its     *)
(* threads, the event sinks and their reclamation, the listening socket, a *)
(* client's socket, the reader of memcache requests, the commands.  A      *)
(* behaviour is one of one part.  The sinks rest in those of the others,   *)
(* and these have the variables x1 to x17, each for its own state.         *)
(***************************************************************************)
EXTENDS EventEpoch, TLC

CONSTANTS s1, s2
TwoSinks == {s1, s2}
Pairs == {(s1 :> 1) @@ (s2 :> 2), (s1 :> 1) @@ (s2 :> 1)}

VARIABLES part, x1, x2, x3, x4, x5, x6, x7, x8, x9, x10, x11, x12, x13, x14, x15, x16, x17
xs == <<x1, x2, x3, x4, x5, x6, x7, x8, x9, x10, x11, x12, x13, x14, x15, x16, x17>>

-----------------------------------------------------------------------------
(* The process, with two start hooks and one signal.                       *)
Process == INSTANCE Runtime WITH
    MaxThreads <- 3, Hooks <- <<"wait", "future">>, MaxSignals <- 1,
    nthreads <- x1, perpoll <- x2, main <- x3, common <- x4, created <- x5, boot <- x6, table <- x7,
    started <- x8, value <- x9, sense <- x10, local <- x11, stopFlag <- x12, signals <- x13,
    sending <- x14, asked <- x15, sound <- x16, dead <- x17

(* The listening socket: affinity masks as long as the set of threads,     *)
(* shorter, longer, with a hole, and none.                                 *)
Server == INSTANCE NetServer WITH
    NThreads <- 3, Masks <- {<<0, {}>>, <<1, {}>>, <<3, {0, 2}>>, <<4, {1, 3}>>, <<2, {1}>>}, MaxConns <- 6,
    srv <- x1, fd <- x2, affinity <- x3, context <- x4, target <- x5, counter <- x6, backlog <- x7,
    arrived <- x8, edge <- x9, started <- x10, ready <- x11, closed <- x12, pc <- x13, calls <- x14, home <- x15

(* A client's socket.                                                      *)
Socket == INSTANCE NetSocket WITH
    MaxAvail <- 2, MaxSupply <- 1, MaxOpen <- 1, MaxFails <- 1,
    regular <- x1, oneshot <- x2, ready <- x3, error <- x4, shut <- x5, closed <- x6, avail <- x7,
    broken <- x8, supply <- x9, interest <- x10, events <- x11, inflight <- x12, stash <- x13,
    pc <- x14, want <- x15, late <- x16, fails <- x17

-----------------------------------------------------------------------------
(* Requests of a client, two at a time, in one stream.                     *)
CrLf == <<"CR", "LF">>
Simple ==
    {<<"get", "SP", "k">> \o CrLf,
     <<"set", "k", "SP", "1", "SP", "2", "SP", "2">> \o CrLf \o <<"k", "k">> \o CrLf,
     <<"gets", "k", "k", "SP", "k">> \o CrLf}
Ascii == Simple \cup
    {<<"get", "k", "SP", "k", "k", "k">> \o CrLf,
     <<"get", "k", "SP", "k", "SP", "CR", "k", "LF">>,
     <<"cas", "k", "SP", "0", "SP", "0", "SP", "1", "SP", "9", "SP", "n", "oreply">> \o CrLf \o <<"k">> \o CrLf,
     <<"append", "SP", "k", "SP", "1", "SP", "1", "SP", "1", "SP", "n", "oreply", "LF", "k", "LF">>,
     <<"incr", "k", "SP", "1", "2", "SP", "n", "oreply">> \o CrLf,
     <<"touch", "SP", "k", "SP", "1">> \o CrLf,
     <<"delete", "SP", "k", "SP", "n", "oreply">> \o CrLf,
     <<"flush_all">> \o CrLf, <<"flush_all", "SP", "2">> \o CrLf,
     <<"stats", "SP", "k", "SP", "k">> \o CrLf, <<"verbosity", "SP", "1">> \o CrLf,
     <<"quit">> \o CrLf, <<"version", "k">> \o CrLf, <<"k", "LF">>,
     <<"SP", "SP", "SP", "SP", "SP", "SP", "SP", "SP">>,
     <<"set", "k", "SP", "1", "SP", "2", "SP", "1">> \o CrLf \o <<"k", "k">> \o CrLf}
Header(op, key, ext, body) == [op |-> op, key |-> key, ext |-> ext, body |-> body]
MCHeaders == [
    Hget |-> Header("get", 1, 0, 1), Hset |-> Header("setq", 1, 2, 4), Hcat |-> Header("append", 1, 0, 2),
    Hinc |-> Header("increment", 1, 3, 4), Hflush |-> Header("flush", 0, 1, 1), Hbad |-> Header("set", 1, 2, 2),
    Hnoop |-> Header("noop", 0, 0, 0), Hunk |-> Header("unknown", 0, 0, 1), Hquit |-> Header("quit", 0, 0, 0)]
Binary == {<<x>> \o [i \in 1 .. MCHeaders[x].body |-> "b"] : x \in DOMAIN MCHeaders}
MCStreams ==
    {a \o b : a \in Ascii, b \in Simple} \cup {a \o b : a, b \in Binary} \cup {<<"Hget", "b", "k">>}
Reader == INSTANCE MemcacheReader WITH
    Streams <- MCStreams, Headers <- MCHeaders, KeyMax <- 2, Span <- 9, JunkMax <- 11, NumMod <- 20,
    Now <- 5, MonthMax <- 3, BatchSize <- 2, MaxCuts <- 1,
    stream <- x1, have <- x2, cuts <- x3, head <- x4, pc <- x5, m <- x6, left <- x7, batch <- x8,
    detached <- x9, done <- x10, lost <- x11, leaked <- x12

-----------------------------------------------------------------------------
(* Two connections execute the commands of one key.                        *)
Cmd(proto, op, quiet, arg, stamp) ==
    [proto |-> proto, op |-> op, quiet |-> quiet, arg |-> arg, stamp |-> stamp,
     delta |-> 2, initial |-> 9, last |-> TRUE]
Protocols == {"binary", "ascii"}
First ==
    {Cmd("binary", "set", FALSE, <<9>>, 0), Cmd("ascii", "set", TRUE, <<10>>, 0),
     Cmd("binary", "add", TRUE, <<1, 2>>, 0)}
Counts ==
    {Cmd("binary", o, q, <<1>>, 0) : o \in {"append", "incr", "decr"}, q \in BOOLEAN}
    \cup {Cmd("ascii", o, FALSE, <<1>>, 0) : o \in {"append", "incr", "decr"}}
Compares ==
    {Cmd("binary", "set", FALSE, <<3>>, 1), Cmd("binary", "replace", TRUE, <<3>>, 1)}
    \cup {Cmd("ascii", "cas", FALSE, <<3>>, s) : s \in {1, 2}}
Others ==
    {Cmd(p, o, q, <<4>>, 0) : p \in Protocols, o \in {"delete", "flush", "get", "add"}, q \in BOOLEAN}
    \cup {Cmd("ascii", "replace", FALSE, <<3>>, s) : s \in {0, 7}}
    \cup {Cmd("binary", o, FALSE, <<>>, 0) : o \in {"noop", "version", "stat", "error"}}
    \cup {Cmd("ascii", o, FALSE, <<>>, 0) : o \in {"touch", "stats", "error", "verbosity"}}
Prepend == Cmd("binary", "prepend", FALSE, <<2>>, 0)
Second == Counts \cup Compares \cup {Prepend}
Programs ==
    {<<a, b>> : a \in First, b \in Second} \cup {<<b>> : b \in Second \cup Others}
(* It does not matter which of the connections sends which commands.       *)
Ordered(pair) ==
    LET a == CHOOSE p \in pair : TRUE IN <<a, CHOOSE p \in pair : pair = {a, p}>>
MCWorkloads == {Ordered(pair) : pair \in {{a, b} : a, b \in Programs}}
Command == INSTANCE MemcacheCommand WITH
    Conns <- {1, 2}, Workloads <- MCWorkloads, Entries <- {1, 2, 3, 4}, NumMod <- 100,
    table <- x1, todo <- x2, pc <- x3, act <- x4, said <- x5, log <- x6, did <- x7, dangling <- x8

-----------------------------------------------------------------------------
Rest == owner = CHOOSE o \in Owners : TRUE
PartInit ==
    /\ Init
    /\ \/ /\ part = "sinks" /\ x1 = 0 /\ x2 = 0 /\ x3 = 0 /\ x4 = 0 /\ x5 = 0 /\ x6 = 0 /\ x7 = 0 /\ x8 = 0 /\ x9 = 0
          /\ x10 = 0 /\ x11 = 0 /\ x12 = 0 /\ x13 = 0 /\ x14 = 0 /\ x15 = 0 /\ x16 = 0 /\ x17 = 0
       \/ part = "process" /\ Rest /\ Process!Init
       \/ part = "server" /\ Rest /\ Server!Init /\ x16 = 0 /\ x17 = 0
       \/ part = "socket" /\ Rest /\ Socket!Init
       \/ part = "reader" /\ Rest /\ Reader!Init /\ x13 = 0 /\ x14 = 0 /\ x15 = 0 /\ x16 = 0 /\ x17 = 0
       \/ /\ part = "command" /\ Rest /\ Command!Init
          /\ x9 = 0 /\ x10 = 0 /\ x11 = 0 /\ x12 = 0 /\ x13 = 0 /\ x14 = 0 /\ x15 = 0 /\ x16 = 0 /\ x17 = 0

InSinks(A) == part = "sinks" /\ A /\ UNCHANGED <<part, xs>>
InProcess(A) == part = "process" /\ A /\ UNCHANGED <<part, vars>>
SinksNext == InSinks(Next)
ProcessNext == InProcess(Process!Next)
ServerNext == part = "server" /\ Server!Next /\ UNCHANGED <<part, vars, x16, x17>>
SocketNext == part = "socket" /\ Socket!Next /\ UNCHANGED <<part, vars>>
ReaderNext == part = "reader" /\ Reader!Next /\ UNCHANGED <<part, vars, x13, x14, x15, x16, x17>>
CommandNext ==
    part = "command" /\ Command!Next
    /\ UNCHANGED <<part, vars, x9, x10, x11, x12, x13, x14, x15, x16, x17>>
(* The inputs of these parts are bounded: at their end they stop.          *)
all == <<part, vars, xs>>
Finished == part \in {"server", "socket", "reader", "command"} /\ UNCHANGED all

PartNext ==
    \/ SinksNext \/ ProcessNext \/ ServerNext \/ SocketNext \/ ReaderNext \/ CommandNext
    \/ Finished

(* The fairness of EventEpoch and of Runtime; the others have none.  The   *)
(* threads of EventEpoch listen now and then: in this state they can do    *)
(* nothing else.                                                           *)
PartFairness ==
    /\ \A t \in Threads :
        WF_all(InSinks(Run(t))) /\ []<>(part = "sinks" => pc[t] = "work" /\ tasks[t] = <<>>)
    /\ WF_all(InProcess(~x17 /\ Process!MainStep)) /\ WF_all(InProcess(~x17 /\ Process!Handler))
    /\ \A t \in 0 .. 2 :
        WF_all(InProcess(~x17 /\ x6 # <<>> /\ t \in Process!Threads /\ Process!ThreadStep(t)))

PartSpec == PartInit /\ [][PartNext]_all /\ PartFairness

-----------------------------------------------------------------------------
(* Every closed sink is destroyed at last: mm_event_epoch_advance.         *)
ClosedSinksDestroyed == part = "sinks" => ClosedDestroyed

(* Loops run and resources go only while they may, from the first thread   *)
(* to the last: mm_regular_boot, mm_start and the barrier.                 *)
BootOrdered == part = "process" => Process!BootOrdered

(* A stop request that found all threads booted ends the process: mm_stop. *)
StopEnds == (part = "process" /\ Process!StopAsked) ~> (part = "process" /\ Process!Over)


(* No fiber waits on a socket that is ready: mm_net_read, _write and the   *)
(* triggers of the event backend.                                          *)
NoMissedReadiness == part = "socket" => Socket!NoMissedReadiness

(* The commands found do not depend on how the bytes come: parser.c and    *)
(* binary.c over the segments of the receive buffer.                       *)
SplitIndependent == part = "reader" => Reader!SplitIndependent

(* Commands that run together leave what some order of them leaves and     *)
(* answer accordingly: the execute routines of command.c.                  *)
CommandsExact == part = "command" => Command!CommandsExact
=============================================================================
