----------------------------- MODULE CommandFile -----------------------------
(***************************************************************************)
(* The way of external commands into Nagios (base/commands.c): clients     *)
(* write lines into a named pipe, the command file worker, a process of    *)
(* its own, copies what it reads to a socket, and the master takes the     *)
(* lines from its buffer.  A worker that died is replaced when Nagios is   *)
(* restarted.                                                              *)
(*                                                                         *)
(* Lines are short enough to be written at once (PIPE_BUF).  The worker is *)
(* sent no signal that it survives.                                        *)
(***************************************************************************)
EXTENDS IOCache, FiniteSets

CONSTANTS
    Lines,          \* what is written: sequences of bytes that end in Newline
    Newline,
    WorkerSize,     \* the sizes of the buffers at first
    MasterSize,
    PipeSize,       \* bound: bytes in the pipe
    SocketSize,     \* bound: bytes in the socket
    MaxBytes,       \* bound: bytes processed and on the way
    MaxDeaths       \* bound: deaths of the worker

Bytes == UNION {{line[i] : i \in DOMAIN line} : line \in Lines}

ASSUME CommandConstants ==
    /\ Lines \subseteq Seq(Bytes)
    /\ {WorkerSize, MasterSize} \subseteq Nat \ {0} /\ {SocketSize, MaxDeaths} \subseteq Nat

VARIABLES
    fifo,           \* the command file
    ends,           \* the processes that hold the worker's end of the socket, sv[1]
    worker_ioc,     \* the worker's buffer; what is not used yet is still to be written
    socket,         \* the bytes in the registered sockets, in the order they are read
    master_ioc,     \* command_worker.ioc
    processed,      \* history: the bytes of the lines that were processed
    deaths,         \* history: how often a worker died and was replaced
    relaunches

vars == <<fifo, ends, worker_ioc, socket, master_ioc, processed, deaths, relaunches>>

Processes == {"master", "worker"}

alive == "worker" \in ends

\* launch_command_file_worker: socketpair and fork.  The master keeps both ends.
Launched == Processes

Init ==
    /\ fifo = <<>> /\ socket = <<>> /\ processed = <<>>
    /\ ends = Launched
    /\ worker_ioc = iocache_create(WorkerSize)
    /\ master_ioc = iocache_create(MasterSize)
    /\ deaths = 0 /\ relaunches = 0

OnTheWay == Contents(master_ioc) \o socket \o Contents(worker_ioc) \o fifo

\* A client, which finds no reader when there is no worker.
Submit(line) ==
    /\ alive
    /\ Len(fifo) + Len(line) <= PipeSize
    /\ Len(processed) + Len(OnTheWay) + Len(line) <= MaxBytes
    /\ fifo' = fifo \o line
    /\ UNCHANGED <<ends, worker_ioc, socket, master_ioc, processed, deaths, relaunches>>

\* Mutation of WorkerReads: it reads although not all is written.
ReadsOn ==
    /\ alive /\ fifo # <<>>
    /\ worker_ioc' = iocache_read(iocache_create(WorkerSize), fifo)
    /\ fifo' = SubSeq(fifo, Taken(iocache_create(WorkerSize), fifo) + 1, Len(fifo))
    /\ UNCHANGED <<ends, socket, master_ioc, processed, deaths, relaunches>>

\* command_file_worker: poll and iocache_read, when all is written.
WorkerReads ==
    /\ alive /\ fifo # <<>> /\ Available(worker_ioc) = 0
    /\ worker_ioc' = iocache_read(worker_ioc, fifo)
    /\ fifo' = SubSeq(fifo, Taken(worker_ioc, fifo) + 1, Len(fifo))
    /\ UNCHANGED <<ends, socket, master_ioc, processed, deaths, relaunches>>

\* command_file_worker: write, which waits until there is room, and sends n bytes
\* at a time.
WorkerWrites(n) ==
    /\ alive /\ n <= Available(worker_ioc) /\ Len(socket) + n <= SocketSize
    /\ socket' = socket \o SubSeq(Contents(worker_ioc), 1, n)
    /\ worker_ioc' = iocache_use_size(worker_ioc, n)
    /\ UNCHANGED <<fifo, ends, master_ioc, processed, deaths, relaunches>>

\* The pipe keeps what is in it only while some client has it open.
WorkerDies ==
    /\ alive /\ deaths < MaxDeaths
    /\ ends' = ends \ {"worker"}
    /\ worker_ioc' = iocache_create(WorkerSize)
    /\ fifo' \in {<<>>, fifo}
    /\ deaths' = deaths + 1
    /\ UNCHANGED <<socket, master_ioc, processed, relaunches>>

\* A turn of the loop of command_input_handler: iocache_use_delim, which finds a
\* line, and process_external_command1.
OneLine(st) ==
    [ioc |-> iocache_use_delim(st.ioc, <<Newline>>),
     done |-> st.done \o UsedByDelim(st.ioc, <<Newline>>) \o <<Newline>>]

Newlines(ioc) == {i \in ioc.offset + 1 .. Len(ioc.buf) : ioc.buf[i] = Newline}

\* The loop, until no line is found: a turn for each newline.
AllLines(ioc, done) ==
    LET after[n \in 0..Cardinality(Newlines(ioc))] ==
            IF n = 0 THEN [ioc |-> ioc, done |-> done] ELSE OneLine(after[n - 1])
    IN after[Cardinality(Newlines(ioc))]

\* launch_command_file_worker for a worker that is gone: a new pair of sockets, a
\* new buffer and a new process.
Relaunched ==
    /\ ends' = Launched
    /\ master_ioc' = iocache_create(MasterSize)
    /\ relaunches' = relaunches + 1
    /\ UNCHANGED <<fifo, worker_ioc, socket, processed, deaths>>

\* Mutation of MasterReads: only the first line of what was read is processed.
OneLineOnly ==
    /\ socket # <<>>
    /\ LET read == iocache_read(master_ioc, socket)
       IN IF DelimAt(read, <<Newline>>) = 0 THEN master_ioc' = read /\ UNCHANGED processed
          ELSE /\ master_ioc' = iocache_use_delim(read, <<Newline>>)
               /\ processed' = processed \o UsedByDelim(read, <<Newline>>) \o <<Newline>>
    /\ socket' = SubSeq(socket, Taken(master_ioc, socket) + 1, Len(socket))
    /\ UNCHANGED <<fifo, ends, worker_ioc, deaths, relaunches>>

\* command_input_handler, which the event loop calls when there is something to
\* read or no process is left that could write.  Of nothing read it concludes that
\* the worker died.
MasterReads ==
    LET after == AllLines(iocache_read(master_ioc, socket), processed)
    IN /\ socket # <<>> \/ ends = {}
       /\ IF socket = <<>> THEN Relaunched
          ELSE /\ socket' = SubSeq(socket, Taken(master_ioc, socket) + 1, Len(socket))
               /\ master_ioc' = after.ioc /\ processed' = after.done
               /\ UNCHANGED <<fifo, ends, worker_ioc, deaths, relaunches>>

\* main at SIGHUP: free_worker_memory, waitpid and launch_command_file_worker, which
\* keeps a worker that is alive.  The old socket stays registered: what is in it is
\* read before what the new worker writes, into the new buffer.
Restart == ~alive /\ Relaunched

WorkerStep == WorkerReads \/ \E n \in 1..SocketSize : WorkerWrites(n)

Next ==
    \/ \E line \in Lines : Submit(line)
    \/ WorkerStep
    \/ WorkerDies
    \/ MasterReads
    \/ Restart

Spec == Init /\ [][Next]_vars

\* Both processes go on when there is something to read and room to write.
FairSpec == Spec /\ WF_vars(WorkerStep) /\ WF_vars(MasterReads)

-----------------------------------------------------------------------------
\* Properties.

Caches == [buf : Seq(Bytes), offset : Nat, bufsize : Nat \ {0}]

\* Every variable has its type; a buffer is within its memory and used no further
\* than it is filled, and between two calls of the handler (command_input_handler)
\* no whole line is left in its buffer.
TypeOK ==
    /\ fifo \in Seq(Bytes) /\ socket \in Seq(Bytes) /\ processed \in Seq(Bytes)
    /\ ends \subseteq Processes /\ deaths \in 0..MaxDeaths /\ relaunches \in 0..deaths
    /\ \A ioc \in {worker_ioc, master_ioc} :
           /\ ioc \in Caches
           /\ ioc.offset <= Len(ioc.buf) /\ Len(ioc.buf) <= ioc.bufsize
    /\ DelimAt(master_ioc, <<Newline>>) = 0

Contract == INSTANCE CommandContract WITH stream <- OnTheWay, failures <- deaths + relaunches

\* The command file keeps its contract through reads and writes of any size and
\* the growth and the shifting of both buffers: no byte is lost, repeated or out
\* of order (command_file_worker, command_input_handler, iocache_read), except one
\* stretch when the worker dies and one when it is replaced.
ImplementsContract == Contract!Spec

WholeLineOnTheWay == \E i \in DOMAIN OnTheWay : OnTheWay[i] = Newline

\* While there is a worker every line that was written is processed in the end,
\* wherever reads and writes cut it (command_file_worker, command_input_handler).
CommandsArrive == []<>(alive => ~WholeLineOnTheWay)

\* "Command file worker seems to have died. Respawning": a worker that died is
\* replaced (command_input_handler).
DeadWorkerIsReplaced == ~alive ~> alive
=============================================================================
