----------------------------- MODULE Handshake -----------------------------
(***************************************************************************)
(* Opening and closing a connection over named FIFOs: connection_open and  *)
(* connection_close (comm.connection.fifo.c), comm_listen and comm_accept  *)
(* (comm.read.fifo.c) and the master loop that forks a worker per          *)
(* connection (server/main.c).                                             *)
(*                                                                         *)
(* A FIFO is a path and a pipe.  open blocks until somebody opens the      *)
(* other end; a pipe lives on after its path is unlinked and loses its     *)
(* data when both ends are closed.  A worker inherits the ends of its      *)
(* connection and the master never closes its copies: Forked stands for    *)
(* the workers, who keep the ends of accepted connections.                 *)
(*                                                                         *)
(* A url is its text and its terminator.  Two clients may write into the   *)
(* server's FIFO one between the other: then the texts run together, which *)
(* stands for texts mixed byte by byte as well, and the terminator that is *)
(* left over stands for whatever else is: neither is an address, and the   *)
(* loop of the master ends on it.                                          *)
(***************************************************************************)
EXTENDS Integers, Sequences, FiniteSets

CONSTANTS
  Clients,      \* client processes
  Name,         \* Name[c]: the name client c runs under
  MaxStarts,    \* bound: how often a process is started
  Mortal,       \* the processes that may be killed
  MaxFiles,     \* the descriptors that the master may have for connections
  ForkMayFail,  \* may the system refuse to fork?
  Orderly       \* is the server started once, and do users open one connection
                \* at a time, when the server is done with the one before and
                \* with its worker of that name?

Master == "master"
Procs == Clients \cup {Master}
Forked == "forked"
Holders == Procs \cup {Forked}
Names == {Name[c] : c \in Clients}
Zero == "zero"
Nobody == "nobody"

\* No name is the terminator of a url or the text that is nobody's.
ASSUME HandshakeAssumption ==
  /\ IsFiniteSet(Clients)
  /\ MaxStarts \in Nat \ {0}
  /\ Mortal \subseteq Procs
  /\ MaxFiles \in Nat \ {0}
  /\ ForkMayFail \in BOOLEAN /\ Orderly \in BOOLEAN
  /\ DOMAIN Name = Clients
  /\ Master \notin Clients /\ Forked \notin Clients
  /\ Zero \notin Names /\ Nobody \notin Names

\* A client creates one FIFO each time it is started, the master one for it.
MaxPipes == 1 + 2 * MaxStarts * Cardinality(Clients)
Pipe == 1 .. MaxPipes
In == 1                                \* the pipe of $SRV.in.fifo
Absent == 0

Request(n) == <<"request", n>>         \* $CLI.$SRV.fifo
Response(n) == <<"response", n>>       \* $SRV.$CLI.fifo
Paths == {Request(n) : n \in Names} \cup {Response(n) : n \in Names}

VARIABLES
  pc,        \* per process: its next step
  blocked,   \* per process: the pipe it is blocked opening, or Absent
  res, req,  \* per process: the pipe of its response and request FIFO
  listening, \* does $SRV.in.fifo exist?
  fs,        \* per path: its pipe, or Absent
  npipes,    \* pipes created so far
  rd, wr,    \* per pipe: the holders of its read or write end
  data,      \* per pipe: what is in it
  url,       \* master: the texts it read as one url
  workers,   \* per name: workers that have not begun to close
  closing,   \* per name: workers between the two unlinks of connection_close
  kept,      \* master: descriptors it keeps of the connections it has forked
  starts     \* per process: how often it was started

files == <<listening, fs, npipes>>
ends == <<rd, wr, data>>
fds == <<res, req>>
children == <<workers, closing, kept>>
vars == <<pc, blocked, fds, files, ends, url, children, starts>>

Init ==
  /\ pc = [p \in Procs |-> IF p = Master THEN "listen" ELSE "prompt"]
  /\ blocked = [p \in Procs |-> Absent]
  /\ res = [p \in Procs |-> Absent] /\ req = [p \in Procs |-> Absent]
  /\ listening = FALSE
  /\ fs = [f \in Paths |-> Absent]
  /\ npipes = 1
  /\ rd = [i \in Pipe |-> {}] /\ wr = [i \in Pipe |-> {}]
  /\ data = [i \in Pipe |-> <<>>]
  /\ url = <<>>
  /\ workers = [n \in Names |-> 0] /\ closing = [n \in Names |-> 0]
  /\ kept = 0
  /\ starts = [p \in Procs |-> 1]

-----------------------------------------------------------------------------
(* FIFOs.                                                                  *)

Runs(p, step) == pc[p] = step /\ blocked[p] = Absent
Goto(p, step) == pc' = [pc EXCEPT ![p] = step]

mkfifo(f) ==
  /\ fs[f] = Absent
  /\ fs' = [fs EXCEPT ![f] = npipes + 1]
  /\ npipes' = npipes + 1

unlink(f) == fs' = [fs EXCEPT ![f] = Absent]

\* p blocks while nobody has the other end of pipe i, and wakes those who are
\* blocked there.
Open(p, i, others) ==
  blocked' = [q \in Procs |->
    IF q = p THEN (IF others = {} THEN i ELSE Absent)
    ELSE IF q \in others /\ blocked[q] = i THEN Absent ELSE blocked[q]]

OpenRead(p, i) ==
  /\ Open(p, i, wr[i])
  /\ rd' = [rd EXCEPT ![i] = @ \cup {p}]
  /\ UNCHANGED <<wr, data>>

OpenWrite(p, i) ==
  /\ Open(p, i, rd[i])
  /\ wr' = [wr EXCEPT ![i] = @ \cup {p}]
  /\ UNCHANGED <<rd, data>>

\* p closes its ends of the pipes in S; what nobody has open is lost.
Close(p, S) ==
  /\ rd' = [i \in Pipe |-> IF i \in S THEN rd[i] \ {p} ELSE rd[i]]
  /\ wr' = [i \in Pipe |-> IF i \in S THEN wr[i] \ {p} ELSE wr[i]]
  /\ data' = [i \in Pipe |-> IF rd'[i] \cup wr'[i] = {} THEN <<>> ELSE data[i]]

Write(i, token) ==
  /\ data' = [data EXCEPT ![i] = Append(@, token)]
  /\ UNCHANGED <<rd, wr>>

\* read would not block: there is data, or no writer (end of file).
Readable(i) == data[i] # <<>> \/ wr[i] = {}

\* What read leaves in the zeroed buffer: at the end of file, a terminator.
Next1(i) == IF data[i] = <<>> THEN Zero ELSE Head(data[i])
Take(i) ==
  /\ data' = [data EXCEPT ![i] = IF @ = <<>> THEN @ ELSE Tail(@)]
  /\ UNCHANGED <<rd, wr>>

\* The process ends: by itself, by a signal or by abort.
Held(p) == IF p = Master THEN {In, res[p], req[p]} ELSE Pipe
Ends(p) ==
  /\ Goto(p, "exited")
  /\ blocked' = [blocked EXCEPT ![p] = Absent]
  /\ Close(p, Held(p))
  /\ res' = [res EXCEPT ![p] = Absent] /\ req' = [req EXCEPT ![p] = Absent]

-----------------------------------------------------------------------------
(* A client: cmd_open and connection_open.  Any error leaves the           *)
(* connection closed, which ends the program.                              *)

MayOpen(c) ==
  Orderly =>
    /\ \A d \in Clients \ {c} : pc[d] \in {"prompt", "exited", "open"}
    /\ pc[Master] \in {"listen", "accept", "url", "exited"}
    /\ workers[Name[c]] + closing[Name[c]] = 0

\* Mutant: an existing response FIFO is taken over.
TakeOverResponse(c) ==
  /\ Runs(c, "prompt") /\ MayOpen(c)
  /\ IF fs[Response(Name[c])] = Absent THEN mkfifo(Response(Name[c])) ELSE UNCHANGED <<fs, npipes>>
  /\ Goto(c, "connect")
  /\ UNCHANGED <<blocked, fds, listening, ends, url, children, starts>>

CreateResponse(c) ==
  /\ Runs(c, "prompt") /\ MayOpen(c)
  /\ \/ /\ mkfifo(Response(Name[c]))
        /\ Goto(c, "connect")
        /\ UNCHANGED <<blocked, fds, listening, ends>>
     \/ /\ fs[Response(Name[c])] # Absent
        /\ Ends(c)
        /\ UNCHANGED files
  /\ UNCHANGED <<url, children, starts>>

\* exists and open; the server's FIFO is never removed.
Connect(c) ==
  /\ Runs(c, "connect")
  /\ IF listening
     THEN OpenWrite(c, In) /\ Goto(c, "text") /\ UNCHANGED fds
     ELSE Ends(c)                                     \* ERR_SERVER_OFFLINE
  /\ UNCHANGED <<files, url, children, starts>>

\* A write into a pipe without a reader is SIGPIPE.
Send(p, i, token, next) ==
  IF rd[i] = {} THEN Ends(p)
  ELSE Write(i, token) /\ Goto(p, next) /\ UNCHANGED <<blocked, fds>>

WriteUrl(c) ==
  /\ \/ Runs(c, "text") /\ Send(c, In, Name[c], "zero")
     \/ Runs(c, "zero") /\ Send(c, In, Zero, "hangup")
  /\ UNCHANGED <<files, url, children, starts>>

\* Mutant: the connection file stays open.
NoHangUp(c) ==
  /\ Runs(c, "hangup")
  /\ Goto(c, "response")
  /\ UNCHANGED <<blocked, fds, files, ends, url, children, starts>>

HangUp(c) ==
  /\ Runs(c, "hangup")
  /\ Close(c, {In})
  /\ Goto(c, "response")
  /\ UNCHANGED <<blocked, fds, files, url, children, starts>>

\* Mutant: the request FIFO is opened first.
OpenRequestFirst(c) ==
  /\ Runs(c, "response")
  /\ LET i == fs[Request(Name[c])]
     IN  IF i = Absent THEN Ends(c)
         ELSE /\ OpenWrite(c, i) /\ Goto(c, "ack")
              /\ req' = [req EXCEPT ![c] = i] /\ UNCHANGED res
  /\ UNCHANGED <<files, url, children, starts>>

OpenResponse(c) ==
  /\ Runs(c, "response")
  /\ LET i == fs[Response(Name[c])]
     IN  IF i = Absent THEN Ends(c)
         ELSE /\ OpenRead(c, i) /\ Goto(c, "echo")
              /\ res' = [res EXCEPT ![c] = i] /\ UNCHANGED req
  /\ UNCHANGED <<files, url, children, starts>>

ReadEcho(c) ==
  /\ Runs(c, "echo") /\ Readable(res[c])
  /\ IF Next1(res[c]) = Name[c]
     THEN Take(res[c]) /\ Goto(c, "request") /\ UNCHANGED <<blocked, fds>>
     ELSE Ends(c)                                     \* ERR_CORRUPT_DATA
  /\ UNCHANGED <<files, url, children, starts>>

OpenRequest(c) ==
  /\ Runs(c, "request")
  /\ LET i == fs[Request(Name[c])]
     IN  IF i = Absent THEN Ends(c)
         ELSE /\ OpenWrite(c, i) /\ Goto(c, "ack")
              /\ req' = [req EXCEPT ![c] = i] /\ UNCHANGED res
  /\ UNCHANGED <<files, url, children, starts>>

WriteAck(c) ==
  /\ Runs(c, "ack")
  /\ Send(c, req[c], Name[c], "open")
  /\ UNCHANGED <<files, url, children, starts>>

connection_open(c) ==
  \/ Connect(c) \/ WriteUrl(c) \/ HangUp(c)
  \/ OpenResponse(c) \/ ReadEcho(c) \/ OpenRequest(c) \/ WriteAck(c)

\* connection_close after the close command, and the end of the program.
ClientCloses(c) ==
  /\ Runs(c, "open")
  /\ Close(c, {req[c]})
  /\ unlink(Request(Name[c]))
  /\ Goto(c, "unlink")
  /\ UNCHANGED <<blocked, fds, listening, npipes, url, children, starts>>

ClientUnlinks(c) ==
  /\ Runs(c, "unlink")
  /\ unlink(Response(Name[c]))
  /\ Ends(c)
  /\ UNCHANGED <<listening, npipes, url, children, starts>>

-----------------------------------------------------------------------------
(* The master: comm_listen, comm_accept and the loop around them, which    *)
(* ends at the first error.                                                *)

comm_listen ==
  /\ Runs(Master, "listen")
  /\ listening' = TRUE
  /\ Goto(Master, "accept")
  /\ UNCHANGED <<blocked, fds, fs, npipes, ends, url, children, starts>>

\* The master closes nothing of a connection it has forked, so that its open
\* fails in the end.
MayHave(n) == kept + n <= MaxFiles

OpenConnectionFile ==
  /\ Runs(Master, "accept")
  /\ IF MayHave(1)
     THEN /\ OpenRead(Master, In)
          /\ url' = <<>>
          /\ Goto(Master, "url")
          /\ UNCHANGED fds
     ELSE Ends(Master) /\ UNCHANGED url
  /\ UNCHANGED <<files, children, starts>>

\* Mutant: the terminator becomes part of the url.
ReadUrlAndTerminator ==
  /\ Runs(Master, "url") /\ Readable(In)
  /\ IF Next1(In) = Zero THEN Goto(Master, "hangup") ELSE UNCHANGED pc
  /\ url' = Append(url, Next1(In))
  /\ Take(In)
  /\ UNCHANGED <<blocked, fds, files, children, starts>>

ReadUrl ==
  /\ Runs(Master, "url") /\ Readable(In)
  /\ IF Next1(In) = Zero
     THEN /\ Goto(Master, "hangup") /\ UNCHANGED url
     ELSE /\ url' = Append(url, Next1(In)) /\ UNCHANGED pc
  /\ Take(In)
  /\ UNCHANGED <<blocked, fds, files, children, starts>>

MasterHangsUp ==
  /\ Runs(Master, "hangup")
  /\ Close(Master, {In})
  /\ Goto(Master, "create")
  /\ UNCHANGED <<blocked, fds, files, url, children, starts>>

\* address_from_url: no text is no address; the host ends at the first colon of
\* the url, so that it is the first one's where texts run together.
Host == IF url = <<>> THEN Nobody ELSE url[1]
Text == IF Len(url) = 1 THEN url[1] ELSE Nobody

\* The host of texts that are mixed may be no client's; then there is no
\* response FIFO to open.
CreateRequest ==
  /\ Runs(Master, "create")
  /\ \/ /\ Host \in Names
        /\ mkfifo(Request(Host))
        /\ Goto(Master, "response")
        /\ UNCHANGED <<blocked, fds, listening, ends>>
     \/ /\ Host \in Names => fs[Request(Host)] # Absent \/ Len(url) > 1
        /\ Ends(Master)
        /\ UNCHANGED files
  /\ UNCHANGED <<url, children, starts>>

\* abort() when the response FIFO is gone.
OpenForEcho ==
  /\ Runs(Master, "response")
  /\ LET i == fs[Response(Host)]
     IN  IF i = Absent \/ ~MayHave(1) THEN Ends(Master)
         ELSE /\ OpenWrite(Master, i) /\ Goto(Master, "echo")
              /\ res' = [res EXCEPT ![Master] = i] /\ UNCHANGED req
  /\ UNCHANGED <<files, url, children, starts>>

WriteEcho ==
  /\ Runs(Master, "echo")
  /\ Send(Master, res[Master], Text, "request")
  /\ UNCHANGED <<files, url, children, starts>>

\* The client may reject a mixed echo, and end, before all of it is written.
WriteRest ==
  /\ Runs(Master, "request") /\ Len(url) > 1
  /\ rd[res[Master]] = {}
  /\ Ends(Master)
  /\ UNCHANGED <<files, url, children, starts>>

OpenForAck ==
  /\ Runs(Master, "request")
  /\ LET i == fs[Request(Host)]
     IN  IF i = Absent \/ ~MayHave(2) THEN Ends(Master)
         ELSE /\ OpenRead(Master, i) /\ Goto(Master, "ack")
              /\ req' = [req EXCEPT ![Master] = i] /\ UNCHANGED res
  /\ UNCHANGED <<files, url, children, starts>>

\* The worker has what the master had open of the connection; abort() when
\* there is none.  The master may be killed before, too.
ForkMayBeMissing == ForkMayFail \/ Master \in Mortal

Fork ==
  \/ /\ rd' = [rd EXCEPT ![req[Master]] = (@ \ {Master}) \cup {Forked}]
     /\ wr' = [wr EXCEPT ![res[Master]] = (@ \ {Master}) \cup {Forked}]
     /\ data' = [data EXCEPT ![req[Master]] = Tail(@)]
     /\ workers' = [workers EXCEPT ![Host] = @ + 1]
     /\ kept' = kept + 2
     /\ Goto(Master, "accept")
  \/ /\ ForkMayBeMissing
     /\ rd' = [rd EXCEPT ![req[Master]] = @ \ {Master}]
     /\ wr' = [wr EXCEPT ![res[Master]] = @ \ {Master}]
     /\ data' = [i \in Pipe |->
          IF rd'[i] \cup wr'[i] = {} THEN <<>>
          ELSE IF i = req[Master] THEN Tail(data[i]) ELSE data[i]]
     /\ Goto(Master, "exited")
     /\ UNCHANGED <<workers, kept>>

\* The acknowledgement, and fork.
ReadAck ==
  /\ Runs(Master, "ack") /\ Readable(req[Master])
  /\ IF Next1(req[Master]) = Text
     THEN /\ Fork
          /\ res' = [res EXCEPT ![Master] = Absent]
          /\ req' = [req EXCEPT ![Master] = Absent]
          /\ UNCHANGED blocked
     ELSE Ends(Master) /\ UNCHANGED <<workers, kept>>
  /\ UNCHANGED <<files, url, closing, starts>>

comm_accept ==
  \/ OpenConnectionFile \/ ReadUrl \/ MasterHangsUp \/ CreateRequest
  \/ OpenForEcho \/ WriteEcho \/ WriteRest \/ OpenForAck \/ ReadAck

MasterSteps == comm_listen \/ comm_accept

\* A worker's connection_close: two unlinks by name, whoever owns the name by
\* then.  The session may end at any time (see Session).
WorkerCloses(n) ==
  /\ workers[n] > 0
  /\ unlink(Request(n))
  /\ workers' = [workers EXCEPT ![n] = @ - 1]
  /\ closing' = [closing EXCEPT ![n] = @ + 1]
  /\ UNCHANGED <<pc, blocked, fds, listening, npipes, ends, url, kept, starts>>

WorkerUnlinks(n) ==
  /\ closing[n] > 0
  /\ unlink(Response(n))
  /\ closing' = [closing EXCEPT ![n] = @ - 1]
  /\ UNCHANGED <<pc, blocked, fds, listening, npipes, ends, url, workers, kept, starts>>

-----------------------------------------------------------------------------
Killed(p) ==
  /\ p \in Mortal /\ pc[p] # "exited"
  /\ Ends(p)
  /\ UNCHANGED <<files, url, children, starts>>

\* The user starts the program again.
Restart(p) ==
  /\ pc[p] = "exited" /\ starts[p] < MaxStarts
  /\ p = Master => ~Orderly
  /\ starts' = [starts EXCEPT ![p] = @ + 1]
  /\ Goto(p, IF p = Master THEN "listen" ELSE "prompt")
  /\ kept' = IF p = Master THEN 0 ELSE kept
  /\ UNCHANGED <<blocked, fds, files, ends, url, workers, closing>>

Next ==
  \/ MasterSteps
  \/ \E c \in Clients :
       CreateResponse(c) \/ connection_open(c) \/ ClientCloses(c) \/ ClientUnlinks(c)
  \/ \E n \in Names : WorkerCloses(n) \/ WorkerUnlinks(n)
  \/ \E p \in Procs : Killed(p) \/ Restart(p)

Spec == Init /\ [][Next]_vars

\* The programs are scheduled; nothing is assumed of users and workers.
FairSpec ==
  Spec /\ WF_vars(MasterSteps) /\ \A c \in Clients : WF_vars(connection_open(c))

-----------------------------------------------------------------------------
(* Properties.                                                             *)

InHandshake(c) == pc[c] \notin {"prompt", "open", "unlink", "exited"}

\* Types; each started client accounts for two FIFOs at most, so the numbers
\* of the pipes stay in bounds.
TypeOK ==
  /\ pc \in [Procs -> {"listen", "accept", "url", "create", "prompt", "connect", "text",
                       "zero", "hangup", "response", "echo", "request", "ack", "open",
                       "unlink", "exited"}]
  /\ blocked \in [Procs -> Pipe \cup {Absent}]
  /\ res \in [Procs -> Pipe \cup {Absent}] /\ req \in [Procs -> Pipe \cup {Absent}]
  /\ listening \in BOOLEAN
  /\ fs \in [Paths -> Pipe \cup {Absent}]
  /\ npipes \in Pipe
  /\ rd \in [Pipe -> SUBSET Holders] /\ wr \in [Pipe -> SUBSET Holders]
  /\ data \in [Pipe -> Seq(Names \cup {Zero, Nobody})] /\ data[In] \in Seq(Names \cup {Zero})
  /\ url \in Seq(Names)
  /\ workers \in [Names -> Nat] /\ closing \in [Names -> Nat]
  /\ kept \in Nat
  /\ starts \in [Procs -> 1 .. MaxStarts]

\* What connection_open establishes: nobody else is on the client's pipes, and
\* once the acknowledgement is read a worker has the other ends of both, or
\* nobody reads the request FIFO because the master ended before it could fork
\* (comm.connection.fifo.c 106-112, comm.read.fifo.c 182-186, main.c 202-211).
Paired ==
  \A c \in Clients : pc[c] = "open" =>
    /\ \A d \in Clients \ {c} : d \notin rd[res[c]] \cup wr[req[c]]
    /\ data[req[c]] = <<>> =>
         \/ Forked \in rd[req[c]] /\ Forked \in wr[res[c]]
         \/ ForkMayBeMissing /\ rd[req[c]] = {}

\* The master goes on accepting: no error ends its loop (main.c 183-193) until
\* the connections it has accepted leave it no descriptors for another.
MasterStaysUp == pc[Master] = "exited" => ~MayHave(2)

\* connection_open returns, with a connection or an error, unless the master has
\* ended.
OpenReturns ==
  \A c \in Clients : InHandshake(c) ~> (~InHandshake(c) \/ pc[Master] = "exited")
=============================================================================
