------------------------------ MODULE Logging ------------------------------
(***************************************************************************)
(* The log: threads of the server send to a POSIX message queue            *)
(* (server/logging_helpers.c), the logging service takes the messages from *)
(* it and appends them to server.log (logging/main.c).                     *)
(*                                                                         *)
(* The service ends only on the text MSGEND, which nobody sends: every     *)
(* message begins with its kind.  So a service outlives a server that is   *)
(* killed, and so does the queue, which is never unlinked.  The next       *)
(* server starts one more service, which empties the file.                 *)
(***************************************************************************)
EXTENDS Integers, Sequences, SequencesExt, FiniteSets

CONSTANTS
  Threads,      \* the threads that log, of the master and of the workers
  MAX_MSG,      \* messages that fit in the queue
  MaxMessages,  \* bound: calls of log_mq
  MaxStarts     \* bound: starts of the server

ASSUME LoggingAssumption ==
  MAX_MSG \in Nat \ {0} /\ MaxMessages \in Nat /\ MaxStarts \in Nat

Services == 1 .. MaxStarts
Messages == 1 .. MaxMessages
None == 0

VARIABLES
  server,    \* off, forked (inside sleep), up, failed
  starts,    \* starts of the server so far
  exists,    \* "yes" once the queue has been created
  queue,     \* the messages in it
  pc,        \* per thread: idle, send, or toolong: send a text that is
  posting,   \* per thread: the message it sends
  calls,     \* calls of log_mq so far
  service,   \* per service: none, create, truncate, read, append, ended
  buff,      \* per service: the message it has taken
  log,       \* server.log
  \* history
  accepted,  \* messages that mq_send has taken, in that order
  lost,      \* messages taken by a service that was killed, or truncated away
  rival,     \* "yes" once two services were alive at the same time
  unserved   \* "yes" once a service was killed or could not be started

callers == <<pc, posting, calls>>
services == <<service, buff, log, lost>>
vars == <<server, starts, exists, queue, callers, services, accepted, rival, unserved>>

Alive(s) == service[s] \notin {"none", "ended"}

Init ==
  /\ server = "off" /\ starts = 0
  /\ exists = "no" /\ queue = << >>
  /\ pc = [t \in Threads |-> "idle"] /\ posting = [t \in Threads |-> None] /\ calls = 0
  /\ service = [s \in Services |-> "none"] /\ buff = [s \in Services |-> None]
  /\ log = << >>
  /\ accepted = << >> /\ lost = {} /\ rival = "no" /\ unserved = "no"

-----------------------------------------------------------------------------
(* The server.                                                             *)

StartServer ==
  /\ server \in {"off", "failed"} /\ starts < MaxStarts
  /\ starts' = starts + 1
  /\ server' = "forked"
  /\ UNCHANGED <<exists, queue, callers, buff, log, lost, accepted>>

init_logging_server ==
  /\ StartServer
  /\ service' = [service EXCEPT ![starts'] = "create"]
  /\ rival' = IF \E s \in Services : Alive(s) THEN "yes" ELSE rival
  /\ UNCHANGED unserved

\* The server goes on without a service.
fork_fails ==
  /\ StartServer
  /\ unserved' = "yes"
  /\ UNCHANGED <<service, rival>>

\* The server does not wait for its service, it sleeps a second.
init_mq ==
  /\ server = "forked"
  /\ server' = IF exists = "yes" THEN "up" ELSE "failed"
  /\ UNCHANGED <<starts, exists, queue, callers, services, accepted, rival, unserved>>

log_call(t) ==
  /\ server = "up" /\ pc[t] = "idle" /\ calls < MaxMessages
  /\ calls' = calls + 1
  /\ \E size \in {"send", "toolong"} : pc' = [pc EXCEPT ![t] = size]
  /\ posting' = [posting EXCEPT ![t] = calls']
  /\ UNCHANGED <<server, starts, exists, queue, services, accepted, rival, unserved>>

Returns(t) ==
  /\ pc' = [pc EXCEPT ![t] = "idle"]
  /\ posting' = [posting EXCEPT ![t] = None]
  /\ UNCHANGED <<server, starts, exists, calls, services, rival, unserved>>

\* Mutants: one message too many; the message goes before the others, as with
\* another priority.
mq_send_late(t) ==
  /\ pc[t] = "send" /\ Len(queue) <= MAX_MSG
  /\ queue' = Append(queue, posting[t])
  /\ accepted' = Append(accepted, posting[t])
  /\ Returns(t)
mq_send_urgent(t) ==
  /\ pc[t] = "send" /\ Len(queue) < MAX_MSG
  /\ queue' = <<posting[t]>> \o queue
  /\ accepted' = Append(accepted, posting[t])
  /\ Returns(t)

\* It waits while the queue is full.
mq_send(t) ==
  /\ pc[t] = "send" /\ Len(queue) < MAX_MSG
  /\ queue' = Append(queue, posting[t])
  /\ accepted' = Append(accepted, posting[t])
  /\ Returns(t)

\* Longer than MSG_MAX_SIZE: reported on the screen and dropped.
mq_send_fails(t) ==
  /\ pc[t] = "toolong"
  /\ Returns(t)
  /\ UNCHANGED <<queue, accepted>>

log_mq(t) == mq_send(t) \/ mq_send_fails(t)

StopThreads ==
  /\ server' = "off"
  /\ pc' = [t \in Threads |-> "idle"] /\ posting' = [t \in Threads |-> None]
  /\ UNCHANGED <<starts, exists, queue, calls, log, accepted, rival>>

\* The server alone is killed; services stay.
ServerKilled ==
  /\ server \in {"forked", "up"}
  /\ StopThreads
  /\ UNCHANGED <<service, buff, lost, unserved>>

Taken == {buff[s] : s \in Services} \ {None}

\* Ctrl-C reaches the whole group of processes.
Interrupt ==
  /\ server \in {"forked", "up"}
  /\ StopThreads
  /\ service' = [s \in Services |-> IF Alive(s) THEN "ended" ELSE service[s]]
  /\ buff' = [s \in Services |-> None]
  /\ lost' = lost \cup Taken
  /\ unserved' = "yes"

-----------------------------------------------------------------------------
(* The logging service.                                                    *)

Service(s, from, to) == service[s] = from /\ service' = [service EXCEPT ![s] = to]

\* A queue that is there is opened as it is.
create_mq(s) ==
  /\ Service(s, "create", "truncate")
  /\ exists' = "yes"
  /\ UNCHANGED <<server, starts, queue, callers, buff, log, lost, accepted, rival, unserved>>

\* fopen(..., "wt")
Truncate(s) ==
  /\ Service(s, "truncate", "read")
  /\ log' = << >> /\ lost' = lost \cup Range(log)
  /\ UNCHANGED <<server, starts, exists, queue, callers, buff, accepted, rival, unserved>>

\* Mutant: a receive that fails does not end the service, which then has the
\* message before in its buffer.
read_mq_unchecked(s) ==
  /\ Service(s, "read", "append")
  /\ \/ /\ queue # << >>
        /\ buff' = [buff EXCEPT ![s] = Head(queue)]
        /\ queue' = Tail(queue)
     \/ /\ log # << >>
        /\ buff' = [buff EXCEPT ![s] = log[Len(log)]]
        /\ UNCHANGED queue
  /\ UNCHANGED <<server, starts, exists, callers, log, lost, accepted, rival, unserved>>

read_mq(s) ==
  /\ queue # << >>
  /\ Service(s, "read", "append")
  /\ buff' = [buff EXCEPT ![s] = Head(queue)]
  /\ queue' = Tail(queue)
  /\ UNCHANGED <<server, starts, exists, callers, log, lost, accepted, rival, unserved>>

\* Mutants: every message ends the service; the file is opened with "w".
AppendAndEnd(s) ==
  /\ Service(s, "append", "ended")
  /\ log' = Append(log, buff[s])
  /\ buff' = [buff EXCEPT ![s] = None]
  /\ UNCHANGED <<server, starts, exists, queue, callers, lost, accepted, rival, unserved>>
AppendToNothing(s) ==
  /\ Service(s, "append", "read")
  /\ log' = <<buff[s]>>
  /\ buff' = [buff EXCEPT ![s] = None]
  /\ UNCHANGED <<server, starts, exists, queue, callers, lost, accepted, rival, unserved>>

\* fopen(..., "a+t"), fputs, fclose: one write at the end of the file.
AppendToLog(s) ==
  /\ Service(s, "append", "read")
  /\ log' = Append(log, buff[s])
  /\ buff' = [buff EXCEPT ![s] = None]
  /\ UNCHANGED <<server, starts, exists, queue, callers, lost, accepted, rival, unserved>>

ServiceKilled(s) ==
  /\ Alive(s)
  /\ service' = [service EXCEPT ![s] = "ended"]
  /\ buff' = [buff EXCEPT ![s] = None]
  /\ lost' = lost \cup ({buff[s]} \ {None})
  /\ unserved' = "yes"
  /\ UNCHANGED <<server, starts, exists, queue, callers, log, accepted, rival>>

ServiceMain(s) == create_mq(s) \/ Truncate(s) \/ read_mq(s) \/ AppendToLog(s)

-----------------------------------------------------------------------------
Next ==
  \/ init_logging_server \/ fork_fails \/ init_mq
  \/ \E t \in Threads : log_call(t) \/ log_mq(t)
  \/ ServerKilled \/ Interrupt
  \/ \E s \in Services : ServiceMain(s) \/ ServiceKilled(s)

Spec == Init /\ [][Next]_vars

\* Threads inside log_mq and the services are scheduled.
FairSpec ==
  /\ Spec
  /\ \A t \in Threads : WF_vars(log_mq(t))
  /\ \A s \in Services : WF_vars(ServiceMain(s))

-----------------------------------------------------------------------------
(* Properties.                                                             *)

\* Types; the queue keeps its limit.
TypeOK ==
  /\ server \in {"off", "forked", "up", "failed"}
  /\ starts \in 0 .. MaxStarts /\ calls \in 0 .. MaxMessages
  /\ exists \in {"yes", "no"}
  /\ queue \in Seq(Messages) /\ Len(queue) <= MAX_MSG
  /\ \A t \in Threads : IF pc[t] = "idle" THEN posting[t] = None
                        ELSE pc[t] \in {"send", "toolong"} /\ posting[t] \in Messages
  /\ \A s \in Services :
       /\ service[s] \in {"none", "create", "truncate", "read", "append", "ended"}
       /\ IF service[s] = "append" THEN buff[s] \in Messages ELSE buff[s] = None
  /\ log \in Seq(Messages) /\ accepted \in Seq(Messages)
  /\ lost \subseteq Messages
  /\ rival \in {"yes", "no"} /\ unserved \in {"yes", "no"}

\* A message that the queue has taken is in one place: in the queue, with one
\* service, once in the log, or lost with a killed service or an older log.
\* It is so with several services too, which share the queue
\* (logging/main.c 28-48).
OnePlace ==
  LET places == log \o queue
  IN  /\ IsInjective(places)
      /\ \A s, u \in Services : buff[s] = buff[u] /\ buff[s] # None => s = u
      /\ Range(places) \cap (Taken \cup lost) = {} /\ Taken \cap lost = {}
      /\ Range(accepted) = Range(places) \cup Taken \cup lost

\* No element of x is ahead of one that is ahead of it in y.
InOrderOf(x, y) ==
  \A i, j \in DOMAIN x, a, b \in DOMAIN y :
    i < j /\ x[i] = y[a] /\ x[j] = y[b] => a < b

\* As long as there was one service at a time, the log continued by what is on
\* its way is what was sent, in that order, but for what was lost
\* (logging/main.c 28-48).
LogInOrder ==
  rival = "no" =>
    LET held == IF Taken = {} THEN << >> ELSE <<CHOOSE m \in Taken : TRUE>>
        onTheWay == log \o held \o queue
    IN  /\ Range(onTheWay) = Range(accepted) \ lost
        /\ InOrderOf(onTheWay, accepted)

\* A thread that logs goes on, however full the queue is, unless a service was
\* killed or never started (logging_helpers.c 52, 58-75).
SendReturns ==
  \A t \in Threads : pc[t] # "idle" ~> pc[t] = "idle" \/ unserved = "yes"

\* What the queue has taken is written to the log, also after the server has
\* ended; a later start of the server may empty the log again.
Logged ==
  \A m \in Messages :
    m \in Range(accepted) ~> m \in Range(log) \cup lost \/ unserved = "yes"
=============================================================================
