------------------------------ MODULE Session ------------------------------
(***************************************************************************)
(* One client process and the worker process forked for it, from the       *)
(* moment the connection is open (FIFO build): the client's shell commands *)
(* (client/commands.c), the request and the response pipe                  *)
(* (lib/communication/fifo), the worker's receive loop with one responder  *)
(* thread per request (server/main.c) and the handlers the responders run  *)
(* (server/responder.c).                                                   *)
(*                                                                         *)
(* Requests are numbered in the order the client sends them.  The request  *)
(* pipe has one writer and one reader, so the n-th request received is the *)
(* n-th sent, and it gets thread slot n.  A reply is a frame of three      *)
(* pieces, one per write_one_by_one_without_zero call of comm_send_data;   *)
(* pieces of two writers may mix and two readers may share out the pieces  *)
(* of one frame.  What the database and the disk hold is shared with other *)
(* workers, so its answers are a choice.                                   *)
(***************************************************************************)
EXTENDS Integers, Sequences

CONSTANTS
  Commands,            \* the commands the user may type, a subset of AllCommands
  MaxRequests,         \* bound: requests the client sends in one session
  MinThreads,          \* config->min_threads, the initial size of threads[]
  MaxThreads,          \* config->max_threads
  ThreadCreateMayFail  \* can pthread_create fail for lack of resources?

AllCommands == {"echo", "get", "post", "login", "logout", "close",
                "new_user", "change_pass"}

ASSUME SessionAssumption ==
  /\ Commands \subseteq AllCommands
  /\ MaxRequests \in Nat
  /\ MinThreads \in Nat \ {0}
  /\ MaxThreads \in Nat
  /\ ThreadCreateMayFail \in BOOLEAN

VARIABLES
  \* client process
  cpc,      \* main thread: at the prompt, waiting for a reply, closing, exited
  logged,   \* static boolean logged
  misread,  \* history: logged was set by the answer to a refused login
  cmd,      \* the command the main thread executes
  nsent,    \* requests sent so far
  rpc,      \* per reader (0: main thread, n: listener of request n)
  got,      \* per reader: the pieces read of the frame being received
  clock,    \* the listeners' mutex: 0 or the listener that holds it
  answer,   \* history: frame whose text was shown as the answer to request n
  \* pipes
  req,      \* request FIFO: commands
  resp,     \* response FIFO: pieces of reply frames
  \* worker process
  wpc,      \* main thread
  wstate,   \* connection->state
  out,      \* connection->req_fd: open, or reset by connection_close
  command,  \* the request just received
  current_thread, num_threads,
  lock,     \* pthread_mutex_t lock: 0 or the slot of the thread that holds it
  user,     \* the global user of responder.c
  tpc,      \* per slot: the responder thread
  tcmd,     \* per slot: its request
  reply     \* per slot: the text it sends

client == <<cpc, logged, misread, cmd, nsent, rpc, got, clock, answer>>
worker == <<wpc, wstate, out, command, current_thread, num_threads>>
threads == <<lock, user, tpc, tcmd, reply>>
vars == <<client, req, resp, worker, threads>>

\* The largest array of threads the worker ever allocates.
Capacity == IF MinThreads > MaxThreads THEN MinThreads ELSE MaxThreads
Slots == 1 .. Capacity
Requests == 1 .. MaxRequests
Readers == 0 .. MaxRequests
Main == 0

\* The outcomes of pthread_create.
Created == IF ThreadCreateMayFail THEN {"yes", "no"} ELSE {"yes"}

Texts == {"value", "not_logged", "already_logged_in", "login_failed",
          "logged_in", "logged_out", "file_contents", "file_not_in_db",
          "file_exists", "file_ok", "no_permission", "user_exists",
          "user_registered", "password_updated", "server_maxed"}

\* What one write call of comm_send_data puts into the response FIFO.
Pieces == [frame : Slots, part : {"open", "body", "close"},
           text : Texts \cup {"none"}]

Init ==
  /\ cpc = "prompt" /\ logged = "no" /\ misread = "no"
  /\ cmd = "none" /\ nsent = 0
  /\ rpc = [r \in Readers |-> "off"]
  /\ got = [r \in Readers |-> <<>>]
  /\ clock = 0 /\ answer = [n \in Requests |-> 0]
  /\ req = <<>> /\ resp = <<>>
  /\ wpc = "check" /\ wstate = "open" /\ out = "open" /\ command = "none"
  /\ current_thread = 0 /\ num_threads = MinThreads
  /\ lock = 0 /\ user = "NULL"
  /\ tpc = [t \in Slots |-> "none"]
  /\ tcmd = [t \in Slots |-> "none"]
  /\ reply = [t \in Slots |-> "none"]

-----------------------------------------------------------------------------
(* The client: commands typed at the prompt.  A command whose checks fail  *)
(* returns an error code and changes nothing.                              *)

ClientAlive == cpc # "exited"

\* The main thread writes one request into the FIFO.
send_cmd(c) ==
  /\ cpc = "prompt" /\ c \in Commands /\ nsent < MaxRequests
  /\ req' = Append(req, c)
  /\ nsent' = nsent + 1
  /\ cmd' = c
  /\ UNCHANGED <<logged, misread, clock, got, answer, resp, worker, threads>>

\* A synchronous command sends its request and calls receive.
SendAndReceive(c) ==
  /\ send_cmd(c)
  /\ cpc' = "waiting"
  /\ rpc' = [rpc EXCEPT ![Main] = "reading"]

\* cmd_sendi, cmd_sends and cmd_sendd
cmd_send == SendAndReceive("echo")

cmd_post == logged = "yes" /\ SendAndReceive("post")

cmd_login == logged = "no" /\ SendAndReceive("login")

cmd_logout == logged = "yes" /\ SendAndReceive("logout")

cmd_new_user == logged = "yes" /\ SendAndReceive("new_user")

cmd_change_pass == logged = "yes" /\ SendAndReceive("change_pass")

\* The request goes out from the main thread, the reply is left to a new
\* listener thread; the prompt comes back at once.
cmd_get ==
  /\ logged = "yes"
  /\ send_cmd("get")
  /\ \E created \in Created :
       rpc' = [rpc EXCEPT ![nsent + 1] =
                 IF created = "yes" THEN "blocked" ELSE "off"]
  /\ UNCHANGED cpc

cmd_close ==
  /\ logged = "no"
  /\ send_cmd("close")
  /\ cpc' = "closing"
  /\ UNCHANGED rpc

\* The end of the process: its descriptors are closed and its threads end.
ClientExits ==
  /\ cpc' = "exited"
  /\ rpc' = [r \in Readers |-> "off"]
  /\ clock' = 0
  /\ UNCHANGED <<logged, misread, cmd, nsent, got, answer, req, resp, worker, threads>>

\* COMMAND_CLOSE_OK: connection_close, the loop ends, main returns.
MainLoopEnds == cpc = "closing" /\ ClientExits

\* The client is killed, or its input ends (cmd_parse then compares NULL), or
\* a reply is longer than the buffer it is read into.
ClientDies == cpc \in {"prompt", "waiting"} /\ ClientExits

-----------------------------------------------------------------------------
(* The client: receiving.  The first boundary read is looked for again:    *)
(* everything up to it is the frame, and the JSON parser takes the object  *)
(* the frame starts with.                                                  *)

IsBoundary(p) == p.part # "body"

\* Taking piece p completes the frame that reader r is receiving.
Completes(r, p) ==
  /\ got[r] # <<>>
  /\ IsBoundary(got[r][1]) /\ IsBoundary(p)
  /\ p.frame = got[r][1].frame

Parses(r) == Len(got[r]) > 1 /\ got[r][2].part = "body"

\* Every byte read that does not complete a frame is kept in the buffer.
ReadPiece(r) ==
  /\ rpc[r] = "reading" /\ resp # <<>>
  /\ ~Completes(r, Head(resp))
  /\ got' = [got EXCEPT ![r] = Append(@, Head(resp))]
  /\ resp' = Tail(resp)
  /\ UNCHANGED <<cpc, logged, misread, cmd, nsent, rpc, clock, answer, req, worker, threads>>

\* The values the client's logged flag may have when the main thread's
\* command returns with text s as its answer.  "Login failed" is recognised
\* with strcmp on a copy that was made without its terminator.
LoggedAfter(c, s) ==
  CASE c = "login" /\ s = "login_failed" -> {logged, "yes"}
    [] c = "login" /\ s # "login_failed" -> {"yes"}
    [] c = "logout" -> {"no"}
    [] OTHER        -> {logged}

\* Whether the client then believes in a login that was refused.
MisreadAfter(c, s, after) ==
  CASE c = "login"  -> IF s = "login_failed" THEN after ELSE "no"
    [] c = "logout" -> "no"
    [] OTHER        -> misread

\* receive returns in the main thread and the command finishes.
receive ==
  /\ rpc[Main] = "reading" /\ resp # <<>>
  /\ Completes(Main, Head(resp)) /\ Parses(Main)
  /\ logged' \in LoggedAfter(cmd, got[Main][2].text)
  /\ misread' = MisreadAfter(cmd, got[Main][2].text, logged')
  /\ answer' = [answer EXCEPT ![nsent] = got[Main][2].frame]
  /\ cpc' = "prompt"
  /\ rpc' = [rpc EXCEPT ![Main] = "off"]
  /\ got' = [got EXCEPT ![Main] = <<>>]
  /\ resp' = Tail(resp)
  /\ UNCHANGED <<cmd, nsent, clock, req, worker, threads>>

\* Mutant: the listener reads without locking the mutex.
data_listener_unlocked(n) ==
  /\ rpc[n] = "blocked"
  /\ clock' = n
  /\ rpc' = [rpc EXCEPT ![n] = "reading"]
  /\ UNCHANGED <<cpc, logged, misread, cmd, nsent, got, answer, req, resp, worker, threads>>

\* The listener of get request n locks the mutex that listeners share.
data_listener_lock(n) ==
  /\ rpc[n] = "blocked" /\ clock = 0
  /\ clock' = n
  /\ rpc' = [rpc EXCEPT ![n] = "reading"]
  /\ UNCHANGED <<cpc, logged, misread, cmd, nsent, got, answer, req, resp, worker, threads>>

\* Mutant: the listener calls the handler with the mutex still locked.
get_handler_locked(n) ==
  /\ rpc[n] = "reading" /\ resp # <<>>
  /\ Completes(n, Head(resp)) /\ Parses(n)
  /\ answer' = [answer EXCEPT ![n] = got[n][2].frame]
  /\ rpc' = [rpc EXCEPT ![n] = "off"]
  /\ got' = [got EXCEPT ![n] = <<>>]
  /\ resp' = Tail(resp)
  /\ UNCHANGED <<cpc, logged, misread, cmd, nsent, clock, req, worker, threads>>

\* The listener has a whole frame, unlocks and calls get_handler.
get_handler(n) ==
  /\ rpc[n] = "reading" /\ resp # <<>>
  /\ Completes(n, Head(resp)) /\ Parses(n)
  /\ clock' = 0
  /\ answer' = [answer EXCEPT ![n] = got[n][2].frame]
  /\ rpc' = [rpc EXCEPT ![n] = "off"]
  /\ got' = [got EXCEPT ![n] = <<>>]
  /\ resp' = Tail(resp)
  /\ UNCHANGED <<cpc, logged, misread, cmd, nsent, req, worker, threads>>

\* A frame that does not start with an object: parse_encoded takes the
\* length of a NULL kind and the process dies.
ParseFails(r) ==
  /\ rpc[r] = "reading" /\ resp # <<>>
  /\ Completes(r, Head(resp)) /\ ~Parses(r)
  /\ ClientExits

-----------------------------------------------------------------------------
(* The worker's main thread.                                               *)

WorkerAlive == wpc \notin {"exited", "killed"}

WorkerKilled ==
  /\ wpc' = "killed"
  /\ UNCHANGED <<client, req, resp, wstate, out, command, current_thread,
                 num_threads, threads>>

\* A write with the read end closed raises SIGPIPE.
Broken == out = "open" /\ ~ClientAlive

\* One write of frame f; after connection_close the bytes go to descriptor 0.
Write(f, part, text) ==
  /\ ~Broken
  /\ resp' = IF out = "open"
             THEN Append(resp, [frame |-> f, part |-> part, text |-> text])
             ELSE resp

\* while (!is_connection_closed(connection))
CheckConnection ==
  /\ wpc = "check"
  /\ wpc' = IF wstate = "closed" THEN "closing" ELSE "receive"
  /\ UNCHANGED <<client, req, resp, wstate, out, command, current_thread,
                 num_threads, threads>>

comm_receive_data ==
  /\ wpc = "receive" /\ req # <<>>
  /\ command' = Head(req)
  /\ req' = Tail(req)
  /\ wpc' = "spawn"
  /\ UNCHANGED <<client, resp, wstate, out, current_thread, num_threads, threads>>

\* The requests that carry a text as long as the user likes.
Texted == AllCommands \ {"logout", "close"}

\* A frame longer than the 2048 bytes of the buffer is written behind it.
comm_receive_data_overruns ==
  /\ wpc = "receive" /\ req # <<>> /\ Head(req) \in Texted
  /\ WorkerKilled

\* Mutant: at end of file the worker goes back to its loop.
ReceiveAtEofIgnored ==
  /\ wpc = "receive" /\ req = <<>> /\ ~ClientAlive
  /\ wpc' = "check"
  /\ UNCHANGED <<client, req, resp, wstate, out, command, current_thread,
                 num_threads, threads>>

\* At end of file read returns 0 and the loops run past their buffers: they
\* end in a fault or in an empty frame, depending on what the heap holds.
ReceiveAtEof ==
  /\ wpc = "receive" /\ req = <<>> /\ ~ClientAlive
  /\ \/ WorkerKilled
     \/ /\ command' = "garbage"
        /\ wpc' = "spawn"
        /\ UNCHANGED <<client, req, resp, wstate, out, current_thread,
                       num_threads, threads>>

\* Mutants: the last slot is used before the array grows; it never grows.
FullTooLate == current_thread = num_threads
NeverFull == FALSE

\* The array of threads is full once only its last slot is left.
Full == current_thread = num_threads - 1

\* The array doubles; beyond max_threads the request is refused instead.
Refuse ==
  /\ wpc = "spawn" /\ Full /\ 2 * num_threads > MaxThreads
  /\ num_threads' = 2 * num_threads
  /\ wpc' = "open"
  /\ UNCHANGED <<client, req, resp, wstate, out, command, current_thread, threads>>

\* Mutant: the break of the refusal also ends the loop when the array grew.
SpawnThreadBreak ==
  /\ wpc = "spawn"
  /\ Full => 2 * num_threads <= MaxThreads
  /\ num_threads' = IF Full THEN 2 * num_threads ELSE num_threads
  /\ tpc' = [tpc EXCEPT ![current_thread + 1] = "parse"]
  /\ tcmd' = [tcmd EXCEPT ![current_thread + 1] = command]
  /\ current_thread' = current_thread + 1
  /\ wpc' = IF Full THEN "closing" ELSE "check"
  /\ UNCHANGED <<client, req, resp, wstate, out, command, lock, user, reply>>

\* A thread for the request; if pthread_create fails the slot is used up and
\* nobody answers.
SpawnThread ==
  /\ wpc = "spawn"
  /\ Full => 2 * num_threads <= MaxThreads
  /\ num_threads' = IF Full THEN 2 * num_threads ELSE num_threads
  /\ \E created \in Created :
       tpc' = [tpc EXCEPT ![current_thread + 1] =
                 IF created = "yes" THEN "parse" ELSE "none"]
  /\ tcmd' = [tcmd EXCEPT ![current_thread + 1] = command]
  /\ current_thread' = current_thread + 1
  /\ wpc' = "check"
  /\ UNCHANGED <<client, req, resp, wstate, out, command, lock, user, reply>>

\* send_data("Server maxed capacity"), without the lock, then break.
SendMaxed ==
  /\ wpc \in {"open", "body", "close"}
  /\ Write(current_thread + 1, wpc,
           IF wpc = "body" THEN "server_maxed" ELSE "none")
  /\ wpc' = CASE wpc = "open" -> "body" [] wpc = "body" -> "close"
              [] OTHER -> "closing"
  /\ UNCHANGED <<client, req, wstate, out, command, current_thread,
                 num_threads, threads>>

connection_close ==
  /\ wpc = "closing"
  /\ out' = "reset"
  /\ wstate' = "closed"
  /\ wpc' = "exit"
  /\ UNCHANGED <<client, req, resp, command, current_thread, num_threads, threads>>

\* exit(0): no thread is joined, the ones still running end here.
WorkerExit ==
  /\ wpc = "exit"
  /\ wpc' = "exited"
  /\ UNCHANGED <<client, req, resp, wstate, out, command, current_thread,
                 num_threads, threads>>

-----------------------------------------------------------------------------
(* A responder thread (server_responder): parse, lock, handle, send the    *)
(* reply, unlock.                                                          *)

Step(t, pc) == tpc' = [tpc EXCEPT ![t] = pc]

\* parse_encoded of an empty frame takes the length of a NULL kind.
parse_encoded_fails(t) ==
  /\ WorkerAlive /\ tpc[t] = "parse" /\ tcmd[t] = "garbage"
  /\ WorkerKilled

\* Mutant: the responders run without the lock.
pthread_mutex_no_lock(t) ==
  /\ WorkerAlive /\ tpc[t] = "parse" /\ tcmd[t] # "garbage"
  /\ lock' = t
  /\ Step(t, "dispatch")
  /\ UNCHANGED <<client, req, resp, worker, user, tcmd, reply>>

pthread_mutex_lock(t) ==
  /\ WorkerAlive /\ tpc[t] = "parse" /\ tcmd[t] # "garbage"
  /\ lock = 0
  /\ lock' = t
  /\ Step(t, "dispatch")
  /\ UNCHANGED <<client, req, resp, worker, user, tcmd, reply>>

Handles(t, c) == WorkerAlive /\ tpc[t] = "dispatch" /\ tcmd[t] = c

\* The handler has chosen text s as its answer and calls send_data.
Answer(t, s) ==
  /\ reply' = [reply EXCEPT ![t] = s]
  /\ Step(t, "open")
  /\ UNCHANGED <<client, req, resp, worker, lock, tcmd>>

\* check_user_logged answers "NOT logged" when user is NULL.
AnswerIfLogged(t, texts) ==
  /\ \E s \in (IF user = "NULL" THEN {"not_logged"} ELSE texts) : Answer(t, s)
  /\ UNCHANGED user

\* int, double and string requests
process_echo(t) == Handles(t, "echo") /\ Answer(t, "value") /\ UNCHANGED user

process_get_cmd(t) ==
  /\ Handles(t, "get")
  /\ AnswerIfLogged(t, {"file_contents", "file_not_in_db"})

\* The alias is in the database and the file cannot be opened:
\* encode_raw_data is given NULL.
process_get_cmd_faults(t) ==
  /\ Handles(t, "get") /\ user # "NULL"
  /\ WorkerKilled

process_post_cmd(t) ==
  /\ Handles(t, "post")
  /\ AnswerIfLogged(t, {"file_exists", "file_ok"})

\* decode_to_raw_data stores the bytes of the posted file behind the array it
\* allocated for them.
process_post_cmd_faults(t) ==
  /\ Handles(t, "post") /\ user # "NULL"
  /\ WorkerKilled

process_new_user_cmd(t) ==
  /\ Handles(t, "new_user")
  /\ AnswerIfLogged(t, {"no_permission", "user_exists",
                        "user_registered"})

process_change_pass_cmd(t) ==
  /\ Handles(t, "change_pass")
  /\ AnswerIfLogged(t, {"password_updated"})

\* user points to a new structure before the database is asked; a failed
\* identification resets it only after the reply is sent.
process_login_cmd(t) ==
  /\ Handles(t, "login")
  /\ IF user # "NULL"
     THEN Answer(t, "already_logged_in") /\ UNCHANGED user
     ELSE \/ Answer(t, "logged_in") /\ user' = "identified"
          \/ Answer(t, "login_failed") /\ user' = "allocated"

process_logout_cmd(t) ==
  /\ Handles(t, "logout")
  /\ AnswerIfLogged(t, {"logged_out"})

\* A close request has no reply.
process_close(t) ==
  /\ Handles(t, "close")
  /\ wstate' = "closed"
  /\ Step(t, "unlock")
  /\ UNCHANGED <<client, req, resp, wpc, out, command, current_thread,
                 num_threads, lock, user, tcmd, reply>>

\* Mutant: the text is written before the first boundary.
comm_send_data_swapped(t) ==
  /\ WorkerAlive /\ tpc[t] \in {"open", "body", "close"}
  /\ LET part == CASE tpc[t] = "open" -> "body" [] tpc[t] = "body" -> "open"
                   [] OTHER -> "close"
     IN  Write(t, part, IF part = "body" THEN reply[t] ELSE "none")
  /\ Step(t, CASE tpc[t] = "open" -> "body" [] tpc[t] = "body" -> "close"
               [] OTHER -> "sent")
  /\ UNCHANGED <<client, req, worker, lock, user, tcmd, reply>>

\* comm_send_data: boundary, text, boundary.
comm_send_data(t) ==
  /\ WorkerAlive /\ tpc[t] \in {"open", "body", "close"}
  /\ Write(t, tpc[t], IF tpc[t] = "body" THEN reply[t] ELSE "none")
  /\ Step(t, CASE tpc[t] = "open" -> "body" [] tpc[t] = "body" -> "close"
               [] OTHER -> "sent")
  /\ UNCHANGED <<client, req, worker, lock, user, tcmd, reply>>

\* What the handlers still do to user once the reply is written.
UserAfter(t) ==
  IF reply[t] \in {"login_failed", "logged_out"} THEN "NULL" ELSE user

\* Mutant: without its return a failed login goes on to send the other reply.
FinishHandlerFallsThrough(t) ==
  /\ WorkerAlive /\ tpc[t] = "sent"
  /\ user' = UserAfter(t)
  /\ IF reply[t] = "login_failed"
     THEN Step(t, "open") /\ reply' = [reply EXCEPT ![t] = "logged_in"]
     ELSE Step(t, "unlock") /\ UNCHANGED reply
  /\ UNCHANGED <<client, req, resp, worker, lock, tcmd>>

FinishHandler(t) ==
  /\ WorkerAlive /\ tpc[t] = "sent"
  /\ user' = UserAfter(t)
  /\ Step(t, "unlock")
  /\ UNCHANGED <<client, req, resp, worker, lock, tcmd, reply>>

\* Mutant: the thread ends with the lock held.
pthread_mutex_kept(t) ==
  /\ WorkerAlive /\ tpc[t] = "unlock"
  /\ Step(t, "done")
  /\ UNCHANGED <<client, req, resp, worker, lock, user, tcmd, reply>>

pthread_mutex_unlock(t) ==
  /\ WorkerAlive /\ tpc[t] = "unlock"
  /\ lock' = 0
  /\ Step(t, "done")
  /\ UNCHANGED <<client, req, resp, worker, user, tcmd, reply>>

\* A thread of the worker writes although the client is gone.
Sigpipe ==
  /\ WorkerAlive /\ Broken
  /\ \/ wpc \in {"open", "body", "close"}
     \/ \E t \in Slots : tpc[t] \in {"open", "body", "close"}
  /\ WorkerKilled

-----------------------------------------------------------------------------
UserTypes == \/ cmd_send \/ cmd_post \/ cmd_login \/ cmd_logout
             \/ cmd_new_user \/ cmd_change_pass \/ cmd_get \/ cmd_close

MainThread == ReadPiece(Main) \/ receive \/ ParseFails(Main) \/ MainLoopEnds

Listener(n) == data_listener_lock(n) \/ ReadPiece(n) \/ get_handler(n)
               \/ ParseFails(n)

WorkerMain == CheckConnection \/ comm_receive_data \/ comm_receive_data_overruns
              \/ ReceiveAtEof \/ Refuse \/ SpawnThread \/ SendMaxed
              \/ connection_close \/ WorkerExit

Responder(t) ==
  \/ parse_encoded_fails(t) \/ pthread_mutex_lock(t)
  \/ process_echo(t) \/ process_get_cmd(t) \/ process_get_cmd_faults(t)
  \/ process_post_cmd(t) \/ process_post_cmd_faults(t)
  \/ process_new_user_cmd(t) \/ process_change_pass_cmd(t)
  \/ process_login_cmd(t) \/ process_logout_cmd(t) \/ process_close(t)
  \/ comm_send_data(t) \/ FinishHandler(t) \/ pthread_mutex_unlock(t)

Next ==
  \/ UserTypes \/ ClientDies \/ MainThread
  \/ \E n \in Requests : Listener(n)
  \/ WorkerMain \/ Sigpipe
  \/ \E t \in Slots : Responder(t)

Spec == Init /\ [][Next]_vars

\* Every thread that can run is scheduled; the user owes nobody a command.
Fairness ==
  /\ WF_vars(MainThread)
  /\ \A n \in Requests : WF_vars(Listener(n))
  /\ WF_vars(WorkerMain) /\ WF_vars(Sigpipe)
  /\ \A t \in Slots : WF_vars(Responder(t))

FairSpec == Spec /\ Fairness

-----------------------------------------------------------------------------
(* Properties.                                                             *)

ThreadStates == {"none", "parse", "dispatch", "open", "body", "close", "sent",
                 "unlock", "done"}
RequestKinds == AllCommands \cup {"none", "garbage"}

ClientTypes ==
  /\ cpc \in {"prompt", "waiting", "closing", "exited"}
  /\ logged \in {"yes", "no"} /\ misread \in {"yes", "no"}
  /\ cmd \in AllCommands \cup {"none"}
  /\ nsent \in 0 .. MaxRequests
  /\ rpc \in [Readers -> {"off", "blocked", "reading"}]
  /\ clock \in 0 .. MaxRequests
  /\ answer \in [Requests -> 0 .. Capacity]

PipeTypes ==
  /\ got \in [Readers -> Seq(Pieces)]
  /\ req \in Seq(AllCommands)
  /\ resp \in Seq(Pieces)

WorkerTypes ==
  /\ wpc \in {"check", "receive", "spawn", "open", "body", "close", "closing",
              "exit", "exited", "killed"}
  /\ wstate \in {"open", "closed"}
  /\ out \in {"open", "reset"}
  /\ command \in RequestKinds
  /\ current_thread \in 0 .. Capacity
  /\ num_threads \in Nat

ThreadTypes ==
  /\ lock \in 0 .. Capacity
  /\ user \in {"NULL", "allocated", "identified"}
  /\ tpc \in [Slots -> ThreadStates]
  /\ tcmd \in [Slots -> RequestKinds]
  /\ reply \in [Slots -> Texts \cup {"none"}]

\* Types.  No number of requests takes current_thread or the frame number of
\* a reply beyond the largest array that the worker allocates.
TypeOK == ClientTypes /\ PipeTypes /\ WorkerTypes /\ ThreadTypes

\* The receive loop never uses a slot beyond the threads array it has
\* allocated: after any number of doublings and a refusal at max_threads,
\* threads[current_thread] is inside (main.c 233-242).
SlotInArray == wpc \in {"check", "receive", "spawn"} => current_thread < num_threads

Replied(t) == tpc[t] \in {"sent", "unlock", "done"}

\* When a responder comes to handle a request, the worker's user is what the
\* client believes: the client thinks it is logged in exactly if user is set
\* or the client took a refused login for a success.  (That happens since
\* parse_encoded copies a reply without its terminator, serialization.c
\* 193-194, and lasts until the logout.)  The reply to a login or logout goes
\* out before user is settled, so this rests on the lock (responder.c 127-128
\* and 148-149).
SessionAgrees ==
  \A t \in Slots : tpc[t] = "dispatch" =>
    (logged = "yes" <=> user # "NULL" \/ misread = "yes")

\* "Luego, espera la respuesta, y se la muestra al usuario": the text a
\* command shows is the reply to that command.
OwnAnswer == \A n \in Requests : answer[n] \in {0, n}

\* The worker does not end before every request it accepted has its reply
\* written in full, although it joins no thread (main.c 258-264).
ExitAfterReplies ==
  wpc = "exited" /\ ClientAlive =>
    \A t \in 1 .. current_thread : Replied(t)

\* The response FIFO holds whole frames: between the opening boundary of a
\* frame and its closing one there is only its own text (comm.send.fifo.c
\* 111-115, where flock does not exclude threads of one process).
FramesWhole ==
  \A k \in 1 .. Len(resp) - 1 :
    \/ resp[k].part = "close"
    \/ /\ resp[k + 1].frame = resp[k].frame
       /\ resp[k].part = "open" => resp[k + 1].part = "body"
       /\ resp[k].part = "body" => resp[k + 1].part = "close"

Refused == num_threads > Capacity

\* With replies of several responders under way the same holds as long as the
\* worker has not refused a request: that reply alone is sent without the lock.
FramesWholeUnlessRefused == ~Refused => FramesWhole

\* Gets of one client may overlap: the listeners share out the response FIFO
\* frame by frame, so that each reader holds the beginning of one frame and
\* nothing else (comm.send.fifo.c 66-87).
ListenersTakeWholeFrames ==
  \A r \in Readers : \A k \in 1 .. Len(got[r]) :
    /\ got[r][k].frame = got[r][1].frame
    /\ got[r][k].part = <<"open", "body">>[k]

\* The listener of a get has its answer in the end, unless the worker
\* faults or the client is killed.  (The session that is checked refuses no
\* request and can create every thread: after either a get may wait for ever.)
GetReturns ==
  \A n \in Requests : rpc[n] = "blocked" ~>
    answer[n] # 0 \/ wpc = "killed" \/ ~ClientAlive

\* A request whose thread could not be created.
Unanswered == \E t \in 1 .. current_thread : tpc[t] = "none"

\* A command that waits for its reply gets one, or the client is killed,
\* unless the worker refused a request (main.c 235-237, after which it ends),
\* could not create the thread (main.c 250-253), or died of a fault: of a
\* request longer than its buffer or of the decoding of a posted file
\* (responder.c 93).  The client then waits for ever, as the server process
\* keeps the response FIFO open.  The responder's calls return in this module;
\* its waits for the semaphore and for the log queue are those of Monitor and
\* Logging.
CommandReturns ==
  cpc = "waiting" ~> cpc # "waiting" \/ Refused \/ Unanswered \/ wpc = "killed"

\* A client that is gone takes its worker with it: however the client ended
\* and whatever was under way, the worker exits, faults at end of file or is
\* ended by SIGPIPE, and never stays behind (main.c 220-264; a close request
\* alone does not do it, its state is set after the loop is reading again).
WorkerFollows == ~ClientAlive ~> ~WorkerAlive
=============================================================================
