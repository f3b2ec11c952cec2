--------------------------- MODULE SessionProofs ---------------------------
(***************************************************************************)
(* Theorems about Session, for every repertoire of commands and every      *)
(* bound on threads and requests: types, the slots, and the frames, which  *)
(* responders write under one lock and listeners read under another.       *)
(***************************************************************************)
EXTENDS Session, TLAPS

\* What keeps the slot index inside the array: as long as the receive loop
\* runs, the array is at most Capacity long and has a slot left; a refused
\* request is numbered with the slot it did not get.
SlotInv ==
  /\ num_threads \in Nat \ {0}
  /\ wpc \in {"check", "receive", "spawn"} =>
       current_thread < num_threads /\ num_threads <= Capacity
  /\ wpc \in {"open", "body", "close"} => current_thread + 1 <= Capacity

TypeInv == TypeOK /\ SlotInv

\* The largest array the worker may allocate bounds both configured numbers of
\* threads (server_config.c, main.c 139-140).
LEMMA CapacityNat == Capacity \in Nat /\ MinThreads <= Capacity /\ MaxThreads <= Capacity
  BY SessionAssumption DEF Capacity

\* A session that was just accepted satisfies the invariant (main.c 139-140,
\* 166).
LEMMA InitTypeInv == Init => TypeInv
  <1> SUFFICES ASSUME Init PROVE TypeInv
    OBVIOUS
  <1> USE SessionAssumption, CapacityNat
  <1>1. ClientTypes
    BY DEF Init, ClientTypes
  <1>2. PipeTypes
    BY DEF Init, PipeTypes
  <1>3. WorkerTypes
    BY DEF Init, WorkerTypes, RequestKinds
  <1>4. ThreadTypes
    BY DEF Init, ThreadTypes, RequestKinds, ThreadStates
  <1>5. SlotInv
    BY DEF Init, SlotInv
  <1> QED BY <1>1, <1>2, <1>3, <1>4, <1>5 DEF TypeInv, TypeOK

\* What a reader takes from a non-empty response FIFO, and what it leaves there,
\* are pieces that comm_send_data wrote.
LEMMA HeadPiece ==
  ASSUME TypeInv, resp # <<>>
  PROVE  /\ Head(resp) \in Pieces
         /\ Tail(resp) \in Seq(Pieces)
  BY DEF TypeInv, TypeOK, PipeTypes

\* A write of comm_send_data, by a responder or by the main thread, keeps the
\* response FIFO a sequence of pieces of numbered frames.
LEMMA WriteKeepsPipe ==
  ASSUME TypeInv, NEW f \in Slots, NEW part \in {"open", "body", "close"},
         NEW text \in Texts \cup {"none"}, Write(f, part, text)
  PROVE  resp' \in Seq(Pieces)
  <1>1. [frame |-> f, part |-> part, text |-> text] \in Pieces
    BY DEF Pieces
  <1> QED BY <1>1 DEF TypeInv, TypeOK, PipeTypes, Write

\* The commands typed at the prompt (commands.c) preserve the invariant.
LEMMA UserTypesTypeInv == TypeInv /\ UserTypes => TypeInv'
  <1> SUFFICES ASSUME TypeInv, UserTypes PROVE TypeInv'
    OBVIOUS
  <1> USE SessionAssumption, CapacityNat
  <1>1. ASSUME NEW c \in AllCommands, send_cmd(c)
        PROVE  /\ req' \in Seq(AllCommands) /\ nsent' \in 0 .. MaxRequests
               /\ cmd' \in AllCommands /\ nsent + 1 \in Readers
               /\ UNCHANGED <<logged, misread, clock, got, answer, resp, worker, threads>>
    BY <1>1 DEF send_cmd, TypeInv, TypeOK, ClientTypes, PipeTypes, Readers
  <1>2. ASSUME NEW c \in AllCommands, SendAndReceive(c) PROVE TypeInv'
    <2>1. /\ req' \in Seq(AllCommands) /\ nsent' \in 0 .. MaxRequests /\ cmd' \in AllCommands
          /\ UNCHANGED <<logged, misread, clock, got, answer, resp, worker, threads>>
          /\ cpc' = "waiting"
      BY <1>1, <1>2 DEF SendAndReceive
    <2>2. rpc' \in [Readers -> {"off", "blocked", "reading"}]
      BY <1>2 DEF SendAndReceive, TypeInv, TypeOK, ClientTypes
    <2>3. ClientTypes' /\ PipeTypes'
      BY <2>1, <2>2 DEF TypeInv, TypeOK, ClientTypes, PipeTypes
    <2>4. WorkerTypes' /\ ThreadTypes' /\ SlotInv'
      BY <2>1 DEF TypeInv, TypeOK, WorkerTypes, ThreadTypes, SlotInv, worker, threads
    <2> QED BY <2>3, <2>4 DEF TypeInv, TypeOK
  <1>3. CASE cmd_get
    BY <1>1, <1>3 DEF cmd_get, AllCommands, TypeInv, TypeOK, ClientTypes,
       PipeTypes, WorkerTypes, ThreadTypes, SlotInv, worker, threads
  <1>4. CASE cmd_close
    BY <1>1, <1>4 DEF cmd_close, AllCommands, TypeInv, TypeOK, ClientTypes,
       PipeTypes, WorkerTypes, ThreadTypes, SlotInv, worker, threads
  <1> QED BY <1>2, <1>3, <1>4 DEF UserTypes, cmd_send, cmd_post, cmd_login,
       cmd_logout, cmd_new_user, cmd_change_pass, AllCommands

\* The end of the client process preserves the invariant (client/main.c 92-132).
LEMMA ClientExitsTypeInv == TypeInv /\ ClientExits => TypeInv'
  BY SessionAssumption DEF ClientExits, TypeInv, TypeOK, ClientTypes, PipeTypes, WorkerTypes,
     ThreadTypes, SlotInv, worker, threads

\* Receiving, in the client's main thread or in a listener, preserves the
\* invariant (comm.read.fifo.c 189-229, comm.send.fifo.c 48-101).
LEMMA ReadersTypeInv ==
  ASSUME TypeInv,
         \/ MainThread
         \/ \E n \in Requests : Listener(n)
  PROVE  TypeInv'
  <1> USE SessionAssumption, CapacityNat
  <1>1. ASSUME NEW r \in Readers, ReadPiece(r) PROVE TypeInv'
    <2>1. got' \in [Readers -> Seq(Pieces)] /\ resp' \in Seq(Pieces)
      BY <1>1, HeadPiece DEF ReadPiece, TypeInv, TypeOK, PipeTypes
    <2> QED BY <1>1, <2>1 DEF ReadPiece, TypeInv, TypeOK, ClientTypes,
       PipeTypes, WorkerTypes, ThreadTypes, SlotInv, worker, threads
  <1>2. ASSUME NEW r \in Readers, Parses(r)
        PROVE  got[r][2].frame \in 0 .. Capacity
    <2>1. got[r] \in Seq(Pieces) /\ 2 \in 1 .. Len(got[r])
      BY <1>2 DEF Parses, TypeInv, TypeOK, PipeTypes
    <2>2. got[r][2] \in Pieces
      BY <2>1
    <2> QED BY <2>2 DEF Pieces, Slots
  <1>3. Main \in Readers /\ Requests \subseteq Readers
    BY DEF Main, Readers, Requests
  <1>4. <<>> \in Seq(Pieces)
    OBVIOUS
  <1>5. CASE receive
    <2>1. logged' \in {"yes", "no"} /\ misread' \in {"yes", "no"}
      BY <1>5 DEF receive, LoggedAfter, MisreadAfter, TypeInv, TypeOK, ClientTypes
    <2>2. got[Main][2].frame \in 0 .. Capacity
      BY <1>2, <1>5, <1>3 DEF receive
    <2>3. answer' \in [Requests -> 0 .. Capacity]
      BY <2>2, <1>5 DEF receive, TypeInv, TypeOK, ClientTypes
    <2>4. got' \in [Readers -> Seq(Pieces)]
      BY <1>5, <1>4 DEF receive, TypeInv, TypeOK, PipeTypes
    <2>5. resp' \in Seq(Pieces)
      BY <1>5, HeadPiece DEF receive
    <2> QED BY <1>5, <2>1, <2>3, <2>4, <2>5 DEF receive, TypeInv, TypeOK, ClientTypes,
       PipeTypes, WorkerTypes, ThreadTypes, SlotInv, worker, threads
  <1>6. ASSUME NEW n \in Requests, data_listener_lock(n) PROVE TypeInv'
    <2>1. clock' \in 0 .. MaxRequests
      BY <1>6 DEF data_listener_lock, Requests
    <2>2. rpc' \in [Readers -> {"off", "blocked", "reading"}]
      BY <1>6 DEF data_listener_lock, TypeInv, TypeOK, ClientTypes
    <2> QED BY <1>6, <2>1, <2>2 DEF data_listener_lock, TypeInv, TypeOK, ClientTypes, PipeTypes,
       WorkerTypes, ThreadTypes, SlotInv, worker, threads
  <1>7. ASSUME NEW n \in Requests, get_handler(n) PROVE TypeInv'
    <2>1. answer' \in [Requests -> 0 .. Capacity]
      BY <1>2, <1>7 DEF get_handler, Readers, Requests, TypeInv, TypeOK, ClientTypes
    <2>2. got' \in [Readers -> Seq(Pieces)]
      BY <1>7, <1>4 DEF get_handler, TypeInv, TypeOK, PipeTypes
    <2>3. resp' \in Seq(Pieces)
      BY <1>7, HeadPiece DEF get_handler
    <2> QED BY <1>7, <2>1, <2>2, <2>3 DEF get_handler, TypeInv, TypeOK, ClientTypes,
       PipeTypes, WorkerTypes, ThreadTypes, SlotInv, worker, threads
  <1> QED
    BY <1>1, <1>5, <1>6, <1>7, <1>3, ClientExitsTypeInv
    DEF MainThread, Listener, ParseFails, MainLoopEnds

\* The worker's receive loop preserves the invariant: it is here that slots are
\* handed out, the array grows and requests are refused (main.c 220-264).
LEMMA WorkerMainTypeInv == TypeInv /\ (WorkerMain \/ WorkerKilled) => TypeInv'
  <1> SUFFICES ASSUME TypeInv, WorkerMain \/ WorkerKilled PROVE TypeInv'
    OBVIOUS
  <1> USE SessionAssumption, CapacityNat
  <1> USE DEF TypeInv, TypeOK, ClientTypes, PipeTypes, WorkerTypes, ThreadTypes,
              SlotInv, client, worker, threads
  <1>1. CASE WorkerKilled \/ comm_receive_data_overruns
    BY <1>1 DEF WorkerKilled, comm_receive_data_overruns
  <1>2. CASE CheckConnection
    BY <1>2 DEF CheckConnection
  <1>3. CASE comm_receive_data
    <2>1. Head(req) \in AllCommands /\ Tail(req) \in Seq(AllCommands)
      BY <1>3 DEF comm_receive_data
    <2> QED BY <1>3, <2>1 DEF comm_receive_data, RequestKinds
  <1>4. CASE ReceiveAtEof
    BY <1>1, <1>4 DEF ReceiveAtEof, RequestKinds
  <1>5. CASE Refuse
    BY <1>5 DEF Refuse, Full
  <1>6. CASE SpawnThread
    <2>1. /\ current_thread' < num_threads' /\ num_threads' <= Capacity
          /\ num_threads' \in Nat \ {0} /\ current_thread' \in 0 .. Capacity
      BY <1>6 DEF SpawnThread, Full
    <2>2. tpc' \in [Slots -> ThreadStates] /\ tcmd' \in [Slots -> RequestKinds]
      BY <1>6 DEF SpawnThread, ThreadStates
    <2> QED BY <1>6, <2>1, <2>2 DEF SpawnThread
  <1>7. CASE SendMaxed
    <2>1. current_thread + 1 \in Slots
      BY <1>7 DEF SendMaxed, Slots
    <2>2. resp' \in Seq(Pieces)
      <3>1. (IF wpc = "body" THEN "server_maxed" ELSE "none") \in Texts \cup {"none"}
        BY DEF Texts
      <3> QED BY <1>7, <2>1, <3>1, WriteKeepsPipe DEF SendMaxed
    <2> QED BY <1>7, <2>2 DEF SendMaxed
  <1>8. CASE connection_close
    BY <1>8 DEF connection_close
  <1>9. CASE WorkerExit
    BY <1>9 DEF WorkerExit
  <1> QED BY <1>1, <1>2, <1>3, <1>4, <1>5, <1>6, <1>7, <1>8, <1>9 DEF WorkerMain

\* A step of a responder thread preserves the invariant (main.c 35-120,
\* responder.c).
LEMMA ResponderTypeInv ==
  ASSUME TypeInv, NEW t \in Slots, Responder(t)
  PROVE  TypeInv'
  <1> USE SessionAssumption, CapacityNat
  <1>1. CASE parse_encoded_fails(t) \/ process_get_cmd_faults(t) \/ process_post_cmd_faults(t)
    BY <1>1, WorkerMainTypeInv DEF parse_encoded_fails, process_get_cmd_faults, process_post_cmd_faults
  <1>2. ASSUME NEW s \in Texts, Answer(t, s),
               user' \in {"NULL", "allocated", "identified"}
        PROVE  TypeInv'
    BY <1>2 DEF Answer, Step, ThreadStates, TypeInv, TypeOK, ClientTypes,
       PipeTypes, WorkerTypes, ThreadTypes, SlotInv, client, worker
  <1>3. ASSUME NEW texts \in SUBSET Texts, AnswerIfLogged(t, texts) PROVE TypeInv'
    BY <1>2, <1>3 DEF AnswerIfLogged, Texts, TypeInv, TypeOK, ThreadTypes
  <1>4. CASE \/ process_get_cmd(t) \/ process_post_cmd(t) \/ process_new_user_cmd(t)
             \/ process_change_pass_cmd(t) \/ process_logout_cmd(t)
    BY <1>3, <1>4 DEF process_get_cmd, process_post_cmd, process_new_user_cmd,
       process_change_pass_cmd, process_logout_cmd, Texts
  <1>5. CASE process_echo(t)
    BY <1>2, <1>5 DEF process_echo, Texts, TypeInv, TypeOK, ThreadTypes
  <1>6. CASE process_login_cmd(t)
    BY <1>2, <1>6 DEF process_login_cmd, Texts, TypeInv, TypeOK, ThreadTypes
  <1> USE DEF TypeInv, TypeOK, ClientTypes, PipeTypes, WorkerTypes, ThreadTypes,
              SlotInv, client, worker, Step, ThreadStates
  <1>7. CASE pthread_mutex_lock(t)
    BY <1>7 DEF pthread_mutex_lock, Slots
  <1>8. CASE process_close(t)
    BY <1>8 DEF process_close
  <1>9. CASE comm_send_data(t)
    <2>1. resp' \in Seq(Pieces)
      <3>1. (IF tpc[t] = "body" THEN reply[t] ELSE "none") \in Texts \cup {"none"}
        OBVIOUS
      <3> QED BY <1>9, <3>1, WriteKeepsPipe DEF comm_send_data
    <2> QED BY <1>9, <2>1 DEF comm_send_data
  <1>10. CASE FinishHandler(t)
    BY <1>10 DEF FinishHandler, UserAfter
  <1>11. CASE pthread_mutex_unlock(t)
    BY <1>11 DEF pthread_mutex_unlock
  <1> QED BY <1>1, <1>4, <1>5, <1>6, <1>7, <1>8, <1>9, <1>10, <1>11 DEF Responder

\* TypeInv is inductive: every step of client or worker preserves it.
LEMMA NextTypeInv == TypeInv /\ [Next]_vars => TypeInv'
  <1> SUFFICES ASSUME TypeInv, [Next]_vars PROVE TypeInv'
    OBVIOUS
  <1>1. CASE UNCHANGED vars
    BY <1>1 DEF vars, client, worker, threads, TypeInv, TypeOK, ClientTypes,
       PipeTypes, WorkerTypes, ThreadTypes, SlotInv
  <1>2. CASE ClientDies
    BY <1>2, ClientExitsTypeInv DEF ClientDies
  <1>3. CASE Sigpipe
    BY <1>3, WorkerMainTypeInv DEF Sigpipe
  <1> QED BY <1>1, <1>2, <1>3, UserTypesTypeInv, ReadersTypeInv,
             WorkerMainTypeInv, ResponderTypeInv DEF Next

\* Every state of a session is well typed: in particular, whatever min_threads
\* and max_threads the configuration gives and however many requests come,
\* the worker numbers no slot beyond the largest array it allocates.
THEOREM TypeCorrect == Spec => []TypeOK
  <1>1. TypeInv => TypeOK
    BY DEF TypeInv
  <1> QED BY <1>1, InitTypeInv, NextTypeInv, PTL DEF Spec

\* The receive loop of listen_connections never stores a thread beyond the
\* array threads as it is allocated at that moment (main.c 233-242).
THEOREM SlotSafety == Spec => []SlotInArray
  <1>1. TypeInv => SlotInArray
    BY DEF TypeInv, SlotInv, SlotInArray
  <1> QED BY <1>1, InitTypeInv, NextTypeInv, PTL DEF Spec

-----------------------------------------------------------------------------
(* Frames.                                                                 *)

\* The states of a responder between pthread_mutex_lock and _unlock.
Critical == {"dispatch", "open", "body", "close", "sent", "unlock"}

\* One responder at a time is between lock and unlock, and slots that have not
\* been handed out have no thread.
LockInv ==
  /\ \A t \in Slots : tpc[t] \in Critical <=> lock = t
  /\ \A t \in Slots : t > current_thread => tpc[t] = "none"

\* The main thread writes a reply itself only once the array is larger than
\* the worker may allocate.
RefuseInv ==
  /\ num_threads >= MinThreads
  /\ wpc \in {"open", "body", "close"} => Refused

\* A responder goes on where the last piece left off.
GoesOn(piece) ==
  \A t \in Slots :
    /\ tpc[t] = "body" <=> piece.part = "open" /\ piece.frame = t
    /\ tpc[t] = "close" <=> piece.part = "body" /\ piece.frame = t

\* What comes behind a piece in the response FIFO.
Follows(p, q) ==
  /\ p.part = "open" => q.part = "body" /\ q.frame = p.frame
  /\ p.part = "body" => q.part = "close" /\ q.frame = p.frame
  /\ p.part = "close" => q.part = "open"

\* FramesWhole, with what comes after a frame.
RespInv ==
  ~Refused =>
    /\ \A k \in 1 .. Len(resp) - 1 : Follows(resp[k], resp[k + 1])
    /\ resp # << >> /\ out = "open" => GoesOn(resp[Len(resp)])

FrameInv == TypeInv /\ LockInv /\ RefuseInv /\ RespInv

\* Sessions of logins and gets.
OnlyGets == Commands \subseteq {"login", "get"}

\* At most one reader is reading: the main thread before the login has
\* succeeded, then the listener that holds the mutex.
ReaderInv ==
  /\ cpc # "closing" /\ (cpc = "waiting" => cmd = "login")
  /\ rpc[Main] = "reading" => cpc = "waiting" /\ logged = "no"
  /\ \A n \in Requests : rpc[n] # "off" => ClientAlive /\ logged = "yes" /\ n <= nsent
  /\ \A n \in Requests : rpc[n] = "reading" <=> clock = n
  /\ ClientAlive => \A r \in Readers : got[r] # << >> => rpc[r] = "reading"

\* What a reader holds of a frame: nothing, its opening, or opening and text.
Begun(g) ==
  /\ Len(g) <= 2
  /\ \A k \in 1 .. Len(g) : g[k].frame = g[1].frame /\ g[k].part = <<"open", "body">>[k]

\* The response FIFO goes on where a reader stands.
Continues(g) ==
  /\ resp # << >> =>
       /\ g = << >> => Head(resp).part = "open"
       /\ g # << >> => Follows(g[Len(g)], Head(resp))
  /\ resp = << >> /\ out = "open" =>
       /\ g = << >> => \A t \in Slots : tpc[t] \notin {"body", "close"}
       /\ g # << >> => GoesOn(g[Len(g)])

GotInv ==
  ~Refused =>
    /\ \A r \in Readers : Begun(got[r])
    /\ ClientAlive =>
         /\ \A r \in Readers : got[r] # << >> => Continues(got[r])
         /\ (\A r \in Readers : got[r] = << >>) => Continues(<< >>)

ListenInv == OnlyGets => ReaderInv /\ GotInv

-----------------------------------------------------------------------------
\* A session that was just accepted has no thread and no frame.
LEMMA InitFrameInv == Init => FrameInv
  <1> SUFFICES ASSUME Init PROVE FrameInv
    OBVIOUS
  <1>1. TypeInv
    BY InitTypeInv
  <1>2. LockInv /\ RefuseInv
    BY SessionAssumption, CapacityNat DEF Init, LockInv, RefuseInv, Slots, Critical
  <1>3. RespInv
    BY DEF Init, RespInv
  <1> QED BY <1>1, <1>2, <1>3 DEF FrameInv

\* A step of the client leaves the worker alone, and takes at most one piece
\* from the response FIFO.
ClientStep ==
  UserTypes \/ ClientDies \/ MainThread \/ \E n \in Requests : Listener(n)

LEMMA ClientStepFrame ==
  ASSUME ClientStep
  PROVE  /\ UNCHANGED <<worker, threads>>
         /\ resp' = resp \/ (resp # << >> /\ resp' = Tail(resp))
  <1>1. CASE UserTypes
    BY <1>1 DEF UserTypes, cmd_send, cmd_post, cmd_login, cmd_logout, cmd_new_user,
       cmd_change_pass, cmd_get, cmd_close, SendAndReceive, send_cmd
  <1>2. ASSUME ClientExits PROVE UNCHANGED <<resp, worker, threads>>
    BY <1>2 DEF ClientExits
  <1>3. ASSUME NEW r, ReadPiece(r) \/ ParseFails(r)
        PROVE  /\ UNCHANGED <<worker, threads>>
               /\ resp' = resp \/ (resp # << >> /\ resp' = Tail(resp))
    BY <1>2, <1>3 DEF ReadPiece, ParseFails
  <1>4. CASE ClientDies
    BY <1>2, <1>4 DEF ClientDies
  <1>5. CASE MainThread
    BY <1>2, <1>3, <1>5 DEF MainThread, receive, MainLoopEnds
  <1>6. CASE \E n \in Requests : Listener(n)
    <2>1. PICK n \in Requests : Listener(n)
      BY <1>6
    <2> QED BY <1>3, <2>1 DEF Listener, data_listener_lock, get_handler
  <1> QED BY <1>1, <1>4, <1>5, <1>6 DEF ClientStep

-----------------------------------------------------------------------------
(* The frames of the response FIFO.                                        *)

\* Nothing that the frames depend on has changed.
LEMMA RespKept ==
  ASSUME RespInv, resp' = resp, Refused => Refused', out' = "open" => out = "open",
         \A t \in Slots : (tpc'[t] = "body" <=> tpc[t] = "body")
                            /\ (tpc'[t] = "close" <=> tpc[t] = "close")
  PROVE  RespInv'
  BY DEF RespInv, GoesOn

\* The empty sequence has no element.
LEMMA EmptySeq == ASSUME NEW S, NEW s \in Seq(S) PROVE s = << >> <=> Len(s) = 0
  OBVIOUS

\* A sequence without its first element.
LEMMA TailIndex ==
  ASSUME NEW S, NEW s \in Seq(S), s # << >>
  PROVE  /\ Len(s) \in Nat \ {0} /\ Tail(s) \in Seq(S) /\ Len(Tail(s)) = Len(s) - 1
         /\ Head(s) = s[1] /\ s[1] \in S
         /\ \A k \in 1 .. Len(s) - 1 : Tail(s)[k] = s[k + 1]
         /\ Tail(s) = << >> <=> Len(s) - 1 = 0
  <1>1. /\ Len(s) \in Nat \ {0} /\ Tail(s) \in Seq(S) /\ Len(Tail(s)) = Len(s) - 1
        /\ Head(s) = s[1] /\ s[1] \in S
    OBVIOUS
  <1>2. \A k \in 1 .. Len(s) - 1 : Tail(s)[k] = s[k + 1]
    OBVIOUS
  <1>3. Tail(s) = << >> <=> Len(s) - 1 = 0
    <2>1. \A r \in Seq(S) : r = << >> <=> Len(r) = 0
      OBVIOUS
    <2> QED BY <1>1, <2>1
  <1> QED BY <1>1, <1>2, <1>3

\* A sequence with one more element.
LEMMA AppendIndex ==
  ASSUME NEW S, NEW s \in Seq(S), NEW e \in S
  PROVE  /\ Len(s) \in Nat /\ Append(s, e) \in Seq(S) /\ Len(Append(s, e)) = Len(s) + 1
         /\ \A k \in 1 .. Len(s) : Append(s, e)[k] = s[k]
         /\ Append(s, e)[Len(s) + 1] = e
         /\ s = << >> <=> Len(s) = 0
  OBVIOUS

\* Taking the first piece leaves frames in the FIFO (comm.read.fifo.c 206).
LEMMA RespTail ==
  ASSUME TypeInv, RespInv, resp # << >>, resp' = Tail(resp),
         UNCHANGED <<num_threads, out, tpc>>
  PROVE  RespInv'
  <1> DEFINE n == Len(resp)
  <1>1. /\ n \in Nat \ {0} /\ Len(resp') = n - 1
        /\ \A k \in 1 .. n - 1 : resp'[k] = resp[k + 1]
        /\ (resp' = << >> <=> n - 1 = 0)
    BY TailIndex DEF TypeInv, TypeOK, PipeTypes
  <1> HIDE DEF n
  <1>2. Refused' <=> Refused
    BY DEF Refused
  <1>3. ASSUME ~Refused, NEW k \in 1 .. (n - 1) - 1
        PROVE  Follows(resp'[k], resp'[k + 1])
    <2>1. k \in 1 .. n - 1 /\ k + 1 \in 1 .. n - 1 /\ k \in Nat
      BY <1>1, <1>3
    <2>2. Follows(resp[k + 1], resp[(k + 1) + 1])
      BY <1>3, <2>1 DEF RespInv, n
    <2> QED BY <1>1, <2>1, <2>2
  <1>4. ASSUME ~Refused, n - 1 # 0, out = "open", NEW t \in Slots
        PROVE  /\ tpc[t] = "body" <=> resp[n].part = "open" /\ resp[n].frame = t
               /\ tpc[t] = "close" <=> resp[n].part = "body" /\ resp[n].frame = t
    BY <1>1, <1>4 DEF RespInv, GoesOn, n
  <1>5. ASSUME ~Refused', resp' # << >>, out' = "open"
        PROVE  GoesOn(resp[Len(resp)])'
    <2>1. resp'[Len(resp')] = resp[n]
      BY <1>1, <1>5
    <2> QED BY <1>1, <1>2, <1>4, <1>5, <2>1 DEF GoesOn
  <1>6. ASSUME ~Refused' PROVE \A k \in 1 .. Len(resp') - 1 : Follows(resp'[k], resp'[k + 1])
    BY <1>1, <1>2, <1>3, <1>6
  <1> QED BY <1>5, <1>6 DEF RespInv, Follows

\* A responder writes the piece that comes next: as it holds the lock, the last
\* piece is its own or closes a frame (comm.send.fifo.c 110-114).
LEMMA RespWrite ==
  ASSUME FrameInv, NEW t \in Slots, comm_send_data(t)
  PROVE  RespInv'
  <1> DEFINE n == Len(resp)
             part == tpc[t]
             text == IF tpc[t] = "body" THEN reply[t] ELSE "none"
             piece == [frame |-> t, part |-> part, text |-> text]
  <1>1. /\ part \in {"open", "body", "close"}
        /\ resp' = IF out = "open" THEN Append(resp, piece) ELSE resp
        /\ tpc' = [tpc EXCEPT ![t] = CASE part = "open" -> "body" [] part = "body" -> "close"
                                       [] OTHER -> "sent"]
        /\ UNCHANGED <<out, num_threads>>
    BY DEF comm_send_data, Write, Step, worker
  <1>2. /\ tpc'[t] = CASE part = "open" -> "body" [] part = "body" -> "close"
                       [] OTHER -> "sent"
        /\ \A u \in Slots \ {t} : tpc'[u] = tpc[u] /\ tpc[u] \notin {"body", "close"}
    <2>1. /\ tpc \in [Slots -> ThreadStates]
          /\ \A u \in Slots \ {t} : tpc[u] \notin {"body", "close"}
      BY <1>1 DEF FrameInv, TypeInv, TypeOK, ThreadTypes, LockInv, Critical
    <2> QED BY <1>1, <2>1
  <1>3. Refused' <=> Refused
    BY <1>1 DEF Refused
  <1>4. CASE out # "open"
    <2>1. resp' = resp /\ out' # "open"
      BY <1>1, <1>4
    <2> QED BY <1>3, <2>1 DEF FrameInv, RespInv
  <1>5. CASE out = "open"
    <2>1. piece \in Pieces
      <3>1. text \in Texts \cup {"none"}
        BY DEF FrameInv, TypeInv, TypeOK, ThreadTypes
      <3> HIDE DEF text, part
      <3> QED BY <1>1, <3>1 DEF Pieces
    <2>2. /\ piece.frame = t /\ piece.part = part
          /\ resp \in Seq(Pieces) /\ resp' = Append(resp, piece)
      BY <1>1, <1>5 DEF FrameInv, TypeInv, TypeOK, PipeTypes
    <2> HIDE DEF piece, part
    <2>3. /\ n \in Nat /\ Len(resp') = n + 1
          /\ \A k \in 1 .. n : resp'[k] = resp[k]
          /\ resp'[n + 1] = piece /\ (resp = << >> <=> n = 0)
      BY <2>1, <2>2, AppendIndex
    <2> HIDE DEF n
    <2>4. ASSUME ~Refused, n # 0 PROVE Follows(resp[n], piece)
      <3>1. GoesOn(resp[n])
        BY <1>5, <2>3, <2>4 DEF FrameInv, RespInv, n
      <3>2. resp[n].part \in {"open", "body", "close"} /\ resp[n].frame \in Slots
        <4>1. n \in 1 .. n
          BY <2>3, <2>4
        <4>2. resp[n] \in Pieces
          BY <2>2, <4>1 DEF n
        <4> QED BY <4>2 DEF Pieces
      <3>3. /\ resp[n].part = "open" => tpc[resp[n].frame] = "body"
            /\ resp[n].part = "body" => tpc[resp[n].frame] = "close"
        BY <3>1, <3>2 DEF GoesOn
      <3>4. resp[n].part \in {"open", "body"} => resp[n].frame = t
        BY <1>2, <3>2, <3>3
      <3>5. /\ part = "body" <=> resp[n].part = "open" /\ resp[n].frame = t
            /\ part = "close" <=> resp[n].part = "body" /\ resp[n].frame = t
        BY <3>1 DEF GoesOn, part
      <3> QED BY <1>1, <2>2, <3>2, <3>4, <3>5 DEF Follows
    <2>5. ASSUME ~Refused, NEW k \in 1 .. (n + 1) - 1
          PROVE  Follows(resp'[k], resp'[k + 1])
      <3>1. CASE k = n
        <4>1. n # 0 /\ resp'[k] = resp[n] /\ resp'[k + 1] = piece
          BY <2>3, <2>5, <3>1
        <4> QED BY <2>4, <2>5, <4>1
      <3>2. CASE k # n
        <4>1. k \in 1 .. n - 1 /\ k \in 1 .. n /\ k + 1 \in 1 .. n
          BY <2>3, <2>5, <3>2
        <4>2. Follows(resp[k], resp[k + 1])
          BY <2>5, <4>1 DEF FrameInv, RespInv, n
        <4> QED BY <2>3, <4>1, <4>2
      <3> QED BY <3>1, <3>2
    <2>6. ASSUME NEW u \in Slots
          PROVE  /\ tpc'[u] = "body" <=> piece.part = "open" /\ piece.frame = u
                 /\ tpc'[u] = "close" <=> piece.part = "body" /\ piece.frame = u
      <3>1. CASE u = t
        BY <1>1, <1>2, <2>2, <3>1
      <3>2. CASE u # t
        BY <1>2, <2>2, <3>2
      <3> QED BY <3>1, <3>2
    <2>7. GoesOn(resp[Len(resp)])'
      BY <2>3, <2>6 DEF GoesOn
    <2>8. ASSUME ~Refused' PROVE \A k \in 1 .. Len(resp') - 1 : Follows(resp'[k], resp'[k + 1])
      BY <1>3, <2>3, <2>5, <2>8
    <2> QED BY <2>7, <2>8 DEF RespInv, Follows
  <1> QED BY <1>4, <1>5

-----------------------------------------------------------------------------
(* The worker.                                                             *)

\* The client does not touch the lock nor the writers' places.
LEMMA ClientFrameInv ==
  ASSUME FrameInv, ClientStep, TypeInv'
  PROVE  FrameInv'
  <1>1. /\ UNCHANGED <<worker, threads>>
        /\ resp' = resp \/ (resp # << >> /\ resp' = Tail(resp))
    BY ClientStepFrame
  <1>2. UNCHANGED <<wpc, current_thread, num_threads, out, lock, tpc>>
    BY <1>1 DEF worker, threads
  <1>3. LockInv' /\ RefuseInv'
    BY <1>2 DEF FrameInv, LockInv, RefuseInv, Refused
  <1>4. CASE resp' = resp
    <2>1. RespInv'
      BY <1>2, <1>4, RespKept DEF FrameInv, Refused
    <2> QED BY <1>3, <2>1 DEF FrameInv
  <1>5. CASE resp # << >> /\ resp' = Tail(resp)
    <2>1. RespInv'
      BY <1>2, <1>5, RespTail DEF FrameInv
    <2> QED BY <1>3, <2>1 DEF FrameInv
  <1> QED BY <1>1, <1>4, <1>5

\* The receive loop gives each request a slot that no thread has had; what it
\* writes itself, it writes after a refusal (main.c 220-264).
LEMMA WorkerFrameInv ==
  ASSUME FrameInv, WorkerMain \/ WorkerKilled, TypeInv'
  PROVE  FrameInv'
  <1> USE SessionAssumption, CapacityNat DEF FrameInv
  <1>1. ASSUME UNCHANGED <<resp, lock, tpc, current_thread, num_threads>>,
               wpc' \notin {"open", "body", "close"}, out' \in {out, "reset"}
        PROVE  FrameInv'
    <2>1. LockInv' /\ RefuseInv'
      BY <1>1 DEF LockInv, RefuseInv
    <2>2. RespInv'
      BY <1>1, RespKept DEF Refused
    <2> QED BY <2>1, <2>2
  <1>2. CASE WorkerKilled \/ comm_receive_data_overruns
    BY <1>1, <1>2 DEF WorkerKilled, comm_receive_data_overruns, threads
  <1>3. CASE CheckConnection \/ comm_receive_data \/ connection_close \/ WorkerExit
    BY <1>1, <1>3 DEF CheckConnection, comm_receive_data, connection_close, WorkerExit, threads
  <1>4. CASE ReceiveAtEof
    BY <1>1, <1>2, <1>4 DEF ReceiveAtEof, threads
  <1>5. CASE Refuse
    <2>1. /\ wpc = "spawn" /\ 2 * num_threads > MaxThreads /\ num_threads' = 2 * num_threads
          /\ UNCHANGED <<resp, out, current_thread, lock, tpc>>
      BY <1>5 DEF Refuse, threads
    <2>2. Refused' /\ num_threads' >= MinThreads
      BY <2>1 DEF Refused, Capacity, RefuseInv, TypeInv, SlotInv
    <2>3. LockInv' /\ RefuseInv'
      BY <2>1, <2>2 DEF LockInv, RefuseInv
    <2>4. RespInv'
      BY <2>1, <2>2, RespKept
    <2> QED BY <2>3, <2>4
  <1>6. CASE SpawnThread
    <2> DEFINE t == current_thread + 1
    <2>1. /\ wpc' = "check" /\ current_thread' = t
          /\ num_threads' \in {num_threads, 2 * num_threads}
          /\ UNCHANGED <<resp, out, lock>>
      BY <1>6 DEF SpawnThread
    <2>2. PICK to \in {"parse", "none"} : tpc' = [tpc EXCEPT ![t] = to]
      BY <1>6 DEF SpawnThread
    <2>3. /\ wpc = "spawn" /\ num_threads \in Nat \ {0} /\ num_threads <= Capacity
          /\ current_thread \in Nat /\ current_thread' \in 0 .. Capacity /\ t \in Slots
      BY <1>6, <2>1 DEF SpawnThread, TypeInv, SlotInv, TypeOK, WorkerTypes, Slots
    <2>4. tpc[t] = "none"
      BY <2>3 DEF LockInv
    <2>5. \A u \in Slots : tpc'[u] = IF u = t THEN to ELSE tpc[u]
      BY <2>2, <2>3 DEF TypeInv, TypeOK, ThreadTypes
    <2>6. ~Refused
      BY <2>3 DEF Refused
    <2>7. LockInv'
      <3>1. \A u \in Slots : tpc'[u] \in Critical <=> tpc[u] \in Critical
        BY <2>4, <2>5 DEF Critical
      <3>2. \A u \in Slots : u > t => u > current_thread /\ u # t
        BY <2>3 DEF Slots
      <3> QED BY <2>1, <2>5, <3>1, <3>2 DEF LockInv
    <2>8. RefuseInv'
      BY <2>1, <2>3 DEF RefuseInv
    <2>9. RespInv'
      BY <2>1, <2>4, <2>5, <2>6, RespKept
    <2> QED BY <2>7, <2>8, <2>9
  <1>7. CASE SendMaxed
    <2>1. Refused /\ UNCHANGED <<current_thread, num_threads, lock, tpc>>
      BY <1>7 DEF SendMaxed, RefuseInv, threads
    <2>2. Refused'
      BY <2>1 DEF Refused
    <2> QED BY <2>1, <2>2 DEF LockInv, RefuseInv, RespInv
  <1> QED BY <1>2, <1>3, <1>4, <1>5, <1>6, <1>7 DEF WorkerMain

\* A responder enters the critical section when the lock is free and leaves it
\* when it unlocks (main.c 108-117).
LEMMA ResponderFrameInv ==
  ASSUME FrameInv, NEW t \in Slots, Responder(t), TypeInv'
  PROVE  FrameInv'
  <1> USE SessionAssumption, CapacityNat DEF FrameInv
  <1>0. tpc \in [Slots -> ThreadStates]
    BY DEF TypeInv, TypeOK, ThreadTypes
  <1>1. CASE parse_encoded_fails(t) \/ process_get_cmd_faults(t) \/ process_post_cmd_faults(t)
    BY <1>1, WorkerFrameInv DEF parse_encoded_fails, process_get_cmd_faults, process_post_cmd_faults
  <1>2. ASSUME NEW to \in Critical, tpc' = [tpc EXCEPT ![t] = to],
               tpc[t] \in Critical, lock' = lock,
               UNCHANGED worker
        PROVE  LockInv' /\ RefuseInv'
    <2>1. \A u \in Slots : tpc'[u] = IF u = t THEN to ELSE tpc[u]
      BY <1>0, <1>2
    <2>2. t <= current_thread
      BY <1>2 DEF LockInv, Critical, Slots, TypeInv, TypeOK, WorkerTypes
    <2>3. LockInv'
      BY <1>2, <2>1, <2>2 DEF LockInv, worker, Slots, TypeInv, TypeOK, WorkerTypes
    <2>4. RefuseInv'
      BY <1>2 DEF RefuseInv, Refused, worker
    <2> QED BY <2>3, <2>4
  <1>3. ASSUME NEW to \in ThreadStates \ {"body", "close"}, tpc' = [tpc EXCEPT ![t] = to],
               tpc[t] \notin {"body", "close"}, UNCHANGED <<resp, worker>>
        PROVE  RespInv'
    <2>1. \A u \in Slots : tpc'[u] = IF u = t THEN to ELSE tpc[u]
      BY <1>0, <1>3
    <2>2. \A u \in Slots : (tpc'[u] = "body" <=> tpc[u] = "body")
                             /\ (tpc'[u] = "close" <=> tpc[u] = "close")
      BY <1>3, <2>1
    <2> QED BY <1>3, <2>2, RespKept DEF worker, Refused
  <1>4. ASSUME NEW s, Answer(t, s), tpc[t] = "dispatch" PROVE FrameInv'
    BY <1>2, <1>3, <1>4 DEF Answer, Step, Critical, ThreadStates
  <1>5. CASE \/ process_echo(t) \/ process_get_cmd(t) \/ process_post_cmd(t)
             \/ process_new_user_cmd(t) \/ process_change_pass_cmd(t)
             \/ process_login_cmd(t) \/ process_logout_cmd(t)
    BY <1>4, <1>5 DEF process_echo, process_get_cmd, process_post_cmd, process_new_user_cmd,
       process_change_pass_cmd, process_login_cmd, process_logout_cmd, Handles, AnswerIfLogged
  <1>6. CASE process_close(t)
    <2>1. /\ tpc[t] = "dispatch" /\ tpc' = [tpc EXCEPT ![t] = "unlock"] /\ lock' = lock
          /\ UNCHANGED <<resp, wpc, out, current_thread, num_threads>>
      BY <1>6 DEF process_close, Handles, Step
    <2>2. \A u \in Slots : tpc'[u] = IF u = t THEN "unlock" ELSE tpc[u]
      BY <1>0, <2>1
    <2>3. RespInv'
      BY <2>1, <2>2, RespKept DEF Refused
    <2>4. LockInv'
      BY <2>1, <2>2 DEF LockInv, Critical
    <2>5. RefuseInv'
      BY <2>1 DEF RefuseInv, Refused
    <2> QED BY <2>3, <2>4, <2>5
  <1>7. CASE pthread_mutex_lock(t)
    <2>1. /\ tpc[t] = "parse" /\ lock = 0 /\ lock' = t
          /\ tpc' = [tpc EXCEPT ![t] = "dispatch"] /\ UNCHANGED <<resp, worker>>
      BY <1>7 DEF pthread_mutex_lock, Step
    <2>2. \A u \in Slots : tpc'[u] = IF u = t THEN "dispatch" ELSE tpc[u]
      BY <1>0, <2>1
    <2>3. \A u \in Slots : u # 0 /\ tpc[u] \notin Critical
      BY <2>1 DEF LockInv, Slots
    <2>4. LockInv'
      BY <2>1, <2>2, <2>3 DEF LockInv, Critical, worker
    <2>5. RefuseInv'
      BY <2>1 DEF RefuseInv, Refused, worker
    <2> QED BY <1>3, <2>1, <2>4, <2>5 DEF ThreadStates
  <1>8. CASE comm_send_data(t)
    <2>1. LockInv' /\ RefuseInv'
      <3>1. /\ tpc[t] \in {"open", "body", "close"} /\ lock' = lock /\ UNCHANGED worker
            /\ tpc' = [tpc EXCEPT ![t] = CASE tpc[t] = "open" -> "body"
                                           [] tpc[t] = "body" -> "close" [] OTHER -> "sent"]
        BY <1>8 DEF comm_send_data, Step
      <3> QED BY <1>2, <3>1 DEF Critical
    <2> QED BY <1>8, <2>1, RespWrite
  <1>9. CASE FinishHandler(t)
    BY <1>2, <1>3, <1>9 DEF FinishHandler, Step, Critical, ThreadStates
  <1>10. CASE pthread_mutex_unlock(t)
    <2>1. /\ tpc[t] = "unlock" /\ lock' = 0
          /\ tpc' = [tpc EXCEPT ![t] = "done"] /\ UNCHANGED <<resp, worker>>
      BY <1>10 DEF pthread_mutex_unlock, Step
    <2>2. \A u \in Slots : tpc'[u] = IF u = t THEN "done" ELSE tpc[u]
      BY <1>0, <2>1
    <2>3. \A u \in Slots \ {t} : u # 0 /\ tpc[u] \notin Critical
      BY <2>1 DEF LockInv, Slots, Critical
    <2>4. LockInv'
      BY <2>1, <2>2, <2>3 DEF LockInv, Critical, worker, Slots
    <2>5. RefuseInv'
      BY <2>1 DEF RefuseInv, Refused, worker
    <2> QED BY <1>3, <2>1, <2>4, <2>5 DEF ThreadStates
  <1> QED BY <1>1, <1>5, <1>6, <1>7, <1>8, <1>9, <1>10 DEF Responder

\* FrameInv is inductive.
LEMMA NextFrameInv == FrameInv /\ [Next]_vars => FrameInv'
  <1> SUFFICES ASSUME FrameInv, [Next]_vars PROVE FrameInv'
    OBVIOUS
  <1>1. TypeInv'
    BY NextTypeInv DEF FrameInv
  <1>2. CASE ClientStep
    BY <1>1, <1>2, ClientFrameInv
  <1>3. CASE WorkerMain \/ Sigpipe
    BY <1>1, <1>3, WorkerFrameInv DEF Sigpipe
  <1>4. CASE \E t \in Slots : Responder(t)
    BY <1>1, <1>4, ResponderFrameInv
  <1>5. CASE UNCHANGED vars
    <2>1. LockInv' /\ RefuseInv'
      BY <1>5 DEF vars, worker, threads, FrameInv, LockInv, RefuseInv, Refused
    <2>2. RespInv'
      BY <1>5, RespKept DEF vars, worker, threads, FrameInv, Refused
    <2> QED BY <1>1, <2>1, <2>2 DEF FrameInv
  <1> QED BY <1>2, <1>3, <1>4, <1>5 DEF Next, ClientStep

LEMMA AlwaysFrameInv == Spec => []FrameInv
  BY InitFrameInv, NextFrameInv, PTL DEF Spec

\* Two responders of a worker are never both between lock and unlock, so that
\* one request is handled and answered before the next is looked at (main.c
\* 108-117).
THEOREM OneHandler ==
  Spec => [](\A t \in Slots, u \in Slots : tpc[t] \in Critical /\ tpc[u] \in Critical => t = u)
  <1>1. FrameInv => \A t \in Slots, u \in Slots : tpc[t] \in Critical /\ tpc[u] \in Critical => t = u
    BY DEF FrameInv, LockInv
  <1> QED BY <1>1, AlwaysFrameInv, PTL

\* However many responders are under way, the response FIFO holds whole frames
\* as long as the worker has not refused a request (comm.send.fifo.c 110-114,
\* main.c 108-117).
THEOREM RepliesStayWhole == Spec => []FramesWholeUnlessRefused
  <1>1. FrameInv => FramesWholeUnlessRefused
    <2> SUFFICES ASSUME FrameInv, ~Refused, NEW k \in 1 .. Len(resp) - 1
                 PROVE  \/ resp[k].part = "close"
                        \/ /\ resp[k + 1].frame = resp[k].frame
                           /\ resp[k].part = "open" => resp[k + 1].part = "body"
                           /\ resp[k].part = "body" => resp[k + 1].part = "close"
      BY DEF FramesWholeUnlessRefused, FramesWhole
    <2>1. Follows(resp[k], resp[k + 1])
      BY DEF FrameInv, RespInv
    <2>2. resp[k] \in Pieces
      <3>1. resp \in Seq(Pieces) /\ Len(resp) \in Nat
        BY DEF FrameInv, TypeInv, TypeOK, PipeTypes
      <3>2. k \in 1 .. Len(resp)
        BY <3>1
      <3> QED BY <3>1, <3>2
    <2> QED BY <2>1, <2>2 DEF Follows, Pieces
  <1> QED BY <1>1, AlwaysFrameInv, PTL

-----------------------------------------------------------------------------
(* The readers.                                                            *)

\* Two readers are never reading at once.
LEMMA OneReader ==
  ASSUME ReaderInv, NEW r \in Readers, NEW s \in Readers,
         rpc[r] = "reading", rpc[s] = "reading"
  PROVE  r = s
  <1>1. \A u \in Readers : u = Main \/ u \in Requests
    BY SessionAssumption DEF Readers, Requests, Main
  <1> QED BY <1>1 DEF ReaderInv

\* Where a reader stands, the FIFO goes on as before: nothing was written.
LEMMA ContinuesKept ==
  ASSUME NEW g, Continues(g), resp' = resp, out' = "open" => out = "open",
         \A t \in Slots : (tpc'[t] = "body" <=> tpc[t] = "body")
                            /\ (tpc'[t] = "close" <=> tpc[t] = "close")
  PROVE  Continues(g)'
  BY DEF Continues, GoesOn

\* The last piece of a frame that has begun.
LEMMA LastBegun ==
  ASSUME NEW g \in Seq(Pieces), Begun(g), g # << >>
  PROVE  /\ Len(g) \in {1, 2} /\ g[Len(g)] \in Pieces /\ g[1] \in Pieces
         /\ g[1].part = "open" /\ g[Len(g)].frame = g[1].frame
         /\ g[Len(g)].part = IF Len(g) = 1 THEN "open" ELSE "body"
  <1>1. Len(g) \in {1, 2}
    <2>1. Len(g) \in Nat \ {0}
      OBVIOUS
    <2>2. Len(g) <= 2
      BY DEF Begun
    <2>3. \A n \in Nat \ {0} : n <= 2 => n \in {1, 2}
      OBVIOUS
    <2> QED BY <2>1, <2>2, <2>3, Zenon
  <1>2. 1 \in 1 .. Len(g) /\ Len(g) \in 1 .. Len(g)
    BY <1>1
  <1>3. g[Len(g)] \in Pieces /\ g[1] \in Pieces
    BY <1>2
  <1>4. g[1].part = "open" /\ g[Len(g)].frame = g[1].frame
    BY <1>2 DEF Begun
  <1>5. g[Len(g)].part = IF Len(g) = 1 THEN "open" ELSE "body"
    <2>1. g[Len(g)].part = <<"open", "body">>[Len(g)]
      BY <1>2 DEF Begun
    <2>2. <<"open", "body">>[1] = "open" /\ <<"open", "body">>[2] = "body"
      OBVIOUS
    <2> QED BY <1>1, <2>1, <2>2
  <1> QED BY <1>1, <1>3, <1>4, <1>5

\* A responder writes what a reader that has emptied the FIFO waits for.
LEMMA ContinuesWrite ==
  ASSUME FrameInv, NEW t \in Slots, comm_send_data(t),
         NEW g \in Seq(Pieces), Begun(g), Continues(g)
  PROVE  Continues(g)'
  <1> DEFINE part == tpc[t]
             text == IF tpc[t] = "body" THEN reply[t] ELSE "none"
             piece == [frame |-> t, part |-> part, text |-> text]
  <1>1. /\ part \in {"open", "body", "close"}
        /\ resp' = IF out = "open" THEN Append(resp, piece) ELSE resp
        /\ out' = out
    BY DEF comm_send_data, Write, worker
  <1>2. CASE out # "open"
    BY <1>1, <1>2 DEF Continues
  <1>3. CASE out = "open"
    <2>1. piece \in Pieces /\ piece.frame = t /\ piece.part = part
      <3>1. text \in Texts \cup {"none"}
        BY DEF FrameInv, TypeInv, TypeOK, ThreadTypes
      <3> HIDE DEF text, part
      <3> QED BY <1>1, <3>1 DEF Pieces
    <2>2. resp \in Seq(Pieces) /\ resp' = Append(resp, piece)
      BY <1>1, <1>3 DEF FrameInv, TypeInv, TypeOK, PipeTypes
    <2> HIDE DEF piece, part
    <2>3. /\ resp' # << >>
          /\ resp = << >> => Head(resp') = piece
          /\ resp # << >> => Head(resp') = Head(resp)
      BY <2>1, <2>2
    <2>4. CASE resp # << >>
      BY <2>3, <2>4 DEF Continues
    <2>5. CASE resp = << >>
      <3>1. CASE g = << >>
        <4>1. part = "open"
          BY <1>1, <1>3, <2>5, <3>1 DEF Continues, part
        <4> QED BY <2>1, <2>3, <2>5, <3>1, <4>1 DEF Continues
      <3>2. CASE g # << >>
        <4> DEFINE l == g[Len(g)]
        <4>1. l \in Pieces /\ l.part \in {"open", "body"}
          BY <3>2, LastBegun
        <4>2. GoesOn(l)
          BY <1>3, <2>5, <3>2 DEF Continues
        <4> HIDE DEF l
        <4>3. l.frame \in Slots
          BY <4>1 DEF Pieces
        <4>4. /\ l.part = "open" => tpc[l.frame] = "body"
              /\ l.part = "body" => tpc[l.frame] = "close"
          BY <4>2, <4>3 DEF GoesOn
        <4>5. tpc[t] \in Critical /\ tpc[l.frame] \in Critical
          BY <1>1, <4>1, <4>4 DEF Critical, part
        <4>6. l.frame = t
          BY <4>3, <4>5 DEF FrameInv, LockInv
        <4>7. Follows(l, piece)
          BY <2>1, <4>1, <4>4, <4>6 DEF Follows, part
        <4> QED BY <2>3, <2>5, <3>2, <4>7 DEF Continues, l
      <3> QED BY <3>1, <3>2
    <2> QED BY <2>4, <2>5
  <1> QED BY <1>2, <1>3

\* Taking the first piece: what a reader then holds continues in what is left.
LEMMA ContinuesRead ==
  ASSUME FrameInv, ~Refused, resp # << >>, resp' = Tail(resp), UNCHANGED <<out, tpc>>,
         NEW g \in Seq(Pieces), Begun(g), Continues(g), NEW p, p = Head(resp)
  PROVE  /\ g = << >> => p.part = "open"
         /\ g # << >> => p.frame = g[1].frame
         /\ Len(g) = 1 => p.part = "body"
         /\ Len(g) = 2 => p.part = "close" /\ Continues(<< >>)'
         /\ Len(g) < 2 => Begun(Append(g, p)) /\ Continues(Append(g, p))'
  <1> DEFINE h == Append(g, p)
             n == Len(resp)
  <1>1. /\ n \in Nat \ {0} /\ p = resp[1] /\ p \in Pieces
        /\ resp' \in Seq(Pieces) /\ Len(resp') = n - 1
        /\ \A k \in 1 .. n - 1 : resp'[k] = resp[k + 1]
        /\ (resp' = << >> <=> n - 1 = 0)
    BY TailIndex DEF FrameInv, TypeInv, TypeOK, PipeTypes
  <1>2. /\ g = << >> => p.part = "open"
        /\ g # << >> => Follows(g[Len(g)], p)
    BY DEF Continues
  <1>3. g # << >> => p.frame = g[1].frame
    BY <1>2, LastBegun DEF Follows
  <1>4. Len(g) = 1 => p.part = "body"
    BY <1>2, LastBegun DEF Follows
  <1>5. ASSUME Len(g) = 2 PROVE p.part = "close"
    <2>1. g # << >>
      <3>1. g = << >> <=> Len(g) = 0
        BY EmptySeq
      <3> QED BY <1>5, <3>1
    <2>2. g[Len(g)].part = "body"
      BY <1>5, <2>1, LastBegun
    <2> QED BY <1>2, <2>1, <2>2 DEF Follows
  <1>6. resp' # << >> => Follows(p, Head(resp')) /\ Head(resp') \in Pieces
    <2>1. ASSUME resp' # << >> PROVE Follows(resp[1], resp[1 + 1]) /\ Head(resp') = resp[1 + 1]
      <3>1. 1 \in 1 .. n - 1
        BY <1>1, <2>1
      <3>2. Head(resp') = resp'[1]
        BY <1>1, <2>1
      <3> QED BY <1>1, <3>1, <3>2 DEF FrameInv, RespInv
    <2> QED BY <1>1, <2>1
  <1>7. resp' = << >> /\ out = "open" => GoesOn(p)
    BY <1>1 DEF FrameInv, RespInv
  <1>8. ASSUME Len(g) = 2 PROVE Continues(<< >>)'
    <2>1. p.part = "close"
      BY <1>5, <1>8
    <2>2. resp' # << >> => Head(resp').part = "open"
      BY <1>6, <2>1 DEF Follows
    <2>3. resp' = << >> /\ out' = "open" => \A t \in Slots : tpc'[t] \notin {"body", "close"}
      BY <1>7, <2>1 DEF GoesOn
    <2> QED BY <2>2, <2>3 DEF Continues
  <1>9. ASSUME Len(g) < 2 PROVE Begun(h) /\ Continues(h)'
    <2>1. /\ Len(g) \in {0, 1} /\ Len(h) = Len(g) + 1 /\ h # << >>
          /\ h[Len(h)] = p /\ \A k \in 1 .. Len(g) : h[k] = g[k]
          /\ g = << >> <=> Len(g) = 0
      <3>1. /\ Len(g) \in Nat /\ Len(h) = Len(g) + 1 /\ h \in Seq(Pieces)
            /\ \A k \in 1 .. Len(g) : h[k] = g[k]
            /\ h[Len(g) + 1] = p /\ (g = << >> <=> Len(g) = 0)
        BY <1>1, AppendIndex
      <3>2. h # << >>
        BY <3>1
      <3> HIDE DEF h
      <3>3. Len(g) \in {0, 1}
        <4>1. \A m \in Nat : m < 2 => m \in {0, 1}
          OBVIOUS
        <4> QED BY <1>9, <3>1, <4>1, Zenon
      <3> QED BY <3>1, <3>2, <3>3
    <2> HIDE DEF h
    <2>0. <<"open", "body">>[1] = "open" /\ <<"open", "body">>[2] = "body"
      OBVIOUS
    <2>2. Begun(h)
      <3>1. CASE Len(g) = 0
        <4>1. \A k \in 1 .. Len(h) : k = 1
          BY <2>1, <3>1
        <4>2. h[1].part = <<"open", "body">>[1]
          BY <1>2, <2>0, <2>1, <3>1
        <4> QED BY <2>1, <3>1, <4>1, <4>2 DEF Begun
      <3>2. CASE Len(g) = 1
        <4>1. \A k \in 1 .. Len(h) : k \in {1, 2}
          BY <2>1, <3>2
        <4>2. h[1] = g[1] /\ h[2] = p
          BY <2>1, <3>2
        <4>3. h[1].part = <<"open", "body">>[1] /\ h[2].part = <<"open", "body">>[2]
          BY <1>4, <2>0, <2>1, <3>2, <4>2, LastBegun
        <4>4. h[2].frame = h[1].frame
          BY <1>3, <2>1, <3>2, <4>2
        <4> QED BY <2>1, <3>2, <4>1, <4>3, <4>4 DEF Begun
      <3> QED BY <2>1, <3>1, <3>2
    <2>3. Continues(h)'
      <3>1. resp' # << >> => Follows(h[Len(h)], Head(resp'))
        BY <1>6, <2>1
      <3>2. resp' = << >> /\ out' = "open" => GoesOn(p)'
        BY <1>7 DEF GoesOn
      <3> QED BY <2>1, <3>1, <3>2 DEF Continues
    <2> QED BY <2>2, <2>3
  <1> QED BY <1>2, <1>3, <1>4, <1>5, <1>8, <1>9

\* While one reader reads, the others hold nothing.
LEMMA OthersHoldNothing ==
  ASSUME ReaderInv, NEW r \in Readers, rpc[r] = "reading"
  PROVE  /\ ClientAlive
         /\ \A s \in Readers \ {r} : ClientAlive => got[s] = << >>
  <1>1. \A u \in Readers : u = Main \/ u \in Requests
    BY SessionAssumption DEF Readers, Requests, Main
  <1>2. ClientAlive
    BY <1>1 DEF ReaderInv, ClientAlive
  <1>3. \A s \in Readers : s # r => rpc[s] # "reading"
    BY OneReader
  <1> QED BY <1>2, <1>3 DEF ReaderInv

\* A reader takes a piece that is not the end of a frame: it is the beginning
\* of one, or its text behind the beginning.
LEMMA GotRead ==
  ASSUME FrameInv, ReaderInv, GotInv, NEW r \in Readers, ReadPiece(r)
  PROVE  GotInv'
  <1>1. /\ rpc[r] = "reading" /\ resp # << >> /\ ~Completes(r, Head(resp))
        /\ got' = [got EXCEPT ![r] = Append(got[r], Head(resp))] /\ resp' = Tail(resp)
        /\ UNCHANGED <<cpc, num_threads, out, tpc>>
    BY DEF ReadPiece, worker, threads
  <1>2. SUFFICES ASSUME ~Refused
                 PROVE  /\ \A s \in Readers : Begun(got[s])'
                        /\ \A s \in Readers : got'[s] # << >> => Continues(got[s])'
                        /\ (\A s \in Readers : got'[s] = << >>) => Continues(<< >>)'
    BY <1>1 DEF GotInv, Refused
  <1>3. PICK g : g = got[r]
    OBVIOUS
  <1>4. PICK p : p = Head(resp)
    OBVIOUS
  <1>5. g \in Seq(Pieces) /\ Begun(g) /\ p \in Pieces
    BY <1>1, <1>2, <1>3, <1>4, HeadPiece DEF GotInv, FrameInv, TypeInv, TypeOK, PipeTypes
  <1>6. /\ ClientAlive
        /\ \A s \in Readers \ {r} : got[s] = << >>
    BY <1>1, OthersHoldNothing
  <1>7. Continues(g)
    <2>1. CASE g = << >>
      <3>1. \A s \in Readers : got[s] = << >>
        BY <1>3, <1>6, <2>1
      <3> QED BY <1>2, <1>6, <2>1, <3>1 DEF GotInv
    <2>2. CASE g # << >>
      BY <1>2, <1>3, <1>6, <2>2 DEF GotInv
    <2> QED BY <2>1, <2>2
  <1>8. /\ g = << >> => p.part = "open"
        /\ g # << >> => p.frame = g[1].frame
        /\ Len(g) = 1 => p.part = "body"
        /\ Len(g) = 2 => p.part = "close"
        /\ Len(g) < 2 => Begun(Append(g, p)) /\ Continues(Append(g, p))'
    BY <1>1, <1>2, <1>4, <1>5, <1>7, ContinuesRead
  <1>9. Len(g) < 2
    <2>1. SUFFICES ASSUME Len(g) = 2 PROVE FALSE
      <3>1. Len(g) \in Nat /\ Len(g) <= 2
        BY <1>5 DEF Begun
      <3>2. \A n \in Nat : n <= 2 => n < 2 \/ n = 2
        OBVIOUS
      <3> QED BY <3>1, <3>2, <2>1
    <2>2. g # << >>
      <3>1. g = << >> <=> Len(g) = 0
        BY <1>5, EmptySeq
      <3> QED BY <2>1, <3>1
    <2>3. p.part = "close" /\ p.frame = g[1].frame /\ g[1].part = "open"
      BY <1>5, <1>8, <2>1, <2>2, LastBegun
    <2> QED BY <1>1, <1>3, <1>4, <2>2, <2>3 DEF Completes, IsBoundary
  <1>10. PICK h : h = Append(g, p)
    OBVIOUS
  <1>11. Begun(h) /\ Continues(h)' /\ h # << >>
    BY <1>5, <1>8, <1>9, <1>10
  <1>12. got'[r] = h /\ \A s \in Readers \ {r} : got'[s] = << >>
    BY <1>1, <1>3, <1>4, <1>6, <1>10 DEF FrameInv, TypeInv, TypeOK, PipeTypes
  <1>13. Begun(<< >>)
    BY DEF Begun
  <1>14. \A s \in Readers : Begun(got[s])'
    <2> SUFFICES ASSUME NEW s \in Readers PROVE Begun(got[s])'
      OBVIOUS
    <2>1. PICK e : e = got'[s]
      OBVIOUS
    <2>2. Begun(e)
      BY <1>11, <1>12, <1>13, <2>1
    <2> QED BY <2>1, <2>2 DEF Begun
  <1>15. \A s \in Readers : got'[s] # << >> => Continues(got[s])'
    <2> SUFFICES ASSUME NEW s \in Readers, got'[s] # << >> PROVE Continues(got[s])'
      OBVIOUS
    <2>1. got'[s] = h
      BY <1>12
    <2> QED BY <1>11, <2>1 DEF Continues
  <1>16. ~(\A s \in Readers : got'[s] = << >>)
    BY <1>11, <1>12
  <1> QED BY <1>14, <1>15, <1>16

\* A reader takes the end of a frame, which it holds the beginning and the text
\* of; no reader then holds anything.
LEMMA GotComplete ==
  ASSUME FrameInv, ReaderInv, GotInv, NEW r \in Readers,
         rpc[r] = "reading", resp # << >>, Completes(r, Head(resp)),
         got' = [got EXCEPT ![r] = << >>], resp' = Tail(resp),
         UNCHANGED <<num_threads, out, tpc>>
  PROVE  GotInv'
  <1>1. SUFFICES ASSUME ~Refused
                 PROVE  /\ \A s \in Readers : Begun(got[s])'
                        /\ \A s \in Readers : got'[s] # << >> => Continues(got[s])'
                        /\ Continues(<< >>)'
    BY DEF GotInv, Refused
  <1>2. PICK g : g = got[r]
    OBVIOUS
  <1>3. PICK p : p = Head(resp)
    OBVIOUS
  <1>4. g \in Seq(Pieces) /\ Begun(g) /\ g # << >>
    BY <1>1, <1>2 DEF Completes, GotInv, FrameInv, TypeInv, TypeOK, PipeTypes
  <1>5. /\ ClientAlive
        /\ \A s \in Readers \ {r} : got[s] = << >>
    BY OthersHoldNothing
  <1>6. Continues(g)
    BY <1>1, <1>2, <1>4, <1>5 DEF GotInv
  <1>7. /\ Len(g) = 1 => p.part = "body"
        /\ Len(g) = 2 => Continues(<< >>)'
    BY <1>1, <1>3, <1>4, <1>6, ContinuesRead
  <1>8. Len(g) \in {1, 2} /\ p.part # "body"
    BY <1>3, <1>4, LastBegun DEF Completes, IsBoundary
  <1>9. Continues(<< >>)'
    BY <1>7, <1>8
  <1>10. \A s \in Readers : got'[s] = << >>
    BY <1>5 DEF FrameInv, TypeInv, TypeOK, PipeTypes
  <1>11. Begun(<< >>)
    BY DEF Begun
  <1>12. \A s \in Readers : Begun(got[s])'
    <2> SUFFICES ASSUME NEW s \in Readers PROVE Begun(got[s])'
      OBVIOUS
    <2>1. got'[s] = << >>
      BY <1>10
    <2> QED BY <1>11, <2>1 DEF Begun
  <1> QED BY <1>9, <1>10, <1>12

\* The pipe and the worker are as before, the readers hold what they held.
LEMMA GotKept ==
  ASSUME GotInv, ClientAlive' => ClientAlive, Refused => Refused',
         got' = got, resp' = resp, out' = "open" => out = "open",
         \A t \in Slots : (tpc'[t] = "body" <=> tpc[t] = "body")
                            /\ (tpc'[t] = "close" <=> tpc[t] = "close")
  PROVE  GotInv'
  <1>1. SUFFICES ASSUME ~Refused
                 PROVE  /\ \A s \in Readers : Begun(got[s])'
                        /\ ClientAlive =>
                             /\ \A s \in Readers : got[s] # << >> => Continues(got[s])'
                             /\ (\A s \in Readers : got[s] = << >>) => Continues(<< >>)'
    BY DEF GotInv
  <1>2. \A s \in Readers : Begun(got[s])'
    BY <1>1 DEF GotInv, Begun
  <1>3. ASSUME ClientAlive, NEW s \in Readers, got[s] # << >> PROVE Continues(got[s])'
    <2>1. PICK g : g = got[s]
      OBVIOUS
    <2>2. Continues(g)
      BY <1>1, <1>3, <2>1 DEF GotInv
    <2>3. Continues(g)'
      BY <2>2, ContinuesKept
    <2> QED BY <2>1, <2>3 DEF Continues
  <1>4. ASSUME ClientAlive, \A s \in Readers : got[s] = << >> PROVE Continues(<< >>)'
    <2>1. Continues(<< >>)
      BY <1>1, <1>4 DEF GotInv
    <2> QED BY <2>1, ContinuesKept
  <1> QED BY <1>2, <1>3, <1>4

\* A login or a get: the one starts the main thread's reading, the other, after
\* the login, a listener that waits for the mutex (commands.c 240-297, 366-404).
LEMMA TypedListenInv ==
  ASSUME FrameInv, OnlyGets, ReaderInv, GotInv, UserTypes
  PROVE  ReaderInv' /\ GotInv'
  <1> USE SessionAssumption DEF Main
  <1>1. /\ cmd_login \/ cmd_get
        /\ cpc = "prompt" /\ nsent < MaxRequests /\ nsent' = nsent + 1
        /\ UNCHANGED <<logged, misread, clock, got, resp, worker, threads>>
    BY DEF UserTypes, cmd_send, cmd_post, cmd_login, cmd_logout, cmd_new_user,
       cmd_change_pass, cmd_get, cmd_close, SendAndReceive, send_cmd, OnlyGets
  <1>2. /\ nsent \in Nat /\ rpc \in [Readers -> {"off", "blocked", "reading"}]
        /\ Main \in Readers /\ Requests \subseteq Readers /\ Main \notin Requests
        /\ Requests \subseteq Nat /\ nsent + 1 \in Requests
    BY <1>1 DEF FrameInv, TypeInv, TypeOK, ClientTypes, Readers, Requests
  <1>3. rpc[Main] # "reading"
    BY <1>1 DEF ReaderInv
  <1>4. CASE cmd_login
    <2>1. /\ logged = "no" /\ cmd' = "login" /\ cpc' = "waiting"
          /\ rpc' = [rpc EXCEPT ![Main] = "reading"]
      BY <1>4 DEF cmd_login, SendAndReceive, send_cmd
    <2>2. \A n \in Requests : rpc[n] = "off" /\ rpc'[n] = "off"
      BY <1>2, <2>1 DEF ReaderInv
    <2>3. \A s \in Readers : rpc[s] = "reading" => rpc'[s] = "reading"
      BY <1>2, <2>1
    <2>4. ReaderInv'
      BY <1>1, <2>1, <2>2, <2>3 DEF ReaderInv, ClientAlive
    <2>5. GotInv'
      BY <1>1, <2>1, GotKept DEF ClientAlive, worker, threads, Refused
    <2> QED BY <2>4, <2>5
  <1>5. CASE cmd_get
    <2>1. logged = "yes" /\ cpc' = cpc
      BY <1>5 DEF cmd_get
    <2>2. PICK created \in {"blocked", "off"} : rpc' = [rpc EXCEPT ![nsent + 1] = created]
      BY <1>5 DEF cmd_get
    <2>3. rpc[nsent + 1] = "off"
      BY <1>2 DEF ReaderInv
    <2>4. \A s \in Readers : rpc'[s] = IF s = nsent + 1 THEN created ELSE rpc[s]
      BY <1>2, <2>2
    <2>5. \A s \in Readers : rpc'[s] = "reading" <=> rpc[s] = "reading"
      BY <2>3, <2>4
    <2>6. \A n \in Requests : rpc'[n] # "off" => n <= nsent'
      BY <1>1, <1>2, <2>4 DEF ReaderInv
    <2>7. ReaderInv'
      BY <1>1, <1>2, <1>3, <2>1, <2>5, <2>6 DEF ReaderInv, ClientAlive
    <2>8. GotInv'
      BY <1>1, <2>1, GotKept DEF ClientAlive, worker, threads, Refused
    <2> QED BY <2>7, <2>8
  <1> QED BY <1>1, <1>4, <1>5

\* The end of the client ends its readers.
LEMMA ExitListenInv ==
  ASSUME FrameInv, ReaderInv, GotInv, ClientExits
  PROVE  ReaderInv' /\ GotInv'
  <1>1. /\ cpc' = "exited" /\ rpc' = [r \in Readers |-> "off"] /\ clock' = 0
        /\ UNCHANGED <<got, resp, worker, threads>>
    BY DEF ClientExits
  <1>2. Main \in Readers /\ Requests \subseteq Readers /\ 0 \notin Requests
    BY SessionAssumption DEF Readers, Requests, Main
  <1>3. ReaderInv'
    BY <1>1, <1>2 DEF ReaderInv, ClientAlive
  <1>4. GotInv'
    BY <1>1, GotKept DEF ClientAlive, worker, threads, Refused
  <1> QED BY <1>3, <1>4

\* A reader locks the mutex, takes a piece or completes a frame
\* (comm.send.fifo.c 48-101, comm.read.fifo.c 189-229).
LEMMA ReaderListenInv ==
  ASSUME FrameInv, ReaderInv, GotInv, NEW r \in Readers,
         \/ ReadPiece(r) \/ ParseFails(r)
         \/ r = Main /\ receive
         \/ r \in Requests /\ (data_listener_lock(r) \/ get_handler(r))
  PROVE  ReaderInv' /\ GotInv'
  <1> USE SessionAssumption DEF Main
  <1>0. /\ rpc \in [Readers -> {"off", "blocked", "reading"}] /\ got \in [Readers -> Seq(Pieces)]
        /\ Main \in Readers /\ Requests \subseteq Readers /\ Main \notin Requests
    BY DEF FrameInv, TypeInv, TypeOK, ClientTypes, PipeTypes, Readers, Requests
  <1>1. CASE ReadPiece(r)
    <2>1. /\ rpc[r] = "reading" /\ UNCHANGED <<cpc, logged, misread, cmd, nsent, rpc, clock>>
          /\ got' = [got EXCEPT ![r] = Append(@, Head(resp))]
      BY <1>1 DEF ReadPiece
    <2>2. \A s \in Readers \ {r} : got'[s] = got[s]
      BY <1>0, <2>1
    <2>3. ReaderInv'
      BY <2>1, <2>2 DEF ReaderInv, ClientAlive
    <2> QED BY <1>1, <2>3, GotRead
  <1>2. CASE ParseFails(r)
    BY <1>2, ExitListenInv DEF ParseFails
  <1>3. ASSUME rpc[r] = "reading", resp # << >>, Completes(r, Head(resp)),
               rpc' = [rpc EXCEPT ![r] = "off"], got' = [got EXCEPT ![r] = << >>],
               resp' = Tail(resp), UNCHANGED <<worker, threads>>
        PROVE  /\ GotInv'
               /\ rpc'[r] = "off" /\ \A s \in Readers \ {r} : rpc'[s] = rpc[s]
               /\ \A s \in Readers : got'[s] = << >>
    <2>1. GotInv'
      BY <1>3, GotComplete DEF worker, threads
    <2>2. \A s \in Readers \ {r} : got[s] = << >>
      BY <1>3, OthersHoldNothing
    <2> QED BY <1>0, <1>3, <2>1, <2>2
  <1>4. CASE r = Main /\ receive
    <2>1. /\ cpc' = "prompt" /\ UNCHANGED <<nsent, clock, cmd>>
          /\ rpc[Main] = "reading"
      BY <1>4 DEF receive
    <2>2. /\ GotInv'
          /\ rpc'[Main] = "off" /\ \A s \in Readers \ {Main} : rpc'[s] = rpc[s]
          /\ \A s \in Readers : got'[s] = << >>
      BY <1>3, <1>4 DEF receive
    <2>3. \A n \in Requests : rpc[n] = "off"
      BY <2>1 DEF ReaderInv
    <2>4. ReaderInv'
      BY <1>0, <2>1, <2>2, <2>3 DEF ReaderInv, ClientAlive
    <2> QED BY <2>2, <2>4
  <1>5. CASE r \in Requests /\ get_handler(r)
    <2>1. /\ clock' = 0 /\ rpc[r] = "reading" /\ UNCHANGED <<cpc, logged, misread, cmd, nsent>>
      BY <1>5 DEF get_handler
    <2>2. /\ GotInv'
          /\ rpc'[r] = "off" /\ \A s \in Readers \ {r} : rpc'[s] = rpc[s]
          /\ \A s \in Readers : got'[s] = << >>
      BY <1>3, <1>5 DEF get_handler
    <2>3. \A n \in Requests \ {r} : rpc[n] # "reading"
      BY <2>1, <1>5 DEF ReaderInv
    <2>4. ReaderInv'
      BY <1>0, <1>5, <2>1, <2>2, <2>3 DEF ReaderInv, ClientAlive
    <2> QED BY <2>2, <2>4
  <1>6. CASE r \in Requests /\ data_listener_lock(r)
    <2>1. /\ rpc[r] = "blocked" /\ clock = 0 /\ clock' = r
          /\ rpc' = [rpc EXCEPT ![r] = "reading"]
          /\ UNCHANGED <<cpc, logged, misread, cmd, nsent, got, resp, worker, threads>>
      BY <1>6 DEF data_listener_lock
    <2>2. rpc'[r] = "reading" /\ \A s \in Readers \ {r} : rpc'[s] = rpc[s]
      BY <1>0, <2>1
    <2>3. \A n \in Requests : rpc[n] # "reading"
      BY <1>0, <2>1 DEF ReaderInv
    <2>4. logged = "yes"
      BY <1>6, <2>1 DEF ReaderInv
    <2>5. ReaderInv'
      BY <1>0, <1>6, <2>1, <2>2, <2>3, <2>4 DEF ReaderInv, ClientAlive
    <2>6. GotInv'
      BY <2>1, GotKept DEF ClientAlive, worker, threads, Refused
    <2> QED BY <2>5, <2>6
  <1> QED BY <1>1, <1>2, <1>4, <1>5, <1>6

\* A step of the worker: a responder writes what the reader waits for, anything
\* else the worker writes is a refusal.
LEMMA WorkerListenInv ==
  ASSUME FrameInv, FrameInv', ReaderInv, GotInv,
         WorkerMain \/ Sigpipe \/ \E t \in Slots : Responder(t)
  PROVE  ReaderInv' /\ GotInv'
  <1> USE SessionAssumption, CapacityNat
  <1>0. tpc \in [Slots -> ThreadStates]
    BY DEF FrameInv, TypeInv, TypeOK, ThreadTypes
  <1>1. ASSUME client' = client PROVE ReaderInv'
    BY <1>1 DEF client, ReaderInv, ClientAlive
  <1>2. ASSUME client' = client, resp' = resp, Refused => Refused', out' = "open" => out = "open",
               \A t \in Slots : (tpc'[t] = "body" <=> tpc[t] = "body")
                                  /\ (tpc'[t] = "close" <=> tpc[t] = "close")
        PROVE  GotInv'
    BY <1>2, GotKept DEF client, ClientAlive
  <1>3. CASE WorkerKilled \/ comm_receive_data_overruns
    BY <1>1, <1>2, <1>3 DEF WorkerKilled, comm_receive_data_overruns, threads, Refused
  <1>4. CASE \/ CheckConnection \/ comm_receive_data \/ ReceiveAtEof \/ connection_close
             \/ WorkerExit
    BY <1>1, <1>2, <1>3, <1>4 DEF CheckConnection, comm_receive_data, ReceiveAtEof,
       connection_close, WorkerExit, threads, Refused
  <1>5. CASE Refuse
    <2>1. client' = client
      BY <1>5 DEF Refuse
    <2>2. Refused'
      BY <1>5 DEF FrameInv, RefuseInv, Refuse
    <2> QED BY <1>1, <2>1, <2>2 DEF GotInv
  <1>6. CASE SendMaxed
    <2>1. client' = client /\ Refused'
      BY <1>6 DEF FrameInv, RefuseInv, SendMaxed, Refused
    <2> QED BY <1>1, <2>1 DEF GotInv
  <1>7. CASE SpawnThread
    <2> DEFINE t == current_thread + 1
    <2>1. /\ client' = client /\ resp' = resp /\ out' = out /\ wpc = "spawn"
          /\ num_threads \in Nat \ {0} /\ num_threads <= Capacity
      BY <1>7 DEF SpawnThread, FrameInv, TypeInv, SlotInv
    <2>2. PICK to \in {"parse", "none"} : tpc' = [tpc EXCEPT ![t] = to]
      BY <1>7 DEF SpawnThread
    <2>3. ~Refused
      BY <2>1 DEF Refused
    <2>4. \A u \in Slots : u = t => tpc[u] = "none"
      BY DEF FrameInv, LockInv, TypeInv, TypeOK, WorkerTypes
    <2>5. \A u \in Slots : tpc'[u] = IF u = t THEN to ELSE tpc[u]
      BY <1>0, <2>2
    <2>6. \A u \in Slots : (tpc'[u] = "body" <=> tpc[u] = "body")
                             /\ (tpc'[u] = "close" <=> tpc[u] = "close")
      BY <2>4, <2>5
    <2> QED BY <1>1, <1>2, <2>1, <2>3, <2>6
  <1>8. CASE Sigpipe
    BY <1>3, <1>8 DEF Sigpipe
  <1>9. ASSUME NEW t \in Slots, Responder(t) PROVE ReaderInv' /\ GotInv'
    <2>1. ASSUME NEW to \in ThreadStates \ {"body", "close"}, tpc' = [tpc EXCEPT ![t] = to],
                 tpc[t] \notin {"body", "close"}, client' = client, resp' = resp,
                 UNCHANGED <<num_threads, out>>
          PROVE  ReaderInv' /\ GotInv'
      <3>1. \A u \in Slots : tpc'[u] = IF u = t THEN to ELSE tpc[u]
        BY <1>0, <2>1
      <3>2. \A u \in Slots : (tpc'[u] = "body" <=> tpc[u] = "body")
                               /\ (tpc'[u] = "close" <=> tpc[u] = "close")
        BY <2>1, <3>1
      <3> QED BY <1>1, <1>2, <2>1, <3>2 DEF Refused
    <2>2. CASE parse_encoded_fails(t) \/ process_get_cmd_faults(t) \/ process_post_cmd_faults(t)
      BY <1>3, <2>2 DEF parse_encoded_fails, process_get_cmd_faults, process_post_cmd_faults
    <2>3. ASSUME NEW s, Answer(t, s), tpc[t] = "dispatch" PROVE ReaderInv' /\ GotInv'
      BY <2>1, <2>3 DEF Answer, Step, ThreadStates, worker
    <2>4. CASE \/ process_echo(t) \/ process_get_cmd(t) \/ process_post_cmd(t)
               \/ process_new_user_cmd(t) \/ process_change_pass_cmd(t)
               \/ process_login_cmd(t) \/ process_logout_cmd(t)
      BY <2>3, <2>4 DEF process_echo, process_get_cmd, process_post_cmd, process_new_user_cmd,
         process_change_pass_cmd, process_login_cmd, process_logout_cmd, Handles, AnswerIfLogged
    <2>5. CASE process_close(t) \/ pthread_mutex_lock(t) \/ FinishHandler(t)
               \/ pthread_mutex_unlock(t)
      BY <2>1, <2>5 DEF process_close, Handles, pthread_mutex_lock, FinishHandler,
         pthread_mutex_unlock, Step, ThreadStates, worker
    <2>6. CASE comm_send_data(t)
      <3>1. client' = client /\ UNCHANGED <<cpc, got, num_threads>>
        BY <2>6 DEF comm_send_data, client, worker
      <3>2. SUFFICES ASSUME ~Refused
                     PROVE  /\ \A s \in Readers : Begun(got[s])'
                            /\ ClientAlive =>
                                 /\ \A s \in Readers : got[s] # << >> => Continues(got[s])'
                                 /\ (\A s \in Readers : got[s] = << >>) => Continues(<< >>)'
        BY <1>1, <3>1 DEF GotInv, Refused, ClientAlive
      <3>3. \A s \in Readers : Begun(got[s])'
        BY <3>1, <3>2 DEF GotInv, Begun
      <3>4. ASSUME ClientAlive, NEW s \in Readers, got[s] # << >> PROVE Continues(got[s])'
        <4>1. PICK g : g = got[s]
          OBVIOUS
        <4>2. Continues(g) /\ Begun(g) /\ g \in Seq(Pieces)
          BY <3>2, <3>4, <4>1 DEF GotInv, FrameInv, TypeInv, TypeOK, PipeTypes
        <4>3. Continues(g)'
          BY <2>6, <4>2, ContinuesWrite
        <4> QED BY <3>1, <4>1, <4>3 DEF Continues
      <3>5. ASSUME ClientAlive, \A s \in Readers : got[s] = << >> PROVE Continues(<< >>)'
        <4>1. Continues(<< >>) /\ Begun(<< >>) /\ << >> \in Seq(Pieces)
          BY <3>2, <3>5 DEF GotInv, Begun
        <4> QED BY <2>6, <4>1, ContinuesWrite
      <3> QED BY <3>3, <3>4, <3>5
    <2> QED BY <1>9, <2>2, <2>4, <2>5, <2>6 DEF Responder
  <1> QED BY <1>3, <1>4, <1>5, <1>6, <1>7, <1>8, <1>9 DEF WorkerMain

\* ListenInv is inductive, together with FrameInv.
LEMMA NextListenInv == FrameInv /\ ListenInv /\ [Next]_vars => ListenInv'
  <1> SUFFICES ASSUME FrameInv, ReaderInv, GotInv, OnlyGets, [Next]_vars
               PROVE  ReaderInv' /\ GotInv'
    BY DEF ListenInv, OnlyGets
  <1>0. FrameInv' /\ Main \in Readers /\ Requests \subseteq Readers
    BY SessionAssumption, NextFrameInv DEF Main, Readers, Requests
  <1>1. CASE UserTypes
    BY <1>1, TypedListenInv
  <1>2. CASE ClientDies
    BY <1>2, ExitListenInv DEF ClientDies
  <1>3. CASE MainThread
    BY <1>0, <1>3, ReaderListenInv, ExitListenInv DEF MainThread, MainLoopEnds
  <1>4. CASE \E n \in Requests : Listener(n)
    <2>1. PICK n \in Requests : Listener(n)
      BY <1>4
    <2> QED BY <1>0, <2>1, ReaderListenInv DEF Listener
  <1>5. CASE WorkerMain \/ Sigpipe \/ \E t \in Slots : Responder(t)
    BY <1>0, <1>5, WorkerListenInv
  <1>6. CASE UNCHANGED vars
    <2>1. UNCHANGED <<client, resp, num_threads, out, tpc>>
      BY <1>6 DEF vars, worker, threads
    <2>2. ReaderInv'
      BY <2>1 DEF client, ReaderInv, ClientAlive
    <2>3. GotInv'
      BY <2>1, GotKept DEF client, ClientAlive, Refused
    <2> QED BY <2>2, <2>3
  <1> QED BY <1>1, <1>2, <1>3, <1>4, <1>5, <1>6 DEF Next

\* At the start nobody reads and nothing is written.
LEMMA InitListenInv == Init => ListenInv
  <1> SUFFICES ASSUME Init PROVE ReaderInv /\ GotInv
    BY DEF ListenInv
  <1> USE SessionAssumption DEF Init
  <1>1. ReaderInv
    BY DEF ReaderInv, ClientAlive, Readers, Requests, Main
  <1>2. GotInv
    BY DEF GotInv, Begun, Continues
  <1> QED BY <1>1, <1>2

\* In a session of logins and gets, however many gets overlap and whoever dies,
\* each reader takes frames whole: the listeners' mutex and the responders'
\* lock do it together, as long as the worker has not refused a request
\* (comm.send.fifo.c 48-101 and 110-114).
THEOREM GetsTakeWholeFrames ==
  ASSUME Commands \subseteq {"login", "get"}
  PROVE  Spec => [](~Refused => ListenersTakeWholeFrames)
  <1>1. FrameInv /\ ListenInv => (~Refused => ListenersTakeWholeFrames)
    BY DEF ListenInv, OnlyGets, GotInv, Begun, ListenersTakeWholeFrames
  <1>2. Init => FrameInv /\ ListenInv
    BY InitFrameInv, InitListenInv
  <1>3. FrameInv /\ ListenInv /\ [Next]_vars => FrameInv' /\ ListenInv'
    BY NextFrameInv, NextListenInv
  <1> QED BY <1>1, <1>2, <1>3, PTL DEF Spec
=============================================================================
