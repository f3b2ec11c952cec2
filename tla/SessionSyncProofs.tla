------------------------- MODULE SessionSyncProofs -------------------------
(***************************************************************************)
(* Theorems about Session without gets: the client sends a request only    *)
(* when it has the reply to the one before, so one request is under way at *)
(* a time although the worker has a thread for each.                       *)
(***************************************************************************)
EXTENDS SessionProofs

NoGets == "get" \notin Commands

\* The receive loop runs.
Loop == wpc \in {"check", "receive", "spawn"}

\* The worker has received a request of the client and not yet given it a slot.
InHand == wpc = "spawn" /\ command # "garbage"

\* No get anywhere; what is read at end of file is read when the client is
\* gone.  As long as the client is there the worker is, but for Stuck.
KindInv ==
  /\ cmd # "get" /\ command # "get" /\ \A t \in Slots : tcmd[t] # "get"
  /\ \A k \in 1 .. Len(req) : req[k] # "get"
  /\ ClientAlive =>
       command # "garbage" /\ wpc # "killed" /\ \A t \in Slots : tcmd[t] # "garbage"
  /\ \A t \in Slots : tcmd[t] = "garbage" => tpc[t] \in {"none", "parse"}
  /\ \A t \in Slots : tpc[t] \in {"open", "body", "close", "sent"} => tcmd[t] # "close"
  /\ out = "reset" => wpc \in {"exit", "exited", "killed"}

\* Of the requests sent, all but the last have their replies, and the last is
\* in the request FIFO, in the worker's hand, in a slot, or refused.
CountInv ==
  /\ ClientAlive => current_thread <= nsent
  /\ Loop /\ req # << >> => Len(req) = 1 /\ wpc # "spawn" /\ current_thread + 1 = nsent
  /\ InHand => current_thread + 1 = nsent
  /\ Loop /\ req = << >> /\ ~InHand => nsent <= current_thread
  /\ wpc \in {"open", "body", "close"} /\ ClientAlive => current_thread + 1 = nsent
  /\ \A t \in Slots : nsent < t /\ t <= current_thread => tcmd[t] = "garbage"
  /\ \A t \in Slots : t < nsent /\ t <= current_thread => Replied(t)

\* At the prompt, and once the worker leaves its loop, every request that has a
\* slot has its reply.
IdleInv ==
  /\ cpc = "prompt" =>
       /\ \A t \in Slots : t <= current_thread => Replied(t)
       /\ Loop => nsent <= current_thread
       /\ wpc \notin {"open", "body", "close"}
  /\ ClientAlive /\ (wstate = "closed" \/ ~Loop) =>
       /\ \A t \in Slots : t <= current_thread => Replied(t)
       /\ nsent <= current_thread => cpc = "closing"
       /\ Loop => nsent <= current_thread

\* The request under way is the command the client executes.
CommandInv ==
  /\ Loop /\ req # << >> => req[1] = cmd
  /\ InHand => command = cmd
  /\ nsent \in Slots /\ nsent <= current_thread => tcmd[nsent] = cmd
  /\ cmd = "close" => cpc \in {"closing", "exited"}
  /\ cpc = "closing" => cmd = "close"
  /\ cpc \in {"waiting", "closing"} => nsent # 0
  /\ cpc = "waiting" => (cmd = "login" => logged = "no") /\ (cmd = "logout" => logged = "yes")

\* Pieces of a reply that its writer has written.
WrittenIn(state) ==
  CASE state = "body" -> 1
    [] state = "close" -> 2
    [] state \in {"sent", "unlock", "done", "closing", "exit", "exited"} -> 3
    [] OTHER -> 0

\* Pieces of the reply to the last request that have been written, by its
\* responder or by the main thread that refused it.
Written ==
  IF nsent <= current_thread
  THEN IF cmd = "close" THEN 0 ELSE WrittenIn(tpc[nsent])
  ELSE IF current_thread + 1 = nsent THEN WrittenIn(wpc) ELSE 0

\* Piece k of that reply.
IsPiece(p, k) ==
  /\ p.frame = nsent
  /\ k = 1 => p.part = "open"
  /\ k = 2 => p.part = "body" /\ (nsent <= current_thread => p.text = reply[nsent])
  /\ k = 3 => p.part = "close"

\* The client's main thread alone reads; what it has read and what is in the
\* response FIFO is what was written of the reply it waits for.
ReplyInv ==
  /\ \A n \in Requests : rpc[n] = "off"
  /\ rpc[Main] = "reading" <=> cpc = "waiting"
  /\ cpc \in {"prompt", "closing"} => got[Main] = << >>
  /\ cpc = "prompt" => resp = << >>
  /\ cpc \in {"waiting", "closing"} =>
       /\ Len(got[Main]) <= 2 /\ Len(got[Main]) + Len(resp) = Written
       /\ \A k \in 1 .. Len(got[Main]) : IsPiece(got[Main][k], k)
       /\ \A k \in 1 .. Len(resp) : IsPiece(resp[k], Len(got[Main]) + k)

\* The user as it will be when the responder at work has finished.
Settled ==
  IF lock # 0 /\ tpc[lock] \in {"open", "body", "close", "sent"} THEN UserAfter(lock) ELSE user

Agree == logged = "yes" <=> Settled # "NULL" \/ misread = "yes"

\* Reply r makes the client believe what the worker's user then is, or misread.
Tells(r) ==
  \A after \in LoggedAfter(cmd, r) :
    after = "yes" <=> Settled # "NULL" \/ MisreadAfter(cmd, r, after) = "yes"

\* The states of a responder that has chosen its reply.
Handled == {"open", "body", "close", "sent", "unlock", "done"}

\* Client and worker agree on whether there is a user until the last request is
\* handled, and again when the client has its reply.
AgreeInv ==
  /\ Loop /\ (req # << >> \/ InHand) => Agree
  /\ \A t \in Slots : tpc[t] \in {"parse", "dispatch"} /\ tcmd[t] # "garbage" => Agree
  /\ cpc = "prompt" /\ Loop => Agree
  /\ cpc = "waiting" /\ nsent <= current_thread /\ tpc[nsent] \in Handled => Tells(reply[nsent])

SyncInv == KindInv /\ CountInv /\ IdleInv /\ CommandInv /\ ReplyInv

\* The worker died of the request whose reply the client waits for, and that
\* before it wrote any of it.
Stuck ==
  /\ wpc = "killed" /\ cpc \in {"waiting", "exited"}
  /\ resp = << >> /\ got[Main] = << >> /\ \A n \in Requests : rpc[n] = "off"
  /\ \A t \in Slots : tcmd[t] = "garbage" => tpc[t] \in {"none", "parse"}

-----------------------------------------------------------------------------
\* What the types say of the variables used most.
LEMMA Sorts ==
  ASSUME FrameInv
  PROVE  /\ nsent \in Nat /\ current_thread \in Nat /\ Capacity \in Nat
         /\ current_thread <= Capacity /\ nsent <= MaxRequests /\ MaxRequests \in Nat
         /\ Slots = 1 .. Capacity /\ Requests = 1 .. MaxRequests
         /\ tpc \in [Slots -> ThreadStates] /\ tcmd \in [Slots -> RequestKinds]
         /\ reply \in [Slots -> Texts \cup {"none"}]
         /\ rpc \in [Readers -> {"off", "blocked", "reading"}]
         /\ got \in [Readers -> Seq(Pieces)] /\ req \in Seq(AllCommands) /\ resp \in Seq(Pieces)
         /\ Main \in Readers /\ Main \notin Requests /\ Requests \subseteq Readers
         /\ answer \in [Requests -> 0 .. Capacity]
  BY SessionAssumption, CapacityNat DEF FrameInv, TypeInv, TypeOK, ClientTypes, PipeTypes,
     WorkerTypes, ThreadTypes, Slots, Requests, Readers, Main

\* The start of a session, with the prompt and nothing sent.
LEMMA InitSyncInv == Init => SyncInv /\ FramesWhole /\ OwnAnswer
  <1> SUFFICES ASSUME Init PROVE SyncInv /\ FramesWhole /\ OwnAnswer
    OBVIOUS
  <1> USE SessionAssumption, CapacityNat DEF Init
  <1>1. KindInv
    <2>1. \A k \in 1 .. Len(req) : req[k] # "get"
      OBVIOUS
    <2>2. \A t \in Slots : tcmd[t] = "none" /\ tpc[t] = "none"
      OBVIOUS
    <2> QED BY <2>1, <2>2 DEF KindInv
  <1>2. CountInv /\ IdleInv
    BY DEF CountInv, IdleInv, Loop, InHand, Slots, ClientAlive
  <1>3. CommandInv
    BY DEF CommandInv, Loop, InHand, Slots
  <1>4. ReplyInv
    BY DEF ReplyInv, Main, Readers, Requests
  <1>5. FramesWhole /\ OwnAnswer
    BY DEF FramesWhole, OwnAnswer
  <1> QED BY <1>1, <1>2, <1>3, <1>4, <1>5 DEF SyncInv

\* A responder that has not yet written its reply has the last request.
LEMMA Busy ==
  ASSUME FrameInv, SyncInv, NEW t \in Slots,
         tpc[t] \in {"parse", "dispatch", "open", "body", "close"}, tcmd[t] # "garbage"
  PROVE  /\ t = nsent /\ nsent <= current_thread /\ tcmd[t] = cmd
         /\ ClientAlive =>
              /\ Loop /\ wstate = "open" /\ current_thread = nsent
              /\ cpc \in {"waiting", "closing"}
         /\ Loop => req = << >> /\ ~InHand
  <1>1. t <= current_thread /\ t \in Nat
    <2>1. t \in Nat /\ current_thread \in Nat
      BY Sorts
    <2>2. ~(t > current_thread)
      BY DEF FrameInv, LockInv
    <2> QED BY <2>1, <2>2
  <1>2. ~Replied(t)
    BY DEF Replied
  <1>3. t = nsent
    BY <1>1, <1>2, Sorts DEF SyncInv, CountInv
  <1>4. tcmd[t] = cmd
    BY <1>1, <1>3 DEF SyncInv, CommandInv
  <1>5. ASSUME ClientAlive
        PROVE  /\ Loop /\ wstate = "open" /\ current_thread = nsent
               /\ cpc \in {"waiting", "closing"}
    <2>1. Loop /\ wstate # "closed"
      BY <1>1, <1>2, <1>5 DEF SyncInv, IdleInv
    <2>2. cpc # "prompt"
      BY <1>1, <1>2 DEF SyncInv, IdleInv
    <2>3. current_thread = nsent
      BY <1>1, <1>3, <1>5, Sorts DEF SyncInv, CountInv
    <2>4. wstate \in {"open", "closed"} /\ cpc \in {"prompt", "waiting", "closing", "exited"}
      BY DEF FrameInv, TypeInv, TypeOK, WorkerTypes, ClientTypes
    <2> QED BY <1>5, <2>1, <2>2, <2>3, <2>4 DEF ClientAlive
  <1>6. Loop => req = << >> /\ ~InHand
    BY <1>1, <1>3, Sorts DEF SyncInv, CountInv
  <1> QED BY <1>1, <1>3, <1>4, <1>5, <1>6

\* A reply that is read while it is written is a whole frame so far.
LEMMA ReplyFrames == FrameInv /\ ReplyInv /\ ClientAlive => FramesWhole
  <1> SUFFICES ASSUME FrameInv, ReplyInv, ClientAlive, NEW k \in 1 .. Len(resp) - 1
               PROVE  \/ resp[k].part = "close"
                      \/ /\ resp[k + 1].frame = resp[k].frame
                         /\ resp[k].part = "open" => resp[k + 1].part = "body"
                         /\ resp[k].part = "body" => resp[k + 1].part = "close"
    BY DEF FramesWhole
  <1> DEFINE g == Len(got[Main])
             n == Len(resp)
  <1>1. g \in Nat /\ n \in Nat /\ (resp = << >> <=> n = 0)
    BY Sorts, AppendIndex
  <1>2. cpc \in {"waiting", "closing"}
    <2>1. resp # << >>
      BY <1>1
    <2>2. cpc \in {"prompt", "waiting", "closing", "exited"}
      BY DEF FrameInv, TypeInv, TypeOK, ClientTypes
    <2> QED BY <2>1, <2>2 DEF ReplyInv, ClientAlive
  <1>3. Written \in 0 .. 3
    BY DEF Written, WrittenIn
  <1>4. g + n = Written
    BY <1>2 DEF ReplyInv
  <1>5. k \in 1 .. n /\ k + 1 \in 1 .. n
    BY <1>1
  <1>6. IsPiece(resp[k], g + k) /\ IsPiece(resp[k + 1], g + (k + 1))
    BY <1>2, <1>5 DEF ReplyInv
  <1> HIDE DEF g, n
  <1>7. g + k \in {1, 2} /\ g + (k + 1) = (g + k) + 1
    BY <1>1, <1>3, <1>4, <1>5
  <1>8. CASE g + k = 1
    BY <1>6, <1>7, <1>8 DEF IsPiece
  <1>9. CASE g + k = 2
    BY <1>6, <1>7, <1>9 DEF IsPiece
  <1> QED BY <1>7, <1>8, <1>9

\* The client has at most three pieces of a reply before it.
LEMMA WrittenBound == Written \in 0 .. 3
  BY DEF Written, WrittenIn

-----------------------------------------------------------------------------
(* The client.                                                             *)

\* The indices of a sequence one longer.
LEMMA LastOrBefore ==
  ASSUME NEW n \in Nat
  PROVE  \A k \in 1 .. n + 1 : k \in 1 .. n \/ k = n + 1
  OBVIOUS

\* A command typed at the prompt: everything sent before has its reply, so the
\* request is alone (commands.c).
LEMMA TypedSync ==
  ASSUME FrameInv, SyncInv, NEW c \in Commands \ {"get"}, send_cmd(c),
         \/ /\ c # "close" /\ cpc' = "waiting" /\ rpc' = [rpc EXCEPT ![Main] = "reading"]
         \/ c = "close" /\ cpc' = "closing" /\ rpc' = rpc,
         c = "login" => logged = "no", c = "logout" => logged = "yes"
  PROVE  SyncInv'
  <1> USE SessionAssumption, Sorts
  <1>1. /\ cpc = "prompt" /\ req' = Append(req, c) /\ nsent' = nsent + 1 /\ cmd' = c
        /\ UNCHANGED <<logged, misread, got, resp, wpc, wstate, out, command, current_thread,
                       tpc, tcmd, reply>>
    BY DEF send_cmd, worker, threads
  <1>2. ClientAlive /\ ClientAlive' /\ c \in AllCommands
    BY <1>1 DEF ClientAlive
  <1>3. /\ current_thread <= nsent
        /\ \A t \in Slots : t <= current_thread => Replied(t)
        /\ wpc \notin {"open", "body", "close"}
        /\ got[Main] = << >> /\ resp = << >>
    BY <1>1, <1>2 DEF SyncInv, CountInv, IdleInv, ReplyInv
  <1>4. Loop => nsent = current_thread /\ req = << >> /\ wpc # "spawn" /\ wstate = "open"
    <2> SUFFICES ASSUME Loop PROVE nsent = current_thread /\ req = << >> /\ wpc # "spawn" /\ wstate = "open"
      OBVIOUS
    <2>1. nsent = current_thread
      BY <1>1, <1>3 DEF SyncInv, IdleInv
    <2>2. req = << >> /\ ~InHand
      BY <2>1 DEF SyncInv, CountInv
    <2>3. wpc # "spawn"
      BY <1>2, <2>2 DEF SyncInv, KindInv, InHand
    <2>4. wstate # "closed"
      BY <1>1, <1>2, <2>1 DEF SyncInv, IdleInv
    <2> QED BY <2>1, <2>2, <2>3, <2>4 DEF FrameInv, TypeInv, TypeOK, WorkerTypes
  <1>5. ~Loop => current_thread + 1 < nsent'
    BY <1>1, <1>2, <1>3 DEF SyncInv, IdleInv
  <1>6. Loop' = Loop /\ InHand' = InHand /\ (InHand => Loop)
    BY <1>1 DEF Loop, InHand
  <1>7. Loop => Len(req') = 1 /\ req'[1] = c
    BY <1>1, <1>2, <1>4
  <1>8. KindInv'
    <2>1. \A k \in 1 .. Len(req') : req'[k] # "get"
      <3>1. /\ Len(req) \in Nat /\ Len(req') = Len(req) + 1
            /\ \A k \in 1 .. Len(req) : req'[k] = req[k]
            /\ req'[Len(req) + 1] = c
        BY <1>1, <1>2, AppendIndex
      <3>2. \A k \in 1 .. Len(req') : k \in 1 .. Len(req) \/ k = Len(req) + 1
        BY <3>1, LastOrBefore
      <3>3. c # "get" /\ \A k \in 1 .. Len(req) : req'[k] # "get"
        BY <3>1 DEF SyncInv, KindInv
      <3> QED BY <3>1, <3>2, <3>3
    <2> QED BY <1>1, <1>2, <2>1 DEF SyncInv, KindInv
  <1>9. CountInv'
    <2>1. req' # << >>
      BY <1>1, <1>2
    <2>2. \A t \in Slots : t <= current_thread => t <= nsent
      BY <1>3
    <2> QED BY <1>1, <1>3, <1>4, <1>6, <1>7, <2>1, <2>2 DEF CountInv, Replied
  <1>10. IdleInv'
    BY <1>1, <1>2, <1>3, <1>4, <1>5, <1>6 DEF IdleInv, Replied
  <1>11. CommandInv'
    <2>1. ~(nsent' <= current_thread')
      BY <1>1, <1>3
    <2>2. Loop' => req'[1] = cmd' /\ ~InHand'
      BY <1>1, <1>4, <1>6, <1>7 DEF InHand
    <2>3. ~InHand' /\ nsent' # 0
      BY <1>1, <1>6, <2>2
    <2> QED BY <1>1, <2>1, <2>2, <2>3 DEF CommandInv
  <1>12. ReplyInv'
    <2>1. Written' = 0
      <3>1. ~(nsent' <= current_thread')
        BY <1>1, <1>3
      <3>2. CASE Loop
        <4>1. WrittenIn(wpc)' = 0
          BY <1>1, <3>2 DEF WrittenIn, Loop
        <4> QED BY <1>1, <3>1, <4>1 DEF Written
      <3>3. CASE ~Loop
        BY <1>1, <1>5, <3>1, <3>3 DEF Written
      <3> QED BY <3>2, <3>3
    <2>2. (\A n \in Requests : rpc'[n] = "off") /\ (rpc'[Main] = "reading" <=> cpc' = "waiting")
      BY <1>1 DEF SyncInv, ReplyInv
    <2>3. Len(got'[Main]) = 0 /\ Len(resp') = 0
      BY <1>1, <1>3
    <2> QED BY <1>1, <1>3, <2>1, <2>2, <2>3 DEF ReplyInv
  <1> QED BY <1>8, <1>9, <1>10, <1>11, <1>12 DEF SyncInv

\* Without gets a command is one of these.
LEMMA UserTypesSync ==
  ASSUME NoGets, UserTypes
  PROVE  \E c \in Commands \ {"get"} :
           /\ send_cmd(c)
           /\ \/ /\ c # "close" /\ cpc' = "waiting" /\ rpc' = [rpc EXCEPT ![Main] = "reading"]
              \/ c = "close" /\ cpc' = "closing" /\ rpc' = rpc
           /\ c = "login" => logged = "no"
           /\ c = "logout" => logged = "yes"
           /\ cpc = "prompt" /\ UNCHANGED <<logged, misread, answer, resp, worker, threads>>
  <1>1. ASSUME NEW c, send_cmd(c)
        PROVE  /\ c \in Commands \ {"get"}
               /\ cpc = "prompt" /\ UNCHANGED <<logged, misread, answer, resp, worker, threads>>
    BY <1>1 DEF send_cmd, NoGets
  <1> QED BY <1>1 DEF UserTypes, cmd_send, cmd_post, cmd_login, cmd_logout, cmd_new_user,
       cmd_change_pass, cmd_get, cmd_close, SendAndReceive

\* The end of the client leaves what it has sent and what it has not read.
LEMMA ExitSync ==
  ASSUME FrameInv, SyncInv, ClientExits
  PROVE  SyncInv'
  <1>1. /\ cpc' = "exited" /\ rpc' = [r \in Readers |-> "off"]
        /\ UNCHANGED <<logged, misread, cmd, nsent, got, answer, req, resp, wpc, wstate, out, command,
                       current_thread, tpc, tcmd, reply>>
    BY DEF ClientExits, worker, threads
  <1>2. Loop' = Loop /\ InHand' = InHand
    BY <1>1 DEF Loop, InHand
  <1>3. KindInv' /\ CountInv'
    BY <1>1, <1>2 DEF SyncInv, KindInv, CountInv, ClientAlive, Replied
  <1>4. IdleInv' /\ CommandInv'
    BY <1>1, <1>2 DEF SyncInv, IdleInv, CommandInv, ClientAlive, Replied
  <1>5. ReplyInv'
    BY <1>1, Sorts DEF SyncInv, ReplyInv
  <1> QED BY <1>3, <1>4, <1>5 DEF SyncInv

\* What the main thread finds at the head of the FIFO is the next piece of its
\* reply: it ends a frame exactly if the other two have been read.
LEMMA NextPiece ==
  ASSUME FrameInv, SyncInv, rpc[Main] = "reading", resp # << >>
  PROVE  /\ cpc = "waiting" /\ Len(got[Main]) \in 0 .. 2 /\ Len(resp) \in 1 .. 3
         /\ Len(got[Main]) + Len(resp) = Written
         /\ IsPiece(Head(resp), Len(got[Main]) + 1)
         /\ Completes(Main, Head(resp)) <=> Len(got[Main]) = 2
         /\ Len(got[Main]) = 2 =>
              /\ Parses(Main) /\ Written = 3 /\ got[Main][2].frame = nsent
              /\ nsent <= current_thread => got[Main][2].text = reply[nsent]
  <1> DEFINE g == got[Main]
             n == Len(resp)
  <1>1. cpc = "waiting"
    BY DEF SyncInv, ReplyInv
  <1>2. /\ Len(g) <= 2 /\ Len(g) + n = Written
        /\ \A k \in 1 .. Len(g) : IsPiece(g[k], k)
        /\ \A k \in 1 .. n : IsPiece(resp[k], Len(g) + k)
    BY <1>1 DEF SyncInv, ReplyInv
  <1>3. /\ g \in Seq(Pieces) /\ Len(g) \in Nat /\ n \in Nat \ {0}
        /\ Head(resp) = resp[1] /\ resp[1] \in Pieces
    BY Sorts, TailIndex
  <1>4. Written \in 0 .. 3
    BY WrittenBound
  <1> HIDE DEF n
  <1>5. PICK l \in Nat : l = Len(g)
    BY <1>3
  <1>6. /\ l \in 0 .. 2 /\ n \in 1 .. 3 /\ l + n = Written /\ (l = 2 => Written = 3)
        /\ 1 \in 1 .. n
    <2>1. l <= 2 /\ l + n = Written
      BY <1>2, <1>5
    <2>2. \A w \in 0 .. 3, i \in Nat, j \in Nat \ {0} : i <= 2 /\ i + j = w =>
            i \in 0 .. 2 /\ j \in 1 .. 3 /\ (i = 2 => w = 3) /\ 1 \in 1 .. j
      OBVIOUS
    <2> QED BY <1>3, <1>4, <1>5, <2>1, <2>2
  <1>7. IsPiece(Head(resp), l + 1)
    BY <1>2, <1>3, <1>5, <1>6
  <1>8. \A k \in 1 .. l : IsPiece(g[k], k) /\ g[k] \in Pieces
    <2>1. \A k \in 1 .. Len(g) : g[k] \in Pieces
      BY <1>3
    <2> QED BY <1>2, <1>5, <2>1
  <1>9. CASE l = 0
    <2>1. g = << >>
      BY <1>3, <1>5, <1>9, EmptySeq
    <2> QED BY <1>1, <1>2, <1>5, <1>6, <1>7, <1>9, <2>1 DEF Completes, n
  <1>10. CASE l = 1
    <2>1. Head(resp).part = "body"
      BY <1>7, <1>10 DEF IsPiece
    <2>2. ~Completes(Main, Head(resp))
      BY <2>1 DEF Completes, IsBoundary
    <2> QED BY <1>1, <1>2, <1>5, <1>6, <1>7, <1>10, <2>2 DEF n
  <1>11. CASE l = 2
    <2>1. Head(resp).part = "close" /\ Head(resp).frame = nsent
      BY <1>7, <1>11 DEF IsPiece
    <2>2. 1 \in 1 .. l /\ 2 \in 1 .. l
      BY <1>11
    <2>3. g[1].part = "open" /\ g[1].frame = nsent
      BY <1>8, <2>2 DEF IsPiece
    <2>4. /\ g[2].part = "body" /\ g[2].frame = nsent
          /\ nsent <= current_thread => g[2].text = reply[nsent]
      BY <1>8, <2>2 DEF IsPiece
    <2>5. g # << >> /\ Len(g) > 1
      <3>1. Len(g) = 2 /\ g \in Seq(Pieces)
        BY <1>3, <1>5, <1>11
      <3>2. g # << >>
        BY <3>1, EmptySeq
      <3> QED BY <3>1, <3>2
    <2>6. Completes(Main, Head(resp))
      BY <2>1, <2>3, <2>5 DEF Completes, IsBoundary
    <2>7. Parses(Main)
      BY <2>4, <2>5 DEF Parses
    <2> QED BY <1>1, <1>2, <1>5, <1>6, <1>7, <1>11, <2>4, <2>6, <2>7 DEF n
  <1> QED BY <1>6, <1>9, <1>10, <1>11

\* A step that changes the client's reading alone.
LEMMA ReadingOnly ==
  ASSUME FrameInv, SyncInv, ReplyInv', IdleInv', CommandInv', ClientAlive, ClientAlive',
         UNCHANGED <<cmd, nsent, req, worker, threads>>
  PROVE  SyncInv'
  <1>1. KindInv' /\ CountInv'
    BY DEF SyncInv, KindInv, CountInv, Loop, InHand, Replied, worker, threads
  <1> QED BY <1>1 DEF SyncInv

\* A piece moves from the FIFO to the client's buffer.
LEMMA ReadSync ==
  ASSUME FrameInv, SyncInv, ReadPiece(Main)
  PROVE  SyncInv'
  <1> USE Sorts
  <1>1. /\ rpc[Main] = "reading" /\ resp # << >> /\ ~Completes(Main, Head(resp))
        /\ got' = [got EXCEPT ![Main] = Append(got[Main], Head(resp))] /\ resp' = Tail(resp)
        /\ UNCHANGED <<cpc, logged, misread, cmd, nsent, rpc, clock, answer, req, worker, threads>>
    BY DEF ReadPiece
  <1>2. PICK g : g = got[Main]
    OBVIOUS
  <1>3. PICK p : p = Head(resp)
    OBVIOUS
  <1>4. PICK l : l = Len(g)
    OBVIOUS
  <1>5. PICK n : n = Len(resp)
    OBVIOUS
  <1>6. /\ cpc = "waiting" /\ l \in 0 .. 2 /\ l # 2 /\ n \in 1 .. 3 /\ l + n = Written
        /\ IsPiece(p, l + 1)
    BY <1>1, <1>2, <1>3, <1>4, <1>5, NextPiece
  <1>7. /\ g \in Seq(Pieces) /\ p \in Pieces /\ Len(resp') = n - 1
        /\ \A k \in 1 .. n - 1 : resp'[k] = resp[k + 1]
    BY <1>1, <1>2, <1>3, <1>5, TailIndex
  <1>8. /\ got'[Main] = Append(g, p) /\ Len(got'[Main]) = l + 1
        /\ \A k \in 1 .. l : got'[Main][k] = g[k]
        /\ got'[Main][l + 1] = p
    <2>1. got'[Main] = Append(g, p)
      BY <1>1, <1>2, <1>3
    <2> QED BY <1>4, <1>7, <2>1, AppendIndex
  <1>9. UNCHANGED <<wpc, wstate, out, command, current_thread, tpc, tcmd, reply>>
    BY <1>1 DEF worker, threads
  <1>10. Written' = Written /\ \A q, k : IsPiece(q, k)' <=> IsPiece(q, k)
    BY <1>1, <1>9 DEF Written, WrittenIn, IsPiece
  <1>11. /\ \A k \in 1 .. l : IsPiece(g[k], k)
         /\ \A k \in 1 .. n : IsPiece(resp[k], l + k)
    BY <1>2, <1>4, <1>5, <1>6 DEF SyncInv, ReplyInv
  <1>12. \A k \in 1 .. l + 1 : IsPiece(got[Main][k], k)'
    <2> SUFFICES ASSUME NEW k \in 1 .. l + 1 PROVE IsPiece(got[Main][k], k)'
      OBVIOUS
    <2>1. k \in 1 .. l \/ k = l + 1
      BY <1>6
    <2>2. PICK q : q = got'[Main][k]
      OBVIOUS
    <2>3. IsPiece(q, k)
      BY <1>6, <1>8, <1>11, <2>1, <2>2
    <2>4. IsPiece(q, k)'
      BY <1>10, <2>3
    <2> QED BY <2>2, <2>4 DEF IsPiece
  <1>13. \A k \in 1 .. n - 1 : IsPiece(resp[k], (l + 1) + k)'
    <2> SUFFICES ASSUME NEW k \in 1 .. n - 1 PROVE IsPiece(resp[k], (l + 1) + k)'
      OBVIOUS
    <2>1. k + 1 \in 1 .. n /\ l + (k + 1) = (l + 1) + k
      BY <1>6
    <2>2. PICK q : q = resp[k + 1]
      OBVIOUS
    <2>3. IsPiece(q, (l + 1) + k)
      BY <1>11, <2>1, <2>2
    <2>4. IsPiece(q, (l + 1) + k)'
      BY <1>10, <2>3
    <2> QED BY <1>7, <2>2, <2>4 DEF IsPiece
  <1>14. ReplyInv'
    <2>1. /\ Len(got'[Main]) <= 2 /\ Len(got'[Main]) + Len(resp') = Written'
      BY <1>6, <1>7, <1>8, <1>10
    <2>2. \A k \in 1 .. Len(got[Main])' : IsPiece(got[Main][k], k)'
      BY <1>8, <1>12
    <2>3. \A k \in 1 .. Len(resp)' : IsPiece(resp[k], Len(got[Main]) + k)'
      BY <1>7, <1>8, <1>13 DEF IsPiece
    <2> QED BY <1>1, <1>6, <2>1, <2>2, <2>3 DEF SyncInv, ReplyInv
  <1>15. IdleInv' /\ CommandInv'
    BY <1>1, <1>6, <1>9 DEF SyncInv, IdleInv, CommandInv, Loop, InHand, ClientAlive, Replied
  <1> QED BY <1>1, <1>6, <1>14, <1>15, ReadingOnly DEF ClientAlive

\* The reply is whole, the command has its answer and the prompt comes back.
LEMMA ReceiveSync ==
  ASSUME FrameInv, SyncInv, receive
  PROVE  SyncInv'
  <1> USE Sorts
  <1>1. /\ rpc[Main] = "reading" /\ resp # << >> /\ Completes(Main, Head(resp))
        /\ cpc' = "prompt" /\ rpc' = [rpc EXCEPT ![Main] = "off"]
        /\ got' = [got EXCEPT ![Main] = << >>] /\ resp' = Tail(resp)
        /\ UNCHANGED <<cmd, nsent, req, worker, threads>>
    BY DEF receive
  <1>2. /\ cpc = "waiting" /\ Len(got[Main]) = 2 /\ Len(got[Main]) + Len(resp) = 3
        /\ Written = 3 /\ Len(resp) \in 1 .. 3
    BY <1>1, NextPiece
  <1>3. UNCHANGED <<wpc, wstate, out, command, current_thread, tpc, tcmd, reply>>
    BY <1>1 DEF worker, threads
  <1>4. resp' = << >>
    BY <1>1, <1>2, TailIndex
  <1>5. ReplyInv'
    BY <1>1, <1>4 DEF SyncInv, ReplyInv
  <1>6. ClientAlive /\ ClientAlive' /\ cmd # "close"
    BY <1>1, <1>2 DEF ClientAlive, SyncInv, CommandInv
  <1>7. CASE nsent <= current_thread
    <2>1. tpc[nsent] \in {"sent", "unlock", "done"} /\ nsent \in Slots /\ nsent = current_thread
      <3>1. WrittenIn(tpc[nsent]) = 3
        BY <1>2, <1>6, <1>7 DEF Written
      <3>2. nsent = current_thread /\ nsent # 0
        BY <1>2, <1>6, <1>7 DEF SyncInv, CountInv, CommandInv
      <3>3. nsent \in Slots
        BY <3>2
      <3>4. tpc[nsent] \in ThreadStates
        BY <3>3
      <3>5. tpc[nsent] \in {"sent", "unlock", "done"}
        <4>1. \A state \in ThreadStates : WrittenIn(state) = 3 => state \in {"sent", "unlock", "done"}
          BY DEF WrittenIn, ThreadStates
        <4> QED BY <3>1, <3>4, <4>1
      <3> QED BY <3>2, <3>3, <3>5
    <2>2. \A t \in Slots : t <= current_thread => Replied(t)
      BY <2>1 DEF SyncInv, CountInv, Replied
    <2>3. wpc \notin {"open", "body", "close"}
      BY <1>6, <1>7 DEF SyncInv, CountInv
    <2>4. ~(wstate = "closed" \/ ~Loop)
      BY <1>2, <1>6, <1>7 DEF SyncInv, IdleInv
    <2>5. IdleInv'
      BY <1>1, <1>3, <1>6, <1>7, <2>2, <2>3, <2>4 DEF IdleInv, Loop, Replied
    <2>6. CommandInv'
      BY <1>1, <1>3, <1>6 DEF SyncInv, CommandInv, Loop, InHand
    <2> QED BY <1>1, <1>5, <1>6, <2>5, <2>6, ReadingOnly
  <1>8. CASE ~(nsent <= current_thread)
    <2>1. wpc \in {"closing", "exit", "exited"}
      <3>1. WrittenIn(wpc) = 3
        BY <1>2, <1>8 DEF Written
      <3>2. wpc \in {"check", "receive", "spawn", "open", "body", "close", "closing",
                     "exit", "exited", "killed"}
        BY DEF FrameInv, TypeInv, TypeOK, WorkerTypes
      <3> QED BY <3>1, <3>2 DEF WrittenIn
    <2>2. \A t \in Slots : t <= current_thread => t < nsent
      BY <1>8
    <2>3. \A t \in Slots : t <= current_thread => Replied(t)
      BY <2>2 DEF SyncInv, CountInv
    <2>4. IdleInv'
      BY <1>1, <1>3, <1>6, <1>8, <2>1, <2>3 DEF IdleInv, Loop, Replied
    <2>5. CommandInv'
      BY <1>1, <1>3, <1>6 DEF SyncInv, CommandInv, Loop, InHand
    <2> QED BY <1>1, <1>5, <1>6, <2>4, <2>5, ReadingOnly
  <1> QED BY <1>7, <1>8

\* Frames stay whole for a client that reads them by ReplyInv, and for one that
\* is gone because nothing more is written.
LEMMA FramesSync ==
  ASSUME FrameInv', SyncInv', FramesWhole, ClientAlive' \/ resp' = resp
  PROVE  FramesWhole'
  <1>1. ReplyInv'
    BY DEF SyncInv
  <1>2. FrameInv' /\ ReplyInv' /\ ClientAlive' => FramesWhole'
    BY ReplyFrames, PTL
  <1>3. resp' = resp => FramesWhole'
    BY DEF FramesWhole
  <1> QED BY <1>1, <1>2, <1>3

\* The client's steps: with no gets there is no listener, and the answer a
\* command shows is the reply to the last request.
LEMMA ClientSync ==
  ASSUME NoGets, FrameInv, SyncInv, OwnAnswer, ClientStep
  PROVE  SyncInv' /\ OwnAnswer' /\ (ClientAlive' \/ resp' = resp)
  <1>1. CASE UserTypes
    <2>1. PICK c \in Commands \ {"get"} :
            /\ send_cmd(c)
            /\ \/ c # "close" /\ cpc' = "waiting" /\ rpc' = [rpc EXCEPT ![Main] = "reading"]
               \/ c = "close" /\ cpc' = "closing" /\ rpc' = rpc
            /\ c = "login" => logged = "no"
            /\ c = "logout" => logged = "yes"
            /\ answer' = answer
      BY <1>1, UserTypesSync
    <2>2. SyncInv'
      BY <2>1, TypedSync
    <2> QED BY <2>1, <2>2 DEF OwnAnswer, ClientAlive
  <1>2. ASSUME ClientExits PROVE SyncInv' /\ OwnAnswer' /\ resp' = resp
    <2>1. UNCHANGED <<answer, resp>>
      BY <1>2 DEF ClientExits
    <2> QED BY <1>2, <2>1, ExitSync DEF OwnAnswer
  <1>3. CASE ClientDies
    BY <1>2, <1>3 DEF ClientDies
  <1>4. CASE MainThread
    <2>1. CASE ReadPiece(Main)
      <3>1. UNCHANGED <<cpc, answer>> /\ rpc[Main] = "reading"
        BY <2>1 DEF ReadPiece
      <3>2. cpc = "waiting"
        BY <3>1 DEF SyncInv, ReplyInv
      <3> QED BY <2>1, <3>1, <3>2, ReadSync DEF OwnAnswer, ClientAlive
    <2>2. CASE receive
      <3>1. /\ rpc[Main] = "reading" /\ resp # << >> /\ Completes(Main, Head(resp))
            /\ answer' = [answer EXCEPT ![nsent] = got[Main][2].frame] /\ cpc' = "prompt"
        BY <2>2 DEF receive
      <3>2. got[Main][2].frame = nsent
        BY <3>1, NextPiece
      <3>3. \A n \in Requests : answer'[n] \in {answer[n], n}
        BY <3>1, <3>2, Sorts
      <3>4. OwnAnswer'
        BY <3>3 DEF OwnAnswer
      <3> QED BY <2>2, <3>1, <3>4, ReceiveSync DEF ClientAlive
    <2>3. CASE ParseFails(Main)
      BY <1>2, <2>3 DEF ParseFails
    <2>4. CASE MainLoopEnds
      BY <1>2, <2>4 DEF MainLoopEnds
    <2> QED BY <1>4, <2>1, <2>2, <2>3, <2>4 DEF MainThread
  <1>5. CASE \E n \in Requests : Listener(n)
    <2>1. PICK n \in Requests : Listener(n)
      BY <1>5
    <2>2. rpc[n] = "off"
      BY DEF SyncInv, ReplyInv
    <2> QED BY <2>1, <2>2 DEF Listener, data_listener_lock, ReadPiece, get_handler, ParseFails
  <1> QED BY <1>1, <1>3, <1>4, <1>5 DEF ClientStep

-----------------------------------------------------------------------------
(* The worker.                                                             *)

\* A step that writes nothing of the reply leaves it as it is.
LEMMA ReplyKept ==
  ASSUME FrameInv, ReplyInv, client' = client, resp' = resp,
         cpc \in {"waiting", "closing"} =>
           Written' = Written /\ (Written # 0 => UNCHANGED <<current_thread, reply>>)
  PROVE  ReplyInv'
  <1> USE Sorts
  <1>1. UNCHANGED <<cpc, rpc, got, nsent, resp>>
    BY DEF client
  <1>2. ASSUME cpc \in {"waiting", "closing"}
        PROVE  /\ Len(got[Main]) <= 2 /\ Len(got[Main]) + Len(resp) = Written'
               /\ \A k \in 1 .. Len(got[Main]) : IsPiece(got[Main][k], k)'
               /\ \A k \in 1 .. Len(resp) : IsPiece(resp[k], Len(got[Main]) + k)'
    <2>1. /\ Len(got[Main]) <= 2 /\ Len(got[Main]) + Len(resp) = Written'
          /\ \A k \in 1 .. Len(got[Main]) : IsPiece(got[Main][k], k)
          /\ \A k \in 1 .. Len(resp) : IsPiece(resp[k], Len(got[Main]) + k)
      BY <1>2 DEF ReplyInv
    <2>2. CASE Written # 0
      BY <1>1, <1>2, <2>1, <2>2 DEF IsPiece
    <2>3. CASE Written = 0
      <3>1. Len(got[Main]) = 0 /\ Len(resp) = 0
        BY <1>2, <2>1, <2>3
      <3> QED BY <2>1, <3>1
    <2> QED BY <2>2, <2>3
  <1> QED BY <1>1, <1>2 DEF ReplyInv

\* The next piece of the reply is written.
LEMMA ReplyGrows ==
  ASSUME FrameInv, ReplyInv, client' = client, cpc \in {"waiting", "closing"},
         NEW piece \in Pieces, resp' = Append(resp, piece), Written' = Written + 1,
         IsPiece(piece, Written + 1), UNCHANGED <<current_thread, reply>>
  PROVE  ReplyInv'
  <1> USE Sorts
  <1>1. UNCHANGED <<cpc, rpc, got, nsent>>
    BY DEF client
  <1>2. PICK l \in Nat : l = Len(got[Main])
    BY AppendIndex
  <1>3. PICK n \in Nat : n = Len(resp)
    BY AppendIndex
  <1>4. /\ l <= 2 /\ l + n = Written
        /\ \A k \in 1 .. l : IsPiece(got[Main][k], k)
        /\ \A k \in 1 .. n : IsPiece(resp[k], l + k)
    BY <1>2, <1>3 DEF ReplyInv
  <1>5. /\ Len(resp') = n + 1 /\ resp'[n + 1] = piece
        /\ \A k \in 1 .. n : resp'[k] = resp[k]
    BY <1>3, AppendIndex
  <1>6. \A q, k : IsPiece(q, k)' <=> IsPiece(q, k)
    BY <1>1 DEF IsPiece
  <1>7. \A k \in 1 .. l : IsPiece(got[Main][k], k)'
    <2> SUFFICES ASSUME NEW k \in 1 .. l PROVE IsPiece(got[Main][k], k)'
      OBVIOUS
    <2>1. IsPiece(got[Main][k], k)
      BY <1>4
    <2> QED BY <1>1, <2>1 DEF IsPiece
  <1>8. \A k \in 1 .. n + 1 : IsPiece(resp[k], l + k)'
    <2> SUFFICES ASSUME NEW k \in 1 .. n + 1 PROVE IsPiece(resp[k], l + k)'
      OBVIOUS
    <2>1. PICK q : q = resp'[k]
      OBVIOUS
    <2>2. CASE k \in 1 .. n
      <3>1. IsPiece(q, l + k)
        BY <1>4, <1>5, <2>1, <2>2
      <3>2. IsPiece(q, l + k)'
        BY <1>6, <3>1
      <3> QED BY <2>1, <3>2 DEF IsPiece
    <2>3. CASE k = n + 1
      <3>1. l + k = Written + 1 /\ q = piece
        BY <1>4, <1>5, <2>1, <2>3
      <3>2. IsPiece(q, l + k)
        BY <3>1
      <3>3. IsPiece(q, l + k)'
        BY <1>6, <3>2
      <3> QED BY <2>1, <3>3 DEF IsPiece
    <2>4. k \in 1 .. n \/ k = n + 1
      OBVIOUS
    <2> QED BY <2>2, <2>3, <2>4
  <1>9. l + (n + 1) = Written'
    BY <1>4
  <1> QED BY <1>1, <1>2, <1>4, <1>5, <1>7, <1>8, <1>9 DEF ReplyInv

\* A kill when the client is gone.
LEMMA KilledSync ==
  ASSUME FrameInv, SyncInv, WorkerKilled, ~ClientAlive
  PROVE  SyncInv'
  <1>1. /\ wpc' = "killed" /\ client' = client
        /\ UNCHANGED <<cpc, cmd, nsent, req, resp, wstate, out, command, current_thread, tpc,
                       tcmd, reply>>
    BY DEF WorkerKilled, client, threads
  <1>2. ~ClientAlive' /\ cpc = "exited" /\ ~Loop' /\ ~InHand'
    BY <1>1 DEF ClientAlive, Loop, InHand
  <1>3. KindInv' /\ CountInv'
    BY <1>1, <1>2 DEF SyncInv, KindInv, CountInv, Replied
  <1>4. IdleInv' /\ CommandInv'
    BY <1>1, <1>2 DEF SyncInv, IdleInv, CommandInv
  <1>5. ReplyInv'
    BY <1>1, <1>2, ReplyKept DEF SyncInv
  <1> QED BY <1>3, <1>4, <1>5 DEF SyncInv

\* The main thread passes its test, closes the connection or exits.
LEMMA LoopSync ==
  ASSUME FrameInv, SyncInv, CheckConnection \/ connection_close \/ WorkerExit
  PROVE  SyncInv'
  <1> USE Sorts
  <1>1. /\ client' = client
        /\ UNCHANGED <<cpc, cmd, nsent, logged, misread, req, resp, command, current_thread, tpc, tcmd, reply>>
    BY DEF CheckConnection, connection_close, WorkerExit, client, threads
  <1>2. \/ wpc = "check" /\ wpc' = "receive" /\ UNCHANGED <<wstate, out>>
        \/ wpc = "check" /\ wpc' = "closing" /\ wstate = "closed" /\ UNCHANGED <<wstate, out>>
        \/ wpc = "closing" /\ wpc' = "exit" /\ wstate' = "closed" /\ out' = "reset"
        \/ wpc = "exit" /\ wpc' = "exited" /\ UNCHANGED <<wstate, out>>
    BY DEF CheckConnection, connection_close, WorkerExit
  <1>3. ~InHand /\ ~InHand' /\ (Loop' => Loop) /\ (ClientAlive' <=> ClientAlive)
    BY <1>1, <1>2 DEF InHand, Loop, ClientAlive
  <1>4. wpc = "check" /\ ~Loop' => wstate = "closed" /\ Loop
    BY <1>2 DEF Loop
  <1>5. \A t \in Slots : Replied(t)' <=> Replied(t)
    BY <1>1 DEF Replied
  <1>6. KindInv'
    BY <1>1, <1>2, <1>3 DEF SyncInv, KindInv
  <1>7. CountInv'
    BY <1>1, <1>2, <1>3, <1>5 DEF SyncInv, CountInv
  <1>8. IdleInv'
    <2>1. wstate' = "closed" \/ ~Loop' => wstate = "closed" \/ ~Loop
      BY <1>2 DEF Loop
    <2> QED BY <1>1, <1>2, <1>3, <1>5, <2>1 DEF SyncInv, IdleInv
  <1>9. CommandInv'
    BY <1>1, <1>3 DEF SyncInv, CommandInv
  <1>10. ReplyInv'
    <2>1. ASSUME cpc \in {"waiting", "closing"} PROVE Written' = Written
      <3>1. CASE nsent <= current_thread
        BY <1>1, <3>1 DEF Written, WrittenIn
      <3>2. CASE ~(nsent <= current_thread)
        <4>1. ~(wpc = "check" /\ wstate = "closed")
          BY <2>1, <3>2 DEF SyncInv, IdleInv, ClientAlive, Loop
        <4>2. WrittenIn(wpc') = WrittenIn(wpc)
          BY <1>2, <4>1 DEF WrittenIn
        <4> QED BY <1>1, <3>2, <4>2 DEF Written, WrittenIn
      <3> QED BY <3>1, <3>2
    <2> QED BY <1>1, <2>1, ReplyKept DEF SyncInv
  <1> QED BY <1>6, <1>7, <1>8, <1>9, <1>10 DEF SyncInv

\* The main thread receives the request, or reads on at end of file.
LEMMA ReceiveRequestSync ==
  ASSUME FrameInv, SyncInv, comm_receive_data \/ ReceiveAtEof
  PROVE  SyncInv'
  <1> USE Sorts
  <1>1. CASE ReceiveAtEof /\ WorkerKilled
    BY <1>1, KilledSync DEF ReceiveAtEof
  <1>2. ASSUME /\ wpc = "receive" /\ wpc' = "spawn" /\ client' = client
               /\ UNCHANGED <<resp, wstate, out, current_thread, threads>>,
               \/ req # << >> /\ command' = Head(req) /\ req' = Tail(req)
               \/ req = << >> /\ req' = req /\ ~ClientAlive /\ command' = "garbage"
        PROVE  SyncInv'
    <2>1. UNCHANGED <<cpc, cmd, nsent, logged, misread, tpc, tcmd, reply>>
      BY <1>2 DEF client, threads
    <2>2. Loop /\ Loop' /\ ~InHand /\ (ClientAlive' <=> ClientAlive)
      BY <1>2, <2>1 DEF Loop, InHand, ClientAlive
    <2>3. req # << >> => /\ req' = << >> /\ current_thread + 1 = nsent /\ command' = cmd
                         /\ command' \in AllCommands
      <3> SUFFICES ASSUME req # << >>
                   PROVE  /\ req' = << >> /\ current_thread + 1 = nsent /\ command' = cmd
                          /\ command' \in AllCommands
        OBVIOUS
      <3>1. Len(req) = 1 /\ current_thread + 1 = nsent /\ req[1] = cmd
        BY <2>2 DEF SyncInv, CountInv, CommandInv
      <3>2. Head(req) = req[1] /\ req[1] \in AllCommands /\ (Tail(req) = << >> <=> Len(req) - 1 = 0)
        BY TailIndex
      <3> QED BY <1>2, <3>1, <3>2
    <2>4. req' = << >> /\ (req = << >> => ~InHand' /\ ~ClientAlive /\ nsent <= current_thread)
      BY <1>2, <2>2, <2>3 DEF InHand, SyncInv, CountInv
    <2>5. "garbage" \notin AllCommands
      BY DEF AllCommands
    <2>6. command' # "get" /\ (ClientAlive => command' # "garbage")
      BY <1>2, <2>3, <2>5 DEF SyncInv, KindInv
    <2>7. KindInv'
      <3>1. \A k \in 1 .. Len(req') : req'[k] # "get"
        BY <2>4
      <3> QED BY <1>2, <2>1, <2>2, <2>6, <3>1 DEF SyncInv, KindInv
    <2>8. \A t \in Slots : Replied(t)' <=> Replied(t)
      BY <2>1 DEF Replied
    <2>9. CountInv'
      <3>1. IF InHand' THEN current_thread' + 1 = nsent' ELSE nsent' <= current_thread'
        BY <1>2, <2>1, <2>3, <2>4, <2>5 DEF InHand
      <3>2. wpc' \notin {"open", "body", "close"} /\ current_thread' = current_thread
        BY <1>2
      <3> QED BY <2>1, <2>2, <2>4, <2>8, <3>1, <3>2 DEF SyncInv, CountInv
    <2>10. req # << >> => cpc # "prompt" /\ (ClientAlive => wstate # "closed")
      BY <2>2, <2>3 DEF SyncInv, IdleInv
    <2>11. IdleInv'
      BY <1>2, <2>1, <2>2, <2>4, <2>8, <2>10 DEF SyncInv, IdleInv
    <2>12. CommandInv'
      BY <1>2, <2>1, <2>2, <2>3, <2>4 DEF SyncInv, CommandInv
    <2>13. ReplyInv'
      <3>1. Written' = Written
        BY <1>2, <2>1 DEF Written, WrittenIn
      <3> QED BY <1>2, <2>1, <3>1, ReplyKept DEF SyncInv
    <2> QED BY <2>7, <2>9, <2>11, <2>12, <2>13 DEF SyncInv
  <1> QED BY <1>1, <1>2 DEF comm_receive_data, ReceiveAtEof

\* A refusal: the request gets no slot, and the main thread sets out to answer.
LEMMA RefuseSync ==
  ASSUME FrameInv, SyncInv, Refuse
  PROVE  SyncInv'
  <1> USE Sorts
  <1>1. /\ wpc = "spawn" /\ wpc' = "open" /\ client' = client
        /\ UNCHANGED <<cpc, cmd, nsent, logged, misread, req, resp, wstate, out, command,
                       current_thread, tpc, tcmd, reply>>
    BY DEF Refuse, client, threads
  <1>2. Loop /\ ~Loop' /\ ~InHand' /\ (ClientAlive' <=> ClientAlive)
    BY <1>1 DEF Loop, InHand, ClientAlive
  <1>3. ClientAlive => InHand
    BY <1>1 DEF SyncInv, KindInv, InHand
  <1>4. ClientAlive => /\ current_thread + 1 = nsent /\ cpc # "prompt"
                       /\ \A t \in Slots : t <= current_thread => Replied(t)
    <2> SUFFICES ASSUME ClientAlive
                 PROVE  /\ current_thread + 1 = nsent /\ cpc # "prompt"
                        /\ \A t \in Slots : t <= current_thread => Replied(t)
      OBVIOUS
    <2>1. current_thread + 1 = nsent
      BY <1>3 DEF SyncInv, CountInv
    <2>2. cpc # "prompt"
      BY <1>2, <2>1 DEF SyncInv, IdleInv
    <2> QED BY <2>1, <2>2 DEF SyncInv, CountInv
  <1>5. \A t \in Slots : Replied(t)' <=> Replied(t)
    BY <1>1 DEF Replied
  <1>6. KindInv'
    BY <1>1, <1>2 DEF SyncInv, KindInv
  <1>7. CountInv'
    BY <1>1, <1>2, <1>4, <1>5 DEF SyncInv, CountInv
  <1>8. IdleInv'
    <2>1. cpc' # "prompt"
      BY <1>1, <1>4 DEF ClientAlive
    <2> QED BY <1>1, <1>2, <1>4, <1>5, <2>1 DEF IdleInv
  <1>9. CommandInv'
    BY <1>1, <1>2 DEF SyncInv, CommandInv
  <1>10. ReplyInv'
    <2>1. Written' = Written
      BY <1>1 DEF Written, WrittenIn
    <2> QED BY <1>1, <2>1, ReplyKept DEF SyncInv
  <1> QED BY <1>6, <1>7, <1>8, <1>9, <1>10 DEF SyncInv

\* The request gets the next slot: its number is that of the request.
LEMMA SpawnSync ==
  ASSUME FrameInv, SyncInv, SpawnThread
  PROVE  SyncInv'
  <1> USE Sorts
  <1> DEFINE t == current_thread + 1
  <1>1. /\ wpc = "spawn" /\ wpc' = "check" /\ client' = client
        /\ UNCHANGED <<cpc, cmd, nsent, logged, misread, req, resp, wstate, out, command, reply>>
        /\ current_thread' = t /\ tcmd' = [tcmd EXCEPT ![t] = command]
    BY DEF SpawnThread, client
  <1>2. PICK to \in {"parse", "none"} : tpc' = [tpc EXCEPT ![t] = to]
    BY DEF SpawnThread
  <1>3. t \in Slots /\ t \in Nat
    <2>1. current_thread < num_threads /\ num_threads <= Capacity /\ num_threads \in Nat
      BY <1>1 DEF FrameInv, TypeInv, SlotInv
    <2> QED BY <2>1
  <1>4. /\ tpc'[t] = to /\ tcmd'[t] = command
        /\ \A u \in Slots : u # t => tpc'[u] = tpc[u] /\ tcmd'[u] = tcmd[u]
    BY <1>1, <1>2, <1>3
  <1>5. /\ Loop /\ Loop' /\ ~InHand' /\ (ClientAlive' <=> ClientAlive) /\ req = << >>
        /\ command # "get"
    BY <1>1 DEF Loop, InHand, ClientAlive, SyncInv, CountInv, KindInv
  <1>6. CASE InHand
    <2>1. nsent = t /\ command = cmd
      BY <1>6 DEF SyncInv, CountInv, CommandInv
    <2>2. cpc # "prompt" /\ (ClientAlive => wstate # "closed")
      BY <1>5, <2>1 DEF SyncInv, IdleInv
    <2>3. command # "garbage"
      BY <1>6 DEF InHand
    <2>4. \A u \in Slots : u < nsent /\ u <= current_thread' => u # t /\ u <= current_thread
      BY <1>1, <2>1
    <2>5. KindInv'
      BY <1>1, <1>4, <1>5, <2>3 DEF SyncInv, KindInv
    <2>6. CountInv'
      <3>1. \A u \in Slots : u < nsent /\ u <= current_thread' => Replied(u)'
        BY <1>4, <2>4 DEF SyncInv, CountInv, Replied
      <3> QED BY <1>1, <1>5, <2>1, <3>1 DEF CountInv
    <2>7. IdleInv'
      BY <1>1, <1>5, <2>2 DEF IdleInv
    <2>8. CommandInv'
      BY <1>1, <1>4, <1>5, <2>1 DEF SyncInv, CommandInv
    <2>9. ReplyInv'
      <3>1. Written = 0
        BY <1>1, <2>1 DEF Written, WrittenIn
      <3>2. Written' = 0
        <4>1. WrittenIn(to) = 0
          BY DEF WrittenIn
        <4>2. tpc'[nsent'] = to /\ nsent' <= current_thread'
          BY <1>1, <1>4, <2>1
        <4> QED BY <4>1, <4>2 DEF Written, WrittenIn
      <3> QED BY <1>1, <3>1, <3>2, ReplyKept DEF SyncInv
    <2> QED BY <2>5, <2>6, <2>7, <2>8, <2>9 DEF SyncInv
  <1>7. CASE ~InHand
    <2>1. command = "garbage" /\ ~ClientAlive /\ cpc = "exited"
      BY <1>1, <1>7 DEF InHand, SyncInv, KindInv, ClientAlive
    <2>2. nsent <= current_thread
      BY <1>5, <1>7 DEF SyncInv, CountInv
    <2>3. \A u \in Slots : u <= current_thread' => u = t \/ u <= current_thread
      BY <1>1
    <2>4. KindInv'
      BY <1>1, <1>2, <1>4, <1>5, <2>1 DEF SyncInv, KindInv
    <2>5. CountInv'
      <3>1. \A u \in Slots : nsent < u /\ u <= current_thread' => tcmd'[u] = "garbage"
        BY <1>4, <2>1, <2>3 DEF SyncInv, CountInv
      <3>2. \A u \in Slots : u < nsent /\ u <= current_thread' => Replied(u)'
        <4>1. \A u \in Slots : u < nsent => u # t
          BY <2>2
        <4> QED BY <1>4, <2>3, <4>1 DEF SyncInv, CountInv, Replied
      <3> QED BY <1>1, <1>5, <2>1, <2>2, <3>1, <3>2 DEF CountInv
    <2>6. IdleInv'
      BY <1>1, <1>5, <2>1 DEF IdleInv
    <2>7. CommandInv'
      BY <1>1, <1>4, <1>5, <2>1, <2>2 DEF SyncInv, CommandInv
    <2>8. ReplyInv'
      BY <1>1, <2>1, ReplyKept DEF SyncInv
    <2> QED BY <2>4, <2>5, <2>6, <2>7, <2>8 DEF SyncInv
  <1> QED BY <1>6, <1>7

\* The main thread writes a piece of its refusal, the reply to the last request.
LEMMA MaxedSync ==
  ASSUME FrameInv, SyncInv, SendMaxed
  PROVE  SyncInv' /\ (ClientAlive' \/ resp' = resp)
  <1> USE Sorts
  <1> DEFINE text == IF wpc = "body" THEN "server_maxed" ELSE "none"
             piece == [frame |-> current_thread + 1, part |-> wpc, text |-> text]
  <1>1. /\ wpc \in {"open", "body", "close"} /\ client' = client
        /\ wpc' = CASE wpc = "open" -> "body" [] wpc = "body" -> "close" [] OTHER -> "closing"
        /\ UNCHANGED <<cpc, cmd, nsent, logged, misread, req, wstate, out, command,
                       current_thread, tpc, tcmd, reply>>
        /\ ~Broken /\ resp' = IF out = "open" THEN Append(resp, piece) ELSE resp
    BY DEF SendMaxed, Write, client, threads
  <1>2. ~Loop /\ ~Loop' /\ ~InHand /\ ~InHand' /\ (ClientAlive' <=> ClientAlive)
    BY <1>1 DEF Loop, InHand, ClientAlive
  <1>3. out = "open" /\ ClientAlive
    <2>1. out # "reset"
      BY <1>1 DEF SyncInv, KindInv
    <2>2. out = "open"
      BY <2>1 DEF FrameInv, TypeInv, TypeOK, WorkerTypes
    <2> QED BY <1>1, <2>2 DEF Broken
  <1>4. current_thread + 1 = nsent /\ cpc \in {"waiting", "closing"}
    <2>1. current_thread + 1 = nsent
      BY <1>1, <1>3 DEF SyncInv, CountInv
    <2>2. cpc # "prompt"
      BY <1>1 DEF SyncInv, IdleInv
    <2>3. cpc \in {"prompt", "waiting", "closing", "exited"}
      BY DEF FrameInv, TypeInv, TypeOK, ClientTypes
    <2> QED BY <1>3, <2>1, <2>2, <2>3 DEF ClientAlive
  <1>5. \A t \in Slots : Replied(t)' <=> Replied(t)
    BY <1>1 DEF Replied
  <1>6. KindInv'
    BY <1>1, <1>2, <1>3 DEF SyncInv, KindInv
  <1>7. CountInv'
    BY <1>1, <1>2, <1>4, <1>5 DEF SyncInv, CountInv
  <1>8. IdleInv'
    BY <1>1, <1>2, <1>4, <1>5 DEF SyncInv, IdleInv
  <1>9. CommandInv'
    BY <1>1, <1>2 DEF SyncInv, CommandInv
  <1>10. piece \in Pieces
    <2>1. current_thread + 1 \in Slots
      BY <1>1 DEF FrameInv, TypeInv, SlotInv
    <2>2. text \in Texts \cup {"none"}
      BY DEF Texts
    <2> HIDE DEF text
    <2> QED BY <1>1, <2>1, <2>2 DEF Pieces
  <1>11. ReplyInv'
    <2>1. Written = WrittenIn(wpc)
      BY <1>4 DEF Written
    <2>2. Written' = WrittenIn(wpc)'
      BY <1>1, <1>4 DEF Written
    <2>3. Written' = Written + 1
      BY <1>1, <2>1, <2>2 DEF WrittenIn
    <2>4. IsPiece(piece, Written + 1)
      <3>1. piece.frame = nsent /\ piece.part = wpc /\ ~(nsent <= current_thread)
        BY <1>4
      <3>2. Written = IF wpc = "open" THEN 0 ELSE IF wpc = "body" THEN 1 ELSE 2
        BY <1>1, <2>1 DEF WrittenIn
      <3> HIDE DEF piece
      <3> QED BY <1>1, <3>1, <3>2 DEF IsPiece
    <2> HIDE DEF piece
    <2> QED BY <1>1, <1>3, <1>4, <1>10, <2>3, <2>4, ReplyGrows DEF SyncInv
  <1> QED BY <1>2, <1>3, <1>6, <1>7, <1>8, <1>9, <1>11 DEF SyncInv

\* A responder goes on: once its reply is written it stays so, and the slots
\* are counted as before.
LEMMA StepSync ==
  ASSUME FrameInv, SyncInv, NEW t \in Slots, NEW to \in ThreadStates,
         tpc' = [tpc EXCEPT ![t] = to], tcmd[t] # "garbage",
         Replied(t) => to \in {"sent", "unlock", "done"},
         to \in {"open", "body", "close", "sent"} => tcmd[t] # "close",
         UNCHANGED <<client, req, wpc, out, command, current_thread, tcmd>>,
         \/ wstate' = wstate
         \/ ClientAlive =>
              /\ \A u \in Slots : u <= current_thread => Replied(u)'
              /\ nsent <= current_thread /\ cpc = "closing"
  PROVE  KindInv' /\ CountInv' /\ IdleInv' /\ CommandInv'
  <1> USE Sorts
  <1>1. UNCHANGED <<cpc, cmd, nsent, logged, misread>>
    BY DEF client
  <1>2. Loop' = Loop /\ InHand' = InHand /\ ClientAlive' = ClientAlive
    BY <1>1 DEF Loop, InHand, ClientAlive
  <1>3. tpc'[t] = to /\ \A u \in Slots : u # t => tpc'[u] = tpc[u]
    OBVIOUS
  <1>4. \A u \in Slots : Replied(u) => Replied(u)'
    BY <1>3 DEF Replied
  <1>5. KindInv'
    BY <1>1, <1>2, <1>3 DEF SyncInv, KindInv
  <1>6. CountInv'
    BY <1>1, <1>2, <1>4 DEF SyncInv, CountInv
  <1>7. IdleInv'
    BY <1>1, <1>2, <1>4 DEF SyncInv, IdleInv
  <1>8. CommandInv'
    BY <1>1, <1>2 DEF SyncInv, CommandInv
  <1> QED BY <1>5, <1>6, <1>7, <1>8

\* A step of a responder that writes no piece of its reply.
LEMMA WrittenKept ==
  ASSUME FrameInv, SyncInv, NEW t \in Slots, NEW to, tpc' = [tpc EXCEPT ![t] = to],
         t = nsent /\ cmd # "close" => WrittenIn(to) = WrittenIn(tpc[t]),
         cpc \in {"waiting", "closing"},
         UNCHANGED <<client, wpc, current_thread>>
  PROVE  Written' = Written
  <1> USE Sorts
  <1>1. UNCHANGED <<cmd, nsent>>
    BY DEF client
  <1>2. CASE nsent <= current_thread
    <2>1. nsent \in Slots
      BY <1>2 DEF SyncInv, CommandInv
    <2>2. cmd # "close" => WrittenIn(tpc'[nsent]) = WrittenIn(tpc[nsent])
      BY <2>1
    <2> QED BY <1>1, <1>2, <2>2 DEF Written, WrittenIn
  <1>3. CASE ~(nsent <= current_thread)
    BY <1>1, <1>3 DEF Written, WrittenIn
  <1> QED BY <1>2, <1>3

\* The handler of the last request chooses the answer (responder.c).
LEMMA AnswerSync ==
  ASSUME FrameInv, SyncInv, NEW t \in Slots, NEW s, Answer(t, s), tpc[t] = "dispatch",
         tcmd[t] # "close"
  PROVE  SyncInv'
  <1> USE Sorts
  <1>1. /\ tpc' = [tpc EXCEPT ![t] = "open"] /\ reply' = [reply EXCEPT ![t] = s]
        /\ UNCHANGED <<client, req, resp, wpc, wstate, out, command, current_thread, tcmd>>
    BY DEF Answer, Step, worker
  <1>2. tcmd[t] # "garbage" /\ "open" \in ThreadStates /\ ~Replied(t)
    BY DEF SyncInv, KindInv, ThreadStates, Replied
  <1>3. t = nsent /\ nsent <= current_thread
    BY <1>2, Busy
  <1>4. KindInv' /\ CountInv' /\ IdleInv' /\ CommandInv'
    BY <1>1, <1>2, StepSync
  <1>5. ReplyInv'
    <2>1. WrittenIn("open") = 0 /\ WrittenIn("dispatch") = 0
      BY DEF WrittenIn
    <2>2. Written = 0
      BY <1>3, <2>1 DEF Written
    <2>3. cpc \in {"waiting", "closing"} => Written' = Written
      BY <1>1, <2>1, WrittenKept
    <2> QED BY <1>1, <2>2, <2>3, ReplyKept DEF SyncInv
  <1> QED BY <1>4, <1>5 DEF SyncInv

\* The responder of the last request writes a piece of its reply.
LEMMA SendSync ==
  ASSUME FrameInv, SyncInv, NEW t \in Slots, comm_send_data(t)
  PROVE  SyncInv' /\ (ClientAlive' \/ resp' = resp)
  <1> USE Sorts
  <1> DEFINE to == CASE tpc[t] = "open" -> "body" [] tpc[t] = "body" -> "close"
                     [] OTHER -> "sent"
             text == IF tpc[t] = "body" THEN reply[t] ELSE "none"
             piece == [frame |-> t, part |-> tpc[t], text |-> text]
  <1>1. /\ tpc[t] \in {"open", "body", "close"} /\ tpc' = [tpc EXCEPT ![t] = to]
        /\ ~Broken /\ resp' = IF out = "open" THEN Append(resp, piece) ELSE resp
        /\ UNCHANGED <<client, req, wpc, wstate, out, command, current_thread, tcmd, reply>>
    BY DEF comm_send_data, Write, Step, worker
  <1>2. tcmd[t] \notin {"garbage", "close"} /\ to \in ThreadStates /\ ~Replied(t)
    BY <1>1 DEF SyncInv, KindInv, ThreadStates, Replied
  <1>3. /\ t = nsent /\ nsent <= current_thread /\ cmd # "close"
        /\ ClientAlive => Loop /\ cpc \in {"waiting", "closing"}
    BY <1>1, <1>2, Busy
  <1>4. tpc'[t] = to /\ nsent' = nsent /\ cmd' = cmd /\ (ClientAlive' <=> ClientAlive)
    BY <1>1 DEF client, ClientAlive
  <1>5. KindInv' /\ CountInv' /\ IdleInv' /\ CommandInv'
    <2> HIDE DEF to
    <2> QED BY <1>1, <1>2, StepSync
  <1>6. CASE ~ClientAlive
    <2>1. resp' = resp
      BY <1>1, <1>6 DEF Broken
    <2>2. cpc = "exited"
      BY <1>6 DEF ClientAlive
    <2>3. ReplyInv'
      BY <1>1, <2>1, <2>2, ReplyKept DEF SyncInv
    <2> QED BY <1>5, <2>1, <2>3 DEF SyncInv
  <1>7. CASE ClientAlive
    <2>1. out = "open"
      <3>1. out # "reset"
        BY <1>3, <1>7 DEF SyncInv, KindInv, Loop
      <3> QED BY <3>1 DEF FrameInv, TypeInv, TypeOK, WorkerTypes
    <2>2. Written = WrittenIn(tpc[t])
      BY <1>3 DEF Written
    <2>3. Written' = WrittenIn(to)
      BY <1>1, <1>3, <1>4 DEF Written, WrittenIn
    <2>4. WrittenIn(to) = WrittenIn(tpc[t]) + 1
      BY <1>1 DEF WrittenIn
    <2>5. piece \in Pieces
      <3>1. text \in Texts \cup {"none"}
        OBVIOUS
      <3> HIDE DEF text
      <3> QED BY <1>1, <3>1 DEF Pieces
    <2>6. IsPiece(piece, Written + 1)
      <3>1. piece.frame = nsent /\ piece.part = tpc[t]
        BY <1>3
      <3>2. tpc[t] = "body" => piece.text = reply[nsent]
        BY <1>3
      <3>3. Written = IF tpc[t] = "open" THEN 0 ELSE IF tpc[t] = "body" THEN 1 ELSE 2
        BY <1>1, <2>2 DEF WrittenIn
      <3> HIDE DEF piece
      <3> QED BY <1>1, <3>1, <3>2, <3>3 DEF IsPiece
    <2> HIDE DEF piece, to
    <2>7. ReplyInv'
      BY <1>1, <1>3, <1>7, <2>1, <2>2, <2>3, <2>4, <2>5, <2>6, ReplyGrows DEF SyncInv
    <2> QED BY <1>4, <1>5, <1>7, <2>7 DEF SyncInv
  <1> QED BY <1>6, <1>7

\* A close request is not answered: the client that sent it is leaving.
LEMMA CloseSync ==
  ASSUME FrameInv, SyncInv, NEW t \in Slots, process_close(t)
  PROVE  SyncInv'
  <1> USE Sorts
  <1>1. /\ tpc[t] = "dispatch" /\ tcmd[t] = "close" /\ wstate' = "closed"
        /\ tpc' = [tpc EXCEPT ![t] = "unlock"]
        /\ UNCHANGED <<client, req, resp, wpc, out, command, current_thread, tcmd, reply>>
    BY DEF process_close, Handles, Step
  <1>2. /\ t = nsent /\ nsent <= current_thread /\ cmd = "close"
        /\ ClientAlive => current_thread = nsent
    BY <1>1, Busy
  <1>3. ClientAlive => cpc = "closing"
    BY <1>2 DEF SyncInv, CommandInv, ClientAlive
  <1>4. ClientAlive => \A u \in Slots : u <= current_thread => Replied(u)'
    <2>1. \A u \in Slots : u # t /\ u <= nsent => Replied(u) /\ tpc'[u] = tpc[u]
      <3>1. \A u \in Slots : u # t /\ u <= nsent => u < nsent /\ u <= current_thread
        BY <1>2
      <3>2. \A u \in Slots : u # t => tpc'[u] = tpc[u]
        BY <1>1
      <3> QED BY <3>1, <3>2 DEF SyncInv, CountInv
    <2>2. tpc'[t] = "unlock"
      BY <1>1
    <2> QED BY <1>2, <2>1, <2>2 DEF Replied
  <1>5. KindInv' /\ CountInv' /\ IdleInv' /\ CommandInv'
    <2>1. tcmd[t] # "garbage" /\ "unlock" \in ThreadStates
      BY <1>1 DEF ThreadStates
    <2> QED BY <1>1, <1>2, <1>3, <1>4, <2>1, StepSync
  <1>6. ReplyInv'
    <2>1. cpc \in {"waiting", "closing"} => Written' = Written
      BY <1>1, <1>2, WrittenKept
    <2>2. Written = 0
      BY <1>2 DEF Written
    <2> QED BY <1>1, <2>1, <2>2, ReplyKept DEF SyncInv
  <1> QED BY <1>5, <1>6 DEF SyncInv

\* Locking, settling the user and unlocking write nothing.
LEMMA LockSync ==
  ASSUME FrameInv, SyncInv, NEW t \in Slots,
         pthread_mutex_lock(t) \/ FinishHandler(t) \/ pthread_mutex_unlock(t)
  PROVE  SyncInv'
  <1> USE Sorts
  <1>1. PICK to \in {"dispatch", "unlock", "done"} :
          /\ tpc' = [tpc EXCEPT ![t] = to]
          /\ \/ to = "dispatch" /\ tpc[t] = "parse" /\ tcmd[t] # "garbage"
             \/ to \in {"unlock", "done"} /\ tpc[t] \in {"sent", "unlock"}
          /\ UNCHANGED <<client, req, resp, wpc, wstate, out, command, current_thread, tcmd, reply>>
    BY DEF pthread_mutex_lock, FinishHandler, pthread_mutex_unlock, Step, worker
  <1>2. tcmd[t] # "garbage" /\ to \in ThreadStates
    BY <1>1 DEF SyncInv, KindInv, ThreadStates
  <1>3. WrittenIn(to) = WrittenIn(tpc[t])
    BY <1>1 DEF WrittenIn
  <1>4. Replied(t) => to \in {"sent", "unlock", "done"}
    BY <1>1 DEF Replied
  <1>5. KindInv' /\ CountInv' /\ IdleInv' /\ CommandInv'
    BY <1>1, <1>2, <1>4, StepSync
  <1>6. ReplyInv'
    <2>1. cpc \in {"waiting", "closing"} => Written' = Written
      BY <1>1, <1>3, WrittenKept
    <2> QED BY <1>1, <2>1, ReplyKept DEF SyncInv
  <1> QED BY <1>5, <1>6 DEF SyncInv

\* The responders' steps (responder.c).
LEMMA ResponderSync ==
  ASSUME FrameInv, SyncInv, NEW t \in Slots, Responder(t), ~process_post_cmd_faults(t)
  PROVE  SyncInv' /\ (ClientAlive' \/ resp' = resp)
  <1>1. CASE parse_encoded_fails(t)
    <2>1. ~ClientAlive
      BY <1>1 DEF parse_encoded_fails, SyncInv, KindInv
    <2> QED BY <1>1, <2>1, KilledSync DEF parse_encoded_fails, WorkerKilled
  <1>2. tcmd[t] # "get"
    BY DEF SyncInv, KindInv
  <1>3. CASE \/ process_echo(t) \/ process_post_cmd(t) \/ process_new_user_cmd(t)
             \/ process_change_pass_cmd(t) \/ process_login_cmd(t) \/ process_logout_cmd(t)
    <2>1. /\ tpc[t] = "dispatch" /\ tcmd[t] # "close" /\ \E s : Answer(t, s)
      BY <1>3 DEF process_echo, process_post_cmd, process_new_user_cmd, process_change_pass_cmd,
         process_login_cmd, process_logout_cmd, Handles, AnswerIfLogged
    <2> QED BY <2>1, AnswerSync DEF Answer
  <1>4. CASE process_close(t)
    BY <1>4, CloseSync DEF process_close
  <1>5. CASE comm_send_data(t)
    BY <1>5, SendSync
  <1>6. CASE pthread_mutex_lock(t) \/ FinishHandler(t) \/ pthread_mutex_unlock(t)
    BY <1>6, LockSync DEF pthread_mutex_lock, FinishHandler, pthread_mutex_unlock
  <1> QED BY <1>1, <1>2, <1>3, <1>4, <1>5, <1>6 DEF Responder, process_get_cmd,
       process_get_cmd_faults, Handles

\* A fault of the worker while its client is there: the client waits for the
\* reply, of which nothing is written yet (responder.c 93, comm.read.fifo.c
\* 201-219).
LEMMA FaultSync ==
  ASSUME FrameInv, SyncInv,
         comm_receive_data_overruns \/ \E t \in Slots : process_post_cmd_faults(t)
  PROVE  (SyncInv' \/ Stuck') /\ resp' = resp
  <1> USE Sorts
  <1>1. WorkerKilled
    BY DEF comm_receive_data_overruns, process_post_cmd_faults
  <1>2. /\ wpc' = "killed"
        /\ UNCHANGED <<cpc, rpc, got, resp, tpc, tcmd>>
    BY <1>1 DEF WorkerKilled, client, threads
  <1>3. CASE ~ClientAlive
    BY <1>1, <1>2, <1>3, KilledSync
  <1>4. CASE ClientAlive
    <2>1. cpc \in {"waiting", "closing"} /\ cmd # "close" /\ Written = 0
      <3>1. CASE comm_receive_data_overruns
        <4>1. /\ wpc = "receive" /\ req # << >> /\ req[1] \in Texted /\ Loop
          BY <3>1 DEF comm_receive_data_overruns, Loop
        <4>2. cmd # "close" /\ current_thread + 1 = nsent
          BY <4>1 DEF SyncInv, CountInv, CommandInv, Texted
        <4>3. ~(nsent <= current_thread)
          BY <4>2
        <4>4. cpc # "prompt"
          BY <4>1, <4>3 DEF SyncInv, IdleInv
        <4>5. cpc \in {"prompt", "waiting", "closing", "exited"}
          BY DEF FrameInv, TypeInv, TypeOK, ClientTypes
        <4> QED BY <1>4, <4>1, <4>2, <4>3, <4>4, <4>5 DEF Written, WrittenIn, ClientAlive
      <3>2. ASSUME NEW t \in Slots, process_post_cmd_faults(t)
            PROVE  cpc \in {"waiting", "closing"} /\ cmd # "close" /\ Written = 0
        <4>1. tpc[t] = "dispatch" /\ tcmd[t] = "post"
          BY <3>2 DEF process_post_cmd_faults, Handles
        <4>2. /\ t = nsent /\ nsent <= current_thread /\ cmd = "post"
              /\ cpc \in {"waiting", "closing"}
          BY <1>4, <4>1, Busy
        <4> QED BY <4>1, <4>2 DEF Written, WrittenIn
      <3> QED BY <3>1, <3>2
    <2>2. cpc = "waiting"
      BY <2>1 DEF SyncInv, CommandInv
    <2>3. Len(got[Main]) + Len(resp) = 0
      BY <2>1 DEF SyncInv, ReplyInv
    <2>4. got[Main] = << >> /\ resp = << >>
      BY <2>3
    <2>5. \A n \in Requests : rpc[n] = "off"
      BY DEF SyncInv, ReplyInv
    <2>6. \A t \in Slots : tcmd[t] = "garbage" => tpc[t] \in {"none", "parse"}
      BY DEF SyncInv, KindInv
    <2> QED BY <1>2, <2>2, <2>4, <2>5, <2>6 DEF Stuck
  <1> QED BY <1>3, <1>4

\* A client whose worker died of its request can do nothing but be killed.
LEMMA StuckSteps ==
  ASSUME Stuck, [Next]_vars
  PROVE  ClientDies \/ UNCHANGED vars
  <1>1. ~WorkerAlive /\ cpc \notin {"prompt", "closing"}
    BY DEF Stuck, WorkerAlive
  <1>2. ~UserTypes
    BY <1>1 DEF UserTypes, cmd_send, cmd_post, cmd_login, cmd_logout, cmd_new_user,
       cmd_change_pass, cmd_get, cmd_close, SendAndReceive, send_cmd
  <1>3. ~MainThread
    BY <1>1 DEF Stuck, MainThread, ReadPiece, receive, ParseFails, MainLoopEnds
  <1>4. \A n \in Requests : ~Listener(n)
    BY DEF Stuck, Listener, data_listener_lock, ReadPiece, get_handler, ParseFails
  <1>5. ~WorkerMain /\ ~Sigpipe
    BY <1>1 DEF Stuck, WorkerMain, CheckConnection, comm_receive_data, comm_receive_data_overruns,
       ReceiveAtEof, Refuse, SpawnThread, SendMaxed, connection_close, WorkerExit, Sigpipe
  <1>6. \A t \in Slots : ~Responder(t)
    BY <1>1 DEF Responder, parse_encoded_fails, pthread_mutex_lock, process_echo,
       process_get_cmd, process_get_cmd_faults, process_post_cmd, process_post_cmd_faults,
       process_new_user_cmd, process_change_pass_cmd, process_login_cmd, process_logout_cmd,
       process_close, comm_send_data, FinishHandler, pthread_mutex_unlock, Handles
  <1> QED BY <1>2, <1>3, <1>4, <1>5, <1>6 DEF Next

\* It stays so when it is killed.
LEMMA StuckStays ==
  ASSUME Stuck, ClientDies
  PROVE  /\ Stuck' /\ cpc' = "exited"
         /\ UNCHANGED <<resp, answer, logged, misread, worker, threads, req>>
  <1>1. \A n \in Requests : rpc'[n] = "off"
    BY SessionAssumption DEF ClientDies, ClientExits, Requests, Readers
  <1> QED BY <1>1 DEF Stuck, ClientDies, ClientExits, worker, threads

-----------------------------------------------------------------------------
(* The theorems.                                                           *)

\* SyncInv is preserved for a client that sends no gets, up to a fault of the
\* worker, and carries the frames and the answers with it.
LEMMA StepSyncInv ==
  ASSUME NoGets, FrameInv, SyncInv, FramesWhole, OwnAnswer, [Next]_vars
  PROVE  (SyncInv' \/ Stuck') /\ FramesWhole' /\ OwnAnswer'
  <1>1. FrameInv'
    BY NextFrameInv
  <1>2. CASE ClientStep
    BY <1>1, <1>2, ClientSync, FramesSync
  <1>3. CASE UNCHANGED vars
    <2>1. UNCHANGED <<cpc, logged, misread, cmd, nsent, rpc, got, answer, req, resp, wpc, wstate, out,
                      command, current_thread, tpc, tcmd, reply>>
      BY <1>3 DEF vars, client, worker, threads
    <2>2. KindInv' /\ CountInv' /\ IdleInv' /\ CommandInv'
      BY <2>1 DEF SyncInv, KindInv, CountInv, IdleInv, CommandInv, Loop, InHand, ClientAlive,
         Replied
    <2>3. ReplyInv'
      BY <2>1 DEF SyncInv, ReplyInv, Written, WrittenIn, IsPiece
    <2> QED BY <1>1, <2>1, <2>2, <2>3 DEF SyncInv, FramesWhole, OwnAnswer
  <1>4. CASE WorkerMain \/ Sigpipe \/ \E t \in Slots : Responder(t)
    <2>1. (SyncInv' /\ (ClientAlive' \/ resp' = resp)) \/ (Stuck' /\ resp' = resp)
      <3>1. CASE WorkerMain /\ ~comm_receive_data_overruns
        BY <3>1, LoopSync, ReceiveRequestSync, RefuseSync, SpawnSync, MaxedSync DEF WorkerMain,
           CheckConnection, connection_close, WorkerExit, comm_receive_data, ReceiveAtEof,
           WorkerKilled, Refuse, SpawnThread
      <3>2. CASE Sigpipe
        BY <3>2, KilledSync DEF Sigpipe, Broken, WorkerKilled
      <3>3. CASE \E t \in Slots : Responder(t) /\ ~process_post_cmd_faults(t)
        BY <3>3, ResponderSync
      <3>4. CASE comm_receive_data_overruns \/ \E t \in Slots : process_post_cmd_faults(t)
        BY <3>4, FaultSync
      <3> QED BY <1>4, <3>1, <3>2, <3>3, <3>4
    <2>2. answer' = answer
      <3>1. WorkerMain \/ Sigpipe => client' = client
        BY DEF WorkerMain, CheckConnection, connection_close, WorkerExit, comm_receive_data,
           comm_receive_data_overruns, ReceiveAtEof, WorkerKilled, Refuse, SpawnThread,
           SendMaxed, Sigpipe
      <3>2. ASSUME NEW t \in Slots, Responder(t) PROVE client' = client
        BY <3>2 DEF Responder, parse_encoded_fails, pthread_mutex_lock, process_echo,
           process_get_cmd, process_get_cmd_faults, process_post_cmd, process_post_cmd_faults,
           process_new_user_cmd, process_change_pass_cmd, process_login_cmd, process_logout_cmd, process_close,
           comm_send_data, FinishHandler, pthread_mutex_unlock, Answer, AnswerIfLogged,
           WorkerKilled
      <3> QED BY <1>4, <3>1, <3>2 DEF client
    <2>3. CASE SyncInv' /\ (ClientAlive' \/ resp' = resp)
      BY <1>1, <2>2, <2>3, FramesSync DEF OwnAnswer
    <2>4. CASE Stuck' /\ resp' = resp
      BY <2>2, <2>4 DEF FramesWhole, OwnAnswer
    <2> QED BY <2>1, <2>3, <2>4
  <1> QED BY <1>2, <1>3, <1>4 DEF Next, ClientStep

\* Once the worker died of its client's request nothing comes any more.
LEMMA StuckInv ==
  ASSUME Stuck, FramesWhole, OwnAnswer, [Next]_vars
  PROVE  Stuck' /\ FramesWhole' /\ OwnAnswer'
  <1>1. CASE ClientDies
    BY <1>1, StuckStays DEF FramesWhole, OwnAnswer
  <1>2. CASE UNCHANGED vars
    BY <1>2 DEF vars, client, worker, threads, Stuck, FramesWhole, OwnAnswer
  <1> QED BY <1>1, <1>2, StuckSteps

\* All that the session promises a client without gets, at every moment.
LEMMA SyncInvariant ==
  ASSUME NoGets
  PROVE  Spec => [](FrameInv /\ (SyncInv \/ Stuck) /\ FramesWhole /\ OwnAnswer)
  <1> DEFINE Inv == FrameInv /\ (SyncInv \/ Stuck) /\ FramesWhole /\ OwnAnswer
  <1>1. Init => Inv
    BY InitFrameInv, InitSyncInv
  <1>2. Inv /\ [Next]_vars => Inv'
    BY NextFrameInv, StepSyncInv, StuckInv
  <1> QED BY <1>1, <1>2, PTL DEF Spec

\* The response FIFO holds whole frames even when the worker refuses a request
\* without the lock, as a client without gets never has two replies under way
\* (comm.send.fifo.c 111-115, main.c 235-237).
THEOREM SyncFramesWhole == ASSUME "get" \notin Commands PROVE Spec => []FramesWhole
  BY SyncInvariant, PTL DEF NoGets

\* The text such a client shows is the reply to the command it executes,
\* whichever thread of the worker wrote it (comm.read.fifo.c 189-229).
THEOREM SyncOwnAnswer == ASSUME "get" \notin Commands PROVE Spec => []OwnAnswer
  BY SyncInvariant, PTL DEF NoGets

\* The worker may exit without joining its threads: by the time it does, the
\* replies of a client that is still there are written (main.c 258-264).
THEOREM SyncExitAfterReplies == ASSUME "get" \notin Commands PROVE Spec => []ExitAfterReplies
  <1>1. FrameInv /\ (SyncInv \/ Stuck) => ExitAfterReplies
    <2>1. Stuck => ExitAfterReplies
      BY DEF Stuck, ExitAfterReplies
    <2> SUFFICES ASSUME FrameInv, SyncInv, wpc = "exited", ClientAlive,
                        NEW t \in 1 .. current_thread
                 PROVE  Replied(t)
      BY <2>1 DEF ExitAfterReplies
    <2>2. t \in Slots /\ t <= current_thread
      BY Sorts
    <2>3. ~Loop
      BY DEF Loop
    <2> QED BY <2>2, <2>3 DEF SyncInv, IdleInv
  <1> QED BY <1>1, SyncInvariant, PTL DEF NoGets

-----------------------------------------------------------------------------
(* The user of the worker and the client's belief.                         *)

\* A step that settles nothing new keeps the agreement.
LEMMA AgreeKept ==
  ASSUME AgreeInv, client' = client, Settled' = Settled,
         Loop' => Loop,
         Loop' /\ (req' # << >> \/ InHand') => req # << >> \/ InHand,
         \A t \in Slots : tpc'[t] \in {"parse", "dispatch"} /\ tcmd'[t] # "garbage" => Agree,
         cpc = "waiting" /\ nsent <= current_thread' /\ tpc'[nsent] \in Handled =>
           nsent <= current_thread /\ tpc[nsent] \in Handled /\ reply'[nsent] = reply[nsent]
  PROVE  AgreeInv'
  <1>1. UNCHANGED <<cpc, cmd, nsent, logged, misread>>
    BY DEF client
  <1>2. Agree' = Agree
    BY <1>1 DEF Agree
  <1>3. ASSUME cpc = "waiting", nsent <= current_thread', tpc'[nsent] \in Handled
        PROVE  Tells(reply[nsent])'
    <2>1. reply'[nsent] = reply[nsent] /\ Tells(reply[nsent])
      BY <1>3 DEF AgreeInv
    <2> QED BY <1>1, <2>1 DEF Tells, LoggedAfter, MisreadAfter
  <1> QED BY <1>1, <1>2, <1>3 DEF AgreeInv

\* The client's steps: it changes its mind when it has the reply, and then as
\* the worker has (commands.c 256-265, 316-320).
LEMMA ClientAgree ==
  ASSUME NoGets, FrameInv, SyncInv, SyncInv', AgreeInv, ClientStep
  PROVE  AgreeInv'
  <1> USE Sorts
  <1>1. UNCHANGED <<worker, threads>>
    BY ClientStepFrame
  <1>2. /\ UNCHANGED <<wpc, command, current_thread, tpc, tcmd, reply>> /\ Settled' = Settled
        /\ Loop' = Loop /\ InHand' = InHand
    BY <1>1 DEF worker, threads, Settled, UserAfter, Loop, InHand
  <1>3. CASE UserTypes
    <2>1. /\ cpc = "prompt" /\ nsent' = nsent + 1 /\ UNCHANGED <<logged, misread>>
          /\ cpc' \in {"waiting", "closing"}
      BY <1>3, UserTypesSync DEF send_cmd
    <2>2. Agree' = Agree /\ (Loop' => Agree)
      BY <1>2, <2>1 DEF Agree, AgreeInv
    <2>3. ~(nsent' <= current_thread')
      BY <1>2, <2>1 DEF SyncInv, CountInv, ClientAlive
    <2>4. \A t \in Slots : tpc[t] \in {"parse", "dispatch"} /\ tcmd[t] # "garbage" => Agree
      BY DEF AgreeInv
    <2> QED BY <1>2, <2>1, <2>2, <2>3, <2>4 DEF AgreeInv
  <1>4. ASSUME ClientExits PROVE AgreeInv'
    <2>1. cpc' = "exited" /\ UNCHANGED <<logged, misread, req>>
      BY <1>4 DEF ClientExits
    <2>2. Agree' = Agree
      BY <1>2, <2>1 DEF Agree
    <2> QED BY <1>2, <2>1, <2>2 DEF AgreeInv
  <1>5. CASE ClientDies
    BY <1>4, <1>5 DEF ClientDies
  <1>6. CASE ReadPiece(Main)
    <2>1. UNCHANGED <<cpc, logged, misread, cmd, nsent, req>>
      BY <1>6 DEF ReadPiece
    <2> QED BY <1>2, <2>1 DEF AgreeInv, Agree, Tells, LoggedAfter, MisreadAfter
  <1>7. CASE receive
    <2>1. /\ rpc[Main] = "reading" /\ resp # << >> /\ Completes(Main, Head(resp))
          /\ logged' \in LoggedAfter(cmd, got[Main][2].text)
          /\ misread' = MisreadAfter(cmd, got[Main][2].text, logged')
          /\ cpc' = "prompt" /\ UNCHANGED <<cmd, nsent, req>>
      BY <1>7 DEF receive
    <2>2. /\ cpc = "waiting" /\ Written = 3
          /\ nsent <= current_thread => got[Main][2].text = reply[nsent]
      BY <2>1, NextPiece
    <2>3. cmd # "close" /\ ClientAlive
      BY <2>2 DEF SyncInv, CommandInv, ClientAlive
    <2>4. nsent <= current_thread => tpc[nsent] \in {"sent", "unlock", "done"}
      <3> SUFFICES ASSUME nsent <= current_thread PROVE tpc[nsent] \in {"sent", "unlock", "done"}
        OBVIOUS
      <3>1. nsent # 0
        BY <2>2 DEF SyncInv, CommandInv
      <3>2. tpc[nsent] \in ThreadStates
        BY <3>1
      <3>3. WrittenIn(tpc[nsent]) = 3
        BY <2>2, <2>3 DEF Written
      <3>4. \A state \in ThreadStates : WrittenIn(state) = 3 => state \in {"sent", "unlock", "done"}
        BY DEF WrittenIn, ThreadStates
      <3> QED BY <3>2, <3>3, <3>4
    <2>5. nsent <= current_thread => Agree'
      <3>1. nsent <= current_thread => Tells(reply[nsent])
        BY <2>2, <2>4 DEF AgreeInv, Handled
      <3>2. nsent <= current_thread =>
              (logged' = "yes" <=> Settled # "NULL" \/ misread' = "yes")
        BY <2>1, <2>2, <3>1 DEF Tells
      <3> QED BY <1>2, <3>2 DEF Agree
    <2>6. \A t \in Slots : ~(tpc[t] \in {"parse", "dispatch"} /\ tcmd[t] # "garbage")
      BY <2>4, Busy
    <2>7. Loop' => nsent <= current_thread
      <3>1. IdleInv'
        BY DEF SyncInv
      <3> QED BY <1>2, <2>1, <3>1 DEF IdleInv
    <2>8. Loop' => req = << >> /\ ~InHand
      BY <1>2, <2>7 DEF SyncInv, CountInv
    <2> QED BY <1>2, <2>1, <2>5, <2>6, <2>7, <2>8 DEF AgreeInv
  <1>8. CASE ParseFails(Main) \/ MainLoopEnds
    BY <1>4, <1>8 DEF ParseFails, MainLoopEnds
  <1>9. ASSUME NEW n \in Requests, Listener(n) PROVE FALSE
    <2>1. rpc[n] = "off"
      BY DEF SyncInv, ReplyInv
    <2> QED BY <1>9, <2>1 DEF Listener, data_listener_lock, ReadPiece, get_handler, ParseFails
  <1> QED BY <1>3, <1>5, <1>6, <1>7, <1>8, <1>9 DEF ClientStep, MainThread

\* The receive loop passes the request on, and asks nobody's user.
LEMMA WorkerAgree ==
  ASSUME FrameInv, SyncInv, AgreeInv, WorkerMain \/ WorkerKilled
  PROVE  AgreeInv'
  <1> USE Sorts
  <1>1. CASE SpawnThread
    <2> DEFINE t == current_thread + 1
    <2>1. /\ wpc = "spawn" /\ wpc' = "check" /\ client' = client
          /\ UNCHANGED <<req, command, lock, user, reply>>
          /\ current_thread' = t /\ tcmd' = [tcmd EXCEPT ![t] = command]
      BY <1>1 DEF SpawnThread
    <2>2. PICK to \in {"parse", "none"} : tpc' = [tpc EXCEPT ![t] = to]
      BY <1>1 DEF SpawnThread
    <2>3. t \in Slots
      <3>1. current_thread < num_threads /\ num_threads <= Capacity /\ num_threads \in Nat
        BY <2>1 DEF FrameInv, TypeInv, SlotInv
      <3> QED BY <3>1
    <2>4. /\ tpc'[t] = to /\ tcmd'[t] = command
          /\ \A u \in Slots : u # t => tpc'[u] = tpc[u] /\ tcmd'[u] = tcmd[u]
      BY <2>1, <2>2, <2>3
    <2>5. lock # 0 => lock \in Slots /\ lock # t
      <3>1. tpc[t] \notin Critical
        <4>1. t > current_thread
          OBVIOUS
        <4> QED BY <2>3, <4>1 DEF FrameInv, LockInv, Critical
      <3>2. lock \in 0 .. Capacity /\ lock # t
        BY <2>3, <3>1 DEF FrameInv, LockInv, TypeInv, TypeOK, ThreadTypes
      <3> QED BY <3>2
    <2>6. Settled' = Settled
      BY <2>1, <2>4, <2>5 DEF Settled, UserAfter
    <2>7. Loop /\ ~InHand' /\ req = << >>
      BY <2>1 DEF Loop, InHand, SyncInv, CountInv
    <2>8. \A u \in Slots : tpc'[u] \in {"parse", "dispatch"} /\ tcmd'[u] # "garbage" => Agree
      <3>1. command # "garbage" => Agree
        BY <2>1, <2>7 DEF InHand, AgreeInv
      <3> QED BY <2>4, <3>1 DEF AgreeInv
    <2>9. cpc = "waiting" /\ nsent <= current_thread' /\ tpc'[nsent] \in Handled =>
            nsent <= current_thread /\ tpc[nsent] \in Handled
      <3> SUFFICES ASSUME cpc = "waiting", nsent <= current_thread', tpc'[nsent] \in Handled
                   PROVE  nsent <= current_thread /\ tpc[nsent] \in Handled
        OBVIOUS
      <3>1. nsent # 0
        BY DEF SyncInv, CommandInv
      <3>2. nsent \in Slots
        BY <2>1, <2>3, <3>1
      <3>3. nsent # t
        BY <2>4 DEF Handled
      <3> QED BY <2>1, <2>4, <3>2, <3>3
    <2>10. Loop' /\ (req' # << >> \/ InHand') => req # << >> \/ InHand
      BY <2>1, <2>7
    <2> HIDE DEF t
    <2> QED BY <2>1, <2>6, <2>7, <2>8, <2>9, <2>10, AgreeKept
  <1>2. ASSUME client' = client, UNCHANGED <<current_thread, threads>>, Loop' => Loop,
               Loop' /\ (req' # << >> \/ InHand') => req # << >> \/ InHand
        PROVE  AgreeInv'
    <2>1. UNCHANGED <<tpc, tcmd, reply>> /\ Settled' = Settled
      BY <1>2 DEF threads, Settled, UserAfter
    <2>2. \A t \in Slots : tpc[t] \in {"parse", "dispatch"} /\ tcmd[t] # "garbage" => Agree
      BY DEF AgreeInv
    <2> QED BY <1>2, <2>1, <2>2, AgreeKept
  <1>3. CASE CheckConnection \/ Refuse \/ SendMaxed \/ connection_close \/ WorkerExit \/ WorkerKilled
    BY <1>2, <1>3 DEF CheckConnection, Refuse, SendMaxed, connection_close, WorkerExit, WorkerKilled,
       Loop, InHand
  <1>4. CASE comm_receive_data \/ ReceiveAtEof
    BY <1>2, <1>3, <1>4 DEF comm_receive_data, ReceiveAtEof, Loop, InHand
  <1> QED BY <1>1, <1>3, <1>4 DEF WorkerMain, comm_receive_data_overruns

\* A step of the responder of the last request leaves nothing else to be
\* handled.
LEMMA ResponderKept ==
  ASSUME FrameInv, SyncInv, AgreeInv, NEW t \in Slots, NEW to \in Handled,
         tpc[t] \in Handled, tpc' = [tpc EXCEPT ![t] = to], Settled' = Settled,
         UNCHANGED <<client, req, worker, tcmd, reply>>
  PROVE  AgreeInv'
  <1> USE Sorts
  <1>1. Loop' = Loop /\ InHand' = InHand /\ current_thread' = current_thread
    BY DEF Loop, InHand, worker
  <1>2. \A u \in Slots : tpc'[u] = IF u = t THEN to ELSE tpc[u]
    OBVIOUS
  <1>3. \A u \in Slots : tpc'[u] \in {"parse", "dispatch"} /\ tcmd'[u] # "garbage" => Agree
    BY <1>2 DEF AgreeInv, Handled
  <1>4. cpc = "waiting" /\ nsent <= current_thread /\ tpc'[nsent] \in Handled =>
          tpc[nsent] \in Handled
    <2> SUFFICES ASSUME cpc = "waiting", nsent <= current_thread, tpc'[nsent] \in Handled
                 PROVE  tpc[nsent] \in Handled
      OBVIOUS
    <2>1. nsent \in Slots
      BY DEF SyncInv, CommandInv
    <2> QED BY <1>2, <2>1
  <1> QED BY <1>1, <1>3, <1>4, AgreeKept

\* The handler chooses its reply: with client and worker agreed on whether
\* there is a user, the reply tells the client what the worker's user becomes
\* (responder.c 104-152).
LEMMA AnswerAgree ==
  ASSUME FrameInv, SyncInv, AgreeInv, NEW t \in Slots, NEW s, Answer(t, s),
         tpc[t] = "dispatch", tcmd[t] \notin {"close", "get", "garbage"},
         \/ /\ tcmd[t] = "login"
            /\ \/ user # "NULL" /\ s = "already_logged_in" /\ user' = user
               \/ user = "NULL" /\ s = "logged_in" /\ user' = "identified"
               \/ user = "NULL" /\ s = "login_failed" /\ user' = "allocated"
         \/ /\ tcmd[t] = "logout" /\ user' = user
            /\ s = IF user = "NULL" THEN "not_logged" ELSE "logged_out"
         \/ /\ tcmd[t] \notin {"login", "logout"} /\ user' = user
            /\ s \notin {"login_failed", "logged_out"}
  PROVE  AgreeInv'
  <1> USE Sorts
  <1>1. /\ tpc' = [tpc EXCEPT ![t] = "open"] /\ reply' = [reply EXCEPT ![t] = s]
        /\ UNCHANGED <<cpc, logged, misread, cmd, nsent, req, wpc, command, current_thread, lock, tcmd>>
    BY DEF Answer, Step, worker, client
  <1>2. /\ t = nsent /\ nsent <= current_thread /\ tcmd[t] = cmd
        /\ ClientAlive => cpc \in {"waiting", "closing"}
        /\ Loop => req = << >> /\ ~InHand
    BY Busy
  <1>3. lock = t
    BY DEF FrameInv, LockInv, Critical
  <1>4. t # 0 /\ tpc'[t] = "open" /\ reply'[t] = s
    BY <1>1
  <1>5. Settled = user /\ (logged = "yes" <=> user # "NULL" \/ misread = "yes")
    <2>1. Settled = user
      BY <1>3 DEF Settled
    <2>2. Agree
      BY DEF AgreeInv
    <2> QED BY <2>1, <2>2 DEF Agree
  <1>6. Settled' = IF s \in {"login_failed", "logged_out"} THEN "NULL" ELSE user'
    BY <1>1, <1>3, <1>4 DEF Settled, UserAfter
  <1>7. ~(cpc' = "prompt")
    BY <1>1, <1>2 DEF ClientAlive
  <1>8. Loop' => req' = << >> /\ ~InHand'
    BY <1>1, <1>2 DEF Loop, InHand
  <1>9. \A u \in Slots : ~(tpc'[u] \in {"parse", "dispatch"} /\ tcmd'[u] # "garbage")
    <2> SUFFICES ASSUME NEW u \in Slots, tpc'[u] \in {"parse", "dispatch"}, tcmd'[u] # "garbage"
                 PROVE  FALSE
      OBVIOUS
    <2>1. u # t
      BY <1>4
    <2>2. tpc[u] \in {"parse", "dispatch"} /\ tcmd[u] # "garbage"
      BY <1>1, <2>1
    <2> QED BY <1>2, <2>1, <2>2, Busy
  <1>10. ASSUME cpc = "waiting", NEW after \in LoggedAfter(cmd, s)
         PROVE  after = "yes" <=> Settled' # "NULL" \/ MisreadAfter(cmd, s, after) = "yes"
    <2>1. (cmd = "login" => logged = "no") /\ (cmd = "logout" => logged = "yes")
      BY <1>10 DEF SyncInv, CommandInv
    <2>2. CASE cmd = "login"
      BY <1>2, <1>5, <1>6, <1>10, <2>1, <2>2 DEF LoggedAfter, MisreadAfter
    <2>3. CASE cmd = "logout"
      BY <1>2, <1>5, <1>6, <1>10, <2>1, <2>3 DEF LoggedAfter, MisreadAfter
    <2>4. CASE cmd \notin {"login", "logout"}
      BY <1>2, <1>5, <1>6, <1>10, <2>4 DEF LoggedAfter, MisreadAfter
    <2> QED BY <2>2, <2>3, <2>4
  <1>11. cpc' = "waiting" => Tells(reply[nsent])'
    <2>1. reply'[nsent'] = s
      BY <1>1, <1>2, <1>4
    <2>2. /\ LoggedAfter(cmd, s)' = LoggedAfter(cmd, s)
          /\ \A after : MisreadAfter(cmd, s, after)' = MisreadAfter(cmd, s, after)
      BY <1>1 DEF LoggedAfter, MisreadAfter
    <2> QED BY <1>1, <1>10, <2>1, <2>2 DEF Tells
  <1> QED BY <1>7, <1>8, <1>9, <1>11 DEF AgreeInv

\* A responder's step keeps the agreement: the reply to a login or a logout
\* goes out before user is settled, but the next request is handled after.
LEMMA ResponderAgree ==
  ASSUME FrameInv, SyncInv, AgreeInv, NEW t \in Slots, Responder(t)
  PROVE  AgreeInv'
  <1> USE Sorts
  <1>1. tcmd[t] # "get" /\ (tcmd[t] = "garbage" => tpc[t] # "dispatch")
    BY DEF SyncInv, KindInv
  <1>2. CASE parse_encoded_fails(t) \/ process_post_cmd_faults(t)
    BY <1>2, WorkerAgree DEF parse_encoded_fails, process_post_cmd_faults
  <1>3. CASE pthread_mutex_lock(t)
    <2>1. /\ lock = 0 /\ lock' = t /\ tpc[t] = "parse" /\ tcmd[t] # "garbage"
          /\ tpc' = [tpc EXCEPT ![t] = "dispatch"]
          /\ UNCHANGED <<client, req, wpc, command, current_thread, user, tcmd, reply>>
      BY <1>3 DEF pthread_mutex_lock, Step, worker
    <2>2. /\ tpc'[t] = "dispatch"
          /\ \A u \in Slots : u # t => tpc'[u] = tpc[u]
      BY <2>1
    <2>3. Settled' = Settled
      BY <2>1, <2>2 DEF Settled
    <2>4. Loop' = Loop /\ InHand' = InHand
      BY <2>1 DEF Loop, InHand
    <2>5. \A u \in Slots : tpc'[u] \in {"parse", "dispatch"} /\ tcmd'[u] # "garbage" => Agree
      <3>1. Agree
        BY <2>1 DEF AgreeInv
      <3> QED BY <3>1
    <2>6. cpc = "waiting" /\ nsent <= current_thread /\ tpc'[nsent] \in Handled =>
            tpc[nsent] \in Handled
      <3>1. t = nsent
        BY <2>1, Busy
      <3> QED BY <2>2, <3>1 DEF Handled
    <2> QED BY <2>1, <2>3, <2>4, <2>5, <2>6, AgreeKept
  <1>4. CASE process_login_cmd(t)
    <2>1. PICK s : /\ Answer(t, s) /\ tcmd[t] = "login" /\ tpc[t] = "dispatch"
                   /\ \/ user # "NULL" /\ s = "already_logged_in" /\ user' = user
                      \/ user = "NULL" /\ s = "logged_in" /\ user' = "identified"
                      \/ user = "NULL" /\ s = "login_failed" /\ user' = "allocated"
      BY <1>4 DEF process_login_cmd, Handles
    <2> QED BY <2>1, AnswerAgree
  <1>5. CASE process_logout_cmd(t)
    <2>1. PICK s : /\ Answer(t, s) /\ tcmd[t] = "logout" /\ tpc[t] = "dispatch" /\ user' = user
                   /\ s = IF user = "NULL" THEN "not_logged" ELSE "logged_out"
      BY <1>5 DEF process_logout_cmd, Handles, AnswerIfLogged
    <2> QED BY <2>1, AnswerAgree
  <1>6. CASE process_echo(t) \/ process_post_cmd(t) \/ process_new_user_cmd(t)
             \/ process_change_pass_cmd(t)
    <2>1. PICK s : /\ Answer(t, s) /\ tcmd[t] \in {"echo", "post", "new_user", "change_pass"}
                   /\ tpc[t] = "dispatch" /\ user' = user
                   /\ s \notin {"login_failed", "logged_out"}
      <3>1. ASSUME NEW texts, AnswerIfLogged(t, texts), texts \cap {"login_failed", "logged_out"} = {}
            PROVE  \E s : Answer(t, s) /\ user' = user /\ s \notin {"login_failed", "logged_out"}
        <4>1. PICK s \in (IF user = "NULL" THEN {"not_logged"} ELSE texts) : Answer(t, s) /\ user' = user
          BY <3>1 DEF AnswerIfLogged
        <4>2. s \notin {"login_failed", "logged_out"}
          BY <3>1, <4>1
        <4> QED BY <4>1, <4>2
      <3>2. CASE process_echo(t)
        <4>1. /\ Answer(t, "value") /\ tcmd[t] = "echo" /\ tpc[t] = "dispatch" /\ user' = user
              /\ "value" \notin {"login_failed", "logged_out"}
          BY <3>2 DEF process_echo, Handles
        <4> QED BY <4>1
      <3>3. CASE process_post_cmd(t)
        BY <3>1, <3>3 DEF process_post_cmd, Handles
      <3>4. CASE process_new_user_cmd(t)
        BY <3>1, <3>4 DEF process_new_user_cmd, Handles
      <3>5. CASE process_change_pass_cmd(t)
        BY <3>1, <3>5 DEF process_change_pass_cmd, Handles
      <3> QED BY <1>6, <3>2, <3>3, <3>4, <3>5
    <2> QED BY <2>1, AnswerAgree
  <1>7. CASE process_get_cmd(t) \/ process_get_cmd_faults(t)
    BY <1>1, <1>7 DEF process_get_cmd, process_get_cmd_faults, Handles
  <1>8. CASE process_close(t)
    <2>1. /\ tpc[t] = "dispatch" /\ tcmd[t] = "close" /\ tpc' = [tpc EXCEPT ![t] = "unlock"]
          /\ UNCHANGED <<client, req, wpc, command, current_thread, lock, user, tcmd, reply>>
      BY <1>8 DEF process_close, Handles, Step
    <2>2. t = nsent /\ cmd = "close"
      BY <2>1, Busy
    <2>3. cpc # "waiting"
      BY <2>2 DEF SyncInv, CommandInv
    <2>4. Loop' = Loop /\ InHand' = InHand
      BY <2>1 DEF Loop, InHand
    <2>5. lock = t
      BY <2>1 DEF FrameInv, LockInv, Critical
    <2>6. Settled' = Settled
      BY <2>1, <2>5 DEF Settled
    <2>7. \A u \in Slots : tpc'[u] \in {"parse", "dispatch"} /\ tcmd'[u] # "garbage" => Agree
      <3>1. Agree
        BY <2>1 DEF AgreeInv
      <3> QED BY <3>1
    <2> QED BY <2>1, <2>3, <2>4, <2>6, <2>7, AgreeKept
  <1>9. CASE comm_send_data(t)
    <2>1. PICK to \in {"body", "close", "sent"} :
            /\ tpc[t] \in {"open", "body", "close"} /\ tpc' = [tpc EXCEPT ![t] = to]
            /\ UNCHANGED <<client, req, worker, lock, user, tcmd, reply>>
      BY <1>9 DEF comm_send_data, Step
    <2>2. lock = t /\ tpc'[t] = to
      BY <2>1 DEF FrameInv, LockInv, Critical
    <2>3. Settled' = Settled
      BY <2>1, <2>2 DEF Settled, UserAfter
    <2> QED BY <2>1, <2>3, ResponderKept DEF Handled
  <1>10. CASE FinishHandler(t)
    <2>1. /\ tpc[t] = "sent" /\ tpc' = [tpc EXCEPT ![t] = "unlock"] /\ user' = UserAfter(t)
          /\ UNCHANGED <<client, req, worker, lock, tcmd, reply>>
      BY <1>10 DEF FinishHandler, Step
    <2>2. lock = t /\ lock # 0 /\ tpc'[t] = "unlock"
      BY <2>1 DEF FrameInv, LockInv, Critical
    <2>3. Settled' = Settled
      BY <2>1, <2>2 DEF Settled
    <2> QED BY <2>1, <2>3, ResponderKept DEF Handled
  <1>11. CASE pthread_mutex_unlock(t)
    <2>1. /\ tpc[t] = "unlock" /\ tpc' = [tpc EXCEPT ![t] = "done"] /\ lock' = 0
          /\ UNCHANGED <<client, req, worker, user, tcmd, reply>>
      BY <1>11 DEF pthread_mutex_unlock, Step
    <2>2. lock = t
      BY <2>1 DEF FrameInv, LockInv, Critical
    <2>3. Settled' = Settled
      BY <2>1, <2>2 DEF Settled
    <2> QED BY <2>1, <2>3, ResponderKept DEF Handled
  <1> QED BY <1>2, <1>3, <1>4, <1>5, <1>6, <1>7, <1>8, <1>9, <1>10, <1>11 DEF Responder

\* Whenever a responder comes to handle a request of a client without gets, the
\* client believes it is logged in exactly if the worker has a user or the
\* client misread the reply to its login (responder.c 127-128 and 148-149,
\* serialization.c 193-194).
THEOREM SyncSessionAgrees ==
  ASSUME "get" \notin Commands
  PROVE  Spec => []SessionAgrees
  <1> DEFINE Inv == FrameInv /\ (SyncInv \/ Stuck) /\ FramesWhole /\ OwnAnswer
  <1>1. Init => AgreeInv
    BY SessionAssumption, CapacityNat DEF Init, AgreeInv, Agree, Settled, Loop, InHand, Slots
  <1>2. ASSUME FrameInv, SyncInv, SyncInv', AgreeInv, ClientStep PROVE AgreeInv'
    BY <1>2, ClientAgree DEF NoGets
  <1>3. ASSUME FrameInv, SyncInv, AgreeInv, WorkerMain \/ Sigpipe \/ \E t \in Slots : Responder(t)
        PROVE  AgreeInv'
    BY <1>3, WorkerAgree, ResponderAgree DEF Sigpipe
  <1>4. ASSUME AgreeInv, UNCHANGED vars PROVE AgreeInv'
    <2>1. UNCHANGED <<cpc, logged, misread, cmd, nsent, req, wpc, command, current_thread, lock, user,
                      tpc, tcmd, reply>>
      BY <1>4 DEF vars, client, worker, threads
    <2>2. Settled' = Settled /\ Loop' = Loop /\ InHand' = InHand
      BY <2>1 DEF Settled, UserAfter, Loop, InHand
    <2>3. Tells(reply[nsent])' <=> Tells(reply[nsent])
      BY <2>1, <2>2 DEF Tells, LoggedAfter, MisreadAfter
    <2> QED BY <1>4, <2>1, <2>2, <2>3 DEF AgreeInv, Agree
  <1>5. ASSUME AgreeInv, Stuck, ClientDies PROVE AgreeInv'
    <2>1. cpc' = "exited" /\ UNCHANGED <<logged, misread, req, wpc, command, tpc, tcmd, lock, user, reply>>
      BY <1>5, StuckStays DEF worker, threads
    <2>2. Agree' = Agree /\ Loop' = Loop /\ InHand' = InHand
      BY <2>1 DEF Agree, Settled, UserAfter, Loop, InHand
    <2> QED BY <1>5, <2>1, <2>2 DEF AgreeInv
  <1>6. Inv /\ AgreeInv /\ [Next]_vars => AgreeInv'
    <2> SUFFICES ASSUME FrameInv, SyncInv \/ Stuck, OwnAnswer, AgreeInv, [Next]_vars
                 PROVE  AgreeInv'
      OBVIOUS
    <2>1. CASE Stuck
      BY <1>4, <1>5, <2>1, StuckSteps
    <2>2. CASE SyncInv /\ ClientStep
      BY <1>2, <2>2, ClientSync DEF NoGets
    <2>3. CASE SyncInv /\ ~ClientStep
      BY <1>3, <1>4, <2>3 DEF Next, ClientStep
    <2> QED BY <2>1, <2>2, <2>3
  <1>7. Inv /\ AgreeInv => SessionAgrees
    <2> SUFFICES ASSUME FrameInv, SyncInv \/ Stuck, AgreeInv, NEW t \in Slots, tpc[t] = "dispatch"
                 PROVE  logged = "yes" <=> user # "NULL" \/ misread = "yes"
      BY DEF SessionAgrees
    <2>1. lock = t
      BY DEF FrameInv, LockInv, Critical
    <2>2. tcmd[t] # "garbage"
      BY DEF SyncInv, KindInv, Stuck
    <2>3. Agree /\ Settled = user
      BY <2>1, <2>2 DEF AgreeInv, Settled
    <2> QED BY <2>3 DEF Agree
  <1>8. Spec => []Inv
    BY SyncInvariant DEF NoGets
  <1> HIDE DEF Inv
  <1> QED BY <1>1, <1>6, <1>7, <1>8, PTL DEF Spec
=============================================================================
