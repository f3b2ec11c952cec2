------------------------------ MODULE Monitor ------------------------------
(***************************************************************************)
(* The status slot in shared memory: the threads of the server post into it *)
(* under a named semaphore (server/monitor_helper.c), the monitor copies it *)
(* field by field, without the semaphore, into its table (monitor/main.c). *)
(*                                                                         *)
(* A process may end at any moment, a worker also by its own exit(0) while *)
(* a responder is posting; a semaphore it holds stays taken.  The semaphore *)
(* lives on under its name when the server is started again, unless a      *)
(* handler of SIGINT has removed the name.                                 *)
(***************************************************************************)
EXTENDS Integers

CONSTANTS
  Threads,      \* threads that post: the master's, the workers', responders
  Process,      \* the process of a thread
  Id,           \* the pair <<worker, thread>> a thread posts as its own
  Statuses,     \* what is posted: STATUS_OK ..., STATUS_DOWN is -1
  MaxPosts,     \* bound: calls of post_status
  MaxStarts     \* bound: starts of the server and of the monitor

None == -1

ASSUME MonitorAssumption ==
  /\ {"free", "orphan"} \cap Threads = {}
  /\ Id \in [Threads -> Nat \X Nat]
  /\ \A t \in Threads, u \in Threads : Id[t] = Id[u] => t = u
  /\ DOMAIN Process = Threads
  /\ Statuses \subseteq Int
  /\ MaxPosts \in Nat /\ MaxStarts \in Nat

VARIABLES
  sem,      \* free, the thread that holds it, or orphan: its holder has ended
  name,     \* what the name stands for: the server's semaphore (linked),
            \* none (unlinked) or one that the monitor created (fresh)
  slot,     \* shared_msg: worker, thread, status
  pc,       \* per thread: where in post_status
  posting,  \* per thread: the status it posts
  posts,    \* calls of post_status so far
  starts,   \* starts of the server and of the monitor so far
  mpc,      \* the monitor
  current,  \* the monitor's copy: current_worker, current_thread, current_status
  table,    \* the statuses in workers[], by worker and thread
  \* history
  last,     \* what the last complete post or reset has left in the slot
  blurred,  \* "yes": the slot was written by two at once or left half-written
  clean     \* "yes": no post has overlapped the monitor's present copy

server == <<pc, posting, posts>>
display == <<mpc, current, table>>
vars == <<sem, name, slot, server, starts, display, last, blurred, clean>>

Fields == {"worker", "thread", "status"}
Empty == [f \in Fields |-> None]
Message(t, s) == [worker |-> Id[t][1], thread |-> Id[t][2], status |-> s]

Init ==
  /\ sem = "free" /\ name = "linked"
  /\ slot = Empty
  /\ pc = [t \in Threads |-> "idle"]
  /\ posting = [t \in Threads |-> None]
  /\ posts = 0
  /\ starts = 0
  /\ mpc = "off" /\ current = Empty /\ table = << >>
  /\ last = Empty /\ blurred = "no" /\ clean = "no"

-----------------------------------------------------------------------------
(* post_status                                                             *)

Goto(t, state) == pc' = [pc EXCEPT ![t] = state]

Call(t) ==
  /\ pc[t] = "idle" /\ posts < MaxPosts
  /\ posts' = posts + 1
  /\ \E s \in Statuses : posting' = [posting EXCEPT ![t] = s]
  /\ Goto(t, "wait")
  /\ UNCHANGED <<sem, name, slot, starts, display, last, blurred, clean>>

\* Mutant: nobody waits for the semaphore.
sem_no_wait(t) ==
  /\ pc[t] = "wait"
  /\ sem' = t /\ blurred' = "no" /\ clean' = "no"
  /\ Goto(t, "worker")
  /\ UNCHANGED <<name, slot, posting, posts, starts, display, last>>

sem_wait(t) ==
  /\ pc[t] = "wait" /\ sem = "free"
  /\ sem' = t /\ blurred' = "no" /\ clean' = "no"
  /\ Goto(t, "worker")
  /\ UNCHANGED <<name, slot, posting, posts, starts, display, last>>

Resetting == mpc \in {"reset_thread", "reset_status"}

\* One assignment to a field of shared_msg.
Assign(t) ==
  /\ pc[t] \in Fields
  /\ slot' = [slot EXCEPT ![pc[t]] = Message(t, posting[t])[pc[t]]]
  /\ Goto(t, CASE pc[t] = "worker" -> "thread" [] pc[t] = "thread" -> "status"
               [] OTHER -> "post")
  /\ blurred' = IF Resetting THEN "yes" ELSE blurred
  /\ UNCHANGED <<sem, name, posting, posts, starts, display, last, clean>>

\* Mutant: the semaphore is taken and not given back.
sem_no_post(t) ==
  /\ pc[t] = "post"
  /\ last' = Message(t, posting[t])
  /\ Goto(t, "idle")
  /\ posting' = [posting EXCEPT ![t] = None]
  /\ UNCHANGED <<sem, name, slot, posts, starts, display, blurred, clean>>

sem_post(t) ==
  /\ pc[t] = "post"
  /\ sem' = "free"
  /\ last' = Message(t, posting[t])
  /\ Goto(t, "idle")
  /\ posting' = [posting EXCEPT ![t] = None]
  /\ UNCHANGED <<name, slot, posts, starts, display, blurred, clean>>

post_status(t) == sem_wait(t) \/ Assign(t) \/ sem_post(t)

-----------------------------------------------------------------------------
(* The end and the start of the server's processes.                        *)

Dead(t) == pc[t] = "dead"
Holds(p) == \E t \in Threads : Process[t] = p /\ sem = t

\* exit, a fault or SIGKILL: the semaphore is not given back.
ProcessEnds(p) ==
  /\ \E t \in Threads : Process[t] = p /\ ~Dead(t)
  /\ pc' = [t \in Threads |-> IF Process[t] = p THEN "dead" ELSE pc[t]]
  /\ IF Holds(p)
     THEN sem' = "orphan" /\ blurred' = "yes"
     ELSE UNCHANGED <<sem, blurred>>
  /\ UNCHANGED <<name, slot, posting, posts, starts, display, last, clean>>

\* Ctrl-C: all processes of the server run their handler, which removes the
\* name of the semaphore, and exit.
Interrupt ==
  /\ \E t \in Threads : ~Dead(t)
  /\ pc' = [t \in Threads |-> "dead"]
  /\ sem' = IF sem \in Threads THEN "orphan" ELSE sem
  /\ blurred' = IF sem \in Threads THEN "yes" ELSE blurred
  /\ name' = "unlinked"
  /\ UNCHANGED <<slot, posting, posts, starts, display, last, clean>>

\* The server is started again: it finds the semaphore under its name as it
\* was left, or takes a new one with value 1.
init_monitor ==
  /\ \A t \in Threads : Dead(t)
  /\ starts < MaxStarts
  /\ starts' = starts + 1
  /\ sem' = IF name = "linked" THEN sem ELSE "free"
  /\ name' = "linked"
  /\ pc' = [t \in Threads |-> "idle"]
  /\ UNCHANGED <<slot, posting, posts, display, last, blurred, clean>>

-----------------------------------------------------------------------------
(* The monitor.                                                            *)

MonitorStarts ==
  /\ mpc = "off" /\ starts < MaxStarts
  /\ starts' = starts + 1
  /\ mpc' = "reset_worker"
  /\ name' = IF name = "unlinked" THEN "fresh" ELSE name
  /\ UNCHANGED <<sem, slot, server, current, table, last, blurred, clean>>

\* The slot is reset field by field, whoever holds the semaphore.
Reset(f, state, after) ==
  /\ mpc = state
  /\ slot' = [slot EXCEPT ![f] = None]
  /\ blurred' = IF sem # "free" THEN "yes" ELSE blurred
  /\ last' = IF f = "status" THEN Empty ELSE last
  /\ mpc' = after
  /\ UNCHANGED <<sem, name, server, starts, current, table, clean>>

\* if (shared_msg->worker == -1) continue
poll ==
  /\ mpc = "poll" /\ slot["worker"] # None
  /\ clean' = IF sem = "free" /\ blurred = "no" THEN "yes" ELSE "no"
  /\ mpc' = "copy_worker"
  /\ UNCHANGED <<sem, name, slot, server, starts, current, table, last, blurred>>

\* Mutant: the thread is left as it was.
CopyNoThread(f, state, after) ==
  /\ mpc = state
  /\ current' = IF f = "thread" THEN current ELSE [current EXCEPT ![f] = slot[f]]
  /\ mpc' = after
  /\ UNCHANGED <<sem, name, slot, server, starts, table, last, blurred, clean>>

\* current_... = shared_msg->...
Copy(f, state, after) ==
  /\ mpc = state
  /\ current' = [current EXCEPT ![f] = slot[f]]
  /\ mpc' = after
  /\ UNCHANGED <<sem, name, slot, server, starts, table, last, blurred, clean>>

\* Mutants: a status is entered for a new thread only; threads are looked up
\* without their worker.
EnteredOnce(tab, k, s) ==
  [j \in DOMAIN tab \cup {k} |-> IF j \in DOMAIN tab THEN tab[j] ELSE s]
EnteredByThread(tab, k, s) ==
  [j \in DOMAIN tab \cup {<<k[2]>>} |-> IF j = <<k[2]>> THEN s ELSE tab[j]]

\* The entry of that thread is changed, or added if there is none.
Entered(tab, k, s) == [j \in DOMAIN tab \cup {k} |-> IF j = k THEN s ELSE tab[j]]

\* The loops over workers and threads, then the screen.  The copy is not used
\* again.
Update ==
  /\ mpc = "update"
  /\ table' = Entered(table, <<current["worker"], current["thread"]>>, current["status"])
  /\ mpc' = "poll"
  /\ current' = Empty /\ clean' = "no"
  /\ UNCHANGED <<sem, name, slot, server, starts, last, blurred>>

\* Ctrl-C in the monitor removes the name of the semaphore too; the server
\* keeps using the one it has open.
MonitorInterrupted ==
  /\ mpc # "off"
  /\ mpc' = "off"
  /\ name' = "unlinked"
  /\ blurred' = IF Resetting THEN "yes" ELSE blurred
  /\ current' = Empty /\ table' = << >> /\ clean' = "no"
  /\ UNCHANGED <<sem, slot, server, starts, last>>

MonitorLoop ==
  \/ Reset("worker", "reset_worker", "reset_thread")
  \/ Reset("thread", "reset_thread", "reset_status")
  \/ Reset("status", "reset_status", "poll")
  \/ poll
  \/ Copy("worker", "copy_worker", "copy_thread")
  \/ Copy("thread", "copy_thread", "copy_status")
  \/ Copy("status", "copy_status", "update")
  \/ Update

-----------------------------------------------------------------------------
Next ==
  \/ \E t \in Threads : Call(t) \/ post_status(t)
  \/ \E t \in Threads : ProcessEnds(Process[t])
  \/ Interrupt \/ init_monitor
  \/ MonitorStarts \/ MonitorLoop \/ MonitorInterrupted

Spec == Init /\ [][Next]_vars

\* Threads inside post_status and the monitor are scheduled.
FairSpec ==
  Spec /\ (\A t \in Threads : WF_vars(post_status(t))) /\ WF_vars(MonitorLoop)

-----------------------------------------------------------------------------
(* Properties.                                                             *)

\* Types.
TypeOK ==
  /\ sem \in Threads \cup {"free", "orphan"}
  /\ name \in {"linked", "unlinked", "fresh"}
  /\ slot \in [Fields -> Int] /\ current \in [Fields -> Int] /\ last \in [Fields -> Int]
  /\ pc \in [Threads -> Fields \cup {"idle", "wait", "post", "dead"}]
  /\ posting \in [Threads -> Statuses \cup {None}]
  /\ posts \in 0 .. MaxPosts /\ starts \in 0 .. MaxStarts
  /\ mpc \in {"off", "reset_worker", "reset_thread", "reset_status", "poll",
              "copy_worker", "copy_thread", "copy_status", "update"}
  /\ \A k \in DOMAIN table : k \in Int \X Int /\ table[k] \in Int

\* When the semaphore is free, the slot holds one message and nothing of
\* another: the last post, or the monitor's reset.  It fails only where the
\* monitor resets the slot in the middle of a post or a holder has ended
\* (monitor_helper.c 58-62, monitor/main.c 117-119).
SlotWhole ==
  sem = "free" /\ blurred = "no" /\ ~Resetting => slot = last

\* What the monitor enters in its table was posted like that, by one thread,
\* unless a post overlapped its copy: it does not use the semaphore
\* (monitor/main.c 128-130).
CopyWhole == mpc = "update" /\ clean = "yes" => current = last

\* A call of post_status returns, unless a thread has ended with the semaphore
\* (monitor_helper.c 58, main.c 264).
PostReturns ==
  \A t \in Threads : pc[t] = "wait" ~> pc[t] # "wait" \/ sem = "orphan"

Quiet == /\ mpc # "off" /\ blurred = "no" /\ sem = "free" /\ last # Empty
         /\ \A t \in Threads : pc[t] \in {"idle", "dead"}

Shown ==
  LET k == <<last["worker"], last["thread"]>>
  IN  k \in DOMAIN table /\ table[k] = last["status"]

\* The display catches up: when nobody posts any more, the table comes to show
\* the last message, whatever mixture of fields was copied before.
CatchesUp == []<>(Quiet => Shown)
=============================================================================
