--------------------------- MODULE MonitorProofs ---------------------------
(***************************************************************************)
(* Theorems about Monitor, for every set of threads and processes and      *)
(* every bound on posts and starts.                                        *)
(***************************************************************************)
EXTENDS Monitor, TLAPS

Inside == Fields \cup {"post"}

\* Mutual exclusion: a thread between sem_wait and sem_post holds the
\* semaphore, and only such a thread holds it.  A semaphore whose holder has
\* ended is never used again.
HolderInv ==
  /\ \A t \in Threads : pc[t] \in Inside <=> sem = t
  /\ sem = "orphan" => blurred = "yes"

\* What the holder has written so far is in the slot, and what the monitor has
\* reset so far is reset.
WrittenInv ==
  /\ \A t \in Threads : sem = t /\ blurred = "no" =>
       /\ Resetting => pc[t] = "worker"
       /\ pc[t] \in {"thread", "status", "post"} =>
            slot["worker"] = Message(t, posting[t])["worker"]
       /\ pc[t] \in {"status", "post"} =>
            slot["thread"] = Message(t, posting[t])["thread"]
       /\ pc[t] = "post" => slot["status"] = Message(t, posting[t])["status"]
  /\ sem = "free" /\ blurred = "no" =>
       /\ Resetting => slot["worker"] = None
       /\ mpc = "reset_status" => slot["thread"] = None
       /\ ~Resetting => slot = last

\* While nothing disturbs the copy, the fields copied so far are those of the
\* slot.
CopyInv ==
  clean = "yes" =>
    /\ sem = "free" /\ blurred = "no"
    /\ mpc \in {"copy_worker", "copy_thread", "copy_status", "update"}
    /\ mpc # "copy_worker" => current["worker"] = slot["worker"]
    /\ mpc \in {"copy_status", "update"} => current["thread"] = slot["thread"]
    /\ mpc = "update" => current["status"] = slot["status"]

Inv == TypeOK /\ HolderInv /\ WrittenInv /\ CopyInv

-----------------------------------------------------------------------------
\* What post_status assigns are the three ints of shared_data_t.
LEMMA MessageFields ==
  ASSUME NEW t \in Threads, NEW s \in Int
  PROVE  /\ Message(t, s) \in [Fields -> Int]
         /\ Message(t, s)["worker"] = Id[t][1]
         /\ Message(t, s)["thread"] = Id[t][2]
         /\ Message(t, s)["status"] = s
  BY MonitorAssumption DEF Message, Fields

\* Two values of the slot with equal fields are equal.
LEMMA SameFields ==
  ASSUME NEW m \in [Fields -> Int], NEW n \in [Fields -> Int],
         m["worker"] = n["worker"], m["thread"] = n["thread"], m["status"] = n["status"]
  PROVE  m = n
  BY DEF Fields

\* The reset value of the slot.
LEMMA EmptyFields == Empty \in [Fields -> Int] /\ \A f \in Fields : Empty[f] = None
  BY DEF Empty, Fields, None

\* An update of the monitor's table keeps its keys pairs and its entries ints.
LEMMA EnteredTypes ==
  ASSUME NEW tab, NEW w \in Int, NEW th \in Int, NEW s \in Int,
         \A k \in DOMAIN tab : k \in Int \X Int /\ tab[k] \in Int
  PROVE  LET new == Entered(tab, <<w, th>>, s)
         IN  \A k \in DOMAIN new : k \in Int \X Int /\ new[k] \in Int
  BY DEF Entered

\* The state in which server and monitor are first started satisfies the
\* invariant.
LEMMA InitInv == Init => Inv
  <1> SUFFICES ASSUME Init PROVE Inv
    OBVIOUS
  <1>1. TypeOK
    BY MonitorAssumption, EmptyFields DEF Init, TypeOK, Fields, None
  <1>2. HolderInv
    BY MonitorAssumption DEF Init, HolderInv, Inside, Fields
  <1>3. WrittenInv
    BY MonitorAssumption DEF Init, WrittenInv, Resetting
  <1>4. CopyInv
    BY DEF Init, CopyInv
  <1> QED BY <1>1, <1>2, <1>3, <1>4 DEF Inv

\* What a thread posts is an int.
LEMMA PostingInt == ASSUME Inv, NEW t \in Threads PROVE posting[t] \in Int
  <1>1. None \in Int /\ Statuses \subseteq Int
    BY MonitorAssumption DEF None
  <1>2. posting[t] \in Statuses \cup {None}
    BY DEF Inv, TypeOK
  <1> QED BY <1>1, <1>2

\* A step of a thread, before or inside post_status, preserves the invariant
\* (monitor_helper.c 55-63).
LEMMA ThreadStep ==
  ASSUME Inv, NEW t \in Threads, Call(t) \/ post_status(t)
  PROVE  Inv'
  <1> USE MonitorAssumption
  <1> USE DEF Inv, server, display, Goto
  <1>1. CASE Call(t)
    <2>1. TypeOK'
      BY <1>1 DEF Call, TypeOK
    <2>2. HolderInv'
      BY <1>1 DEF Call, TypeOK, HolderInv, Inside, Fields
    <2>3. WrittenInv'
      BY <1>1 DEF Call, TypeOK, HolderInv, WrittenInv, Inside, Fields, Resetting, Message
    <2>4. CopyInv'
      BY <1>1 DEF Call, CopyInv
    <2> QED BY <2>1, <2>2, <2>3, <2>4
  <1>2. CASE sem_wait(t)
    <2>1. TypeOK'
      BY <1>2 DEF sem_wait, TypeOK, Fields
    <2>2. HolderInv'
      BY <1>2 DEF sem_wait, TypeOK, HolderInv, Inside, Fields
    <2>3. WrittenInv'
      BY <1>2 DEF sem_wait, TypeOK, WrittenInv
    <2>4. CopyInv'
      BY <1>2 DEF sem_wait, CopyInv
    <2> QED BY <2>1, <2>2, <2>3, <2>4
  <1>3. CASE Assign(t)
    <2> DEFINE f == pc[t]
    <2>1. f \in Fields /\ sem = t /\ posting[t] \in Int
      BY <1>3, PostingInt DEF Assign, HolderInv, Inside
    <2>2. Message(t, posting[t])[f] \in Int
      BY <2>1, MessageFields
    <2>3. /\ slot' = [slot EXCEPT ![f] = Message(t, posting[t])[f]]
          /\ slot \in [Fields -> Int]
      BY <1>3 DEF Assign, TypeOK
    <2>4. slot' \in [Fields -> Int]
      BY <2>1, <2>2, <2>3
    <2>5. TypeOK'
      BY <1>3, <2>4 DEF Assign, TypeOK, Fields
    <2>6. HolderInv'
      BY <1>3, <2>1 DEF Assign, TypeOK, HolderInv, Inside, Fields
    <2>7. WrittenInv'
      BY <1>3, <2>1, <2>3 DEF Assign, TypeOK, WrittenInv, Fields, Resetting, Message
    <2>8. CopyInv'
      BY <1>3, <2>1 DEF Assign, CopyInv
    <2> QED BY <2>5, <2>6, <2>7, <2>8
  <1>4. CASE sem_post(t)
    <2>1. sem = t /\ posting[t] \in Int
      BY <1>4, PostingInt DEF sem_post, HolderInv, Inside
    <2>2. TypeOK'
      BY <1>4, <2>1, MessageFields DEF sem_post, TypeOK, None
    <2>3. HolderInv'
      BY <1>4, <2>1 DEF sem_post, TypeOK, HolderInv, Inside, Fields
    <2>4. blurred = "no" => slot = last'
      BY <1>4, <2>1, MessageFields, SameFields DEF sem_post, WrittenInv, TypeOK
    <2>5. blurred = "no" => ~Resetting
      BY <1>4, <2>1 DEF sem_post, WrittenInv
    <2>6. WrittenInv'
      BY <1>4, <2>1, <2>4, <2>5 DEF sem_post, TypeOK, WrittenInv, Resetting
    <2>7. CopyInv'
      BY <1>4, <2>1 DEF sem_post, CopyInv
    <2> QED BY <2>2, <2>3, <2>6, <2>7
  <1> QED BY <1>1, <1>2, <1>3, <1>4 DEF post_status

\* The end of a process, Ctrl-C and a new start of the server preserve the
\* invariant: a semaphore its holder leaves behind counts as orphaned
\* (monitor_helper.c 20-52).
LEMMA ServerStep ==
  ASSUME Inv,
         \/ \E t \in Threads : ProcessEnds(Process[t])
         \/ Interrupt
         \/ init_monitor
  PROVE  Inv'
  <1> USE MonitorAssumption
  <1> USE DEF Inv, server, display
  <1>1. ASSUME NEW u \in Threads, ProcessEnds(Process[u])
        PROVE  Inv'
    <2>1. TypeOK'
      BY <1>1 DEF ProcessEnds, Holds, TypeOK
    <2>2. HolderInv'
      BY <1>1 DEF ProcessEnds, Holds, TypeOK, HolderInv, Inside, Fields
    <2>3. WrittenInv'
      BY <1>1 DEF ProcessEnds, Holds, TypeOK, WrittenInv, Resetting, Message
    <2>4. CopyInv'
      BY <1>1 DEF ProcessEnds, Holds, CopyInv
    <2> QED BY <2>1, <2>2, <2>3, <2>4
  <1>2. CASE Interrupt
    <2>1. TypeOK'
      BY <1>2 DEF Interrupt, TypeOK
    <2>2. HolderInv'
      BY <1>2 DEF Interrupt, TypeOK, HolderInv, Inside, Fields
    <2>3. WrittenInv'
      BY <1>2 DEF Interrupt, TypeOK, WrittenInv, Resetting
    <2>4. CopyInv'
      BY <1>2 DEF Interrupt, CopyInv
    <2> QED BY <2>1, <2>2, <2>3, <2>4
  <1>3. CASE init_monitor
    <2>1. sem \notin Threads
      BY <1>3 DEF init_monitor, Dead, HolderInv, Inside, Fields
    <2>2. sem = "free" \/ blurred = "yes"
      BY <2>1 DEF TypeOK, HolderInv
    <2>3. TypeOK'
      BY <1>3 DEF init_monitor, TypeOK
    <2>4. HolderInv'
      BY <1>3, <2>1 DEF init_monitor, TypeOK, HolderInv, Inside, Fields
    <2>5. WrittenInv'
      BY <1>3, <2>1, <2>2 DEF init_monitor, WrittenInv, Resetting
    <2>6. CopyInv'
      BY <1>3 DEF init_monitor, CopyInv
    <2> QED BY <2>3, <2>4, <2>5, <2>6
  <1> QED BY <1>1, <1>2, <1>3

\* A reset of one field of the slot preserves the invariant (monitor/main.c
\* 117-119).
LEMMA ResetStep ==
  ASSUME Inv,
         \/ Reset("worker", "reset_worker", "reset_thread")
         \/ Reset("thread", "reset_thread", "reset_status")
         \/ Reset("status", "reset_status", "poll")
  PROVE  Inv'
  <1> USE MonitorAssumption
  <1> USE DEF Inv, server, display
  <1>1. None \in Int
    BY DEF None
  <1>2. HolderInv'
    BY DEF Reset, HolderInv, Inside
  <1>3. CopyInv'
    BY DEF Reset, CopyInv
  <1>4. slot' \in [Fields -> Int] /\ last' \in [Fields -> Int]
    BY <1>1, EmptyFields DEF Reset, TypeOK, Fields
  <1>5. TypeOK'
    BY <1>4 DEF Reset, TypeOK
  <1>6. CASE Reset("worker", "reset_worker", "reset_thread")
    <2>1. WrittenInv'
      BY <1>6 DEF Reset, WrittenInv, Resetting, TypeOK, Fields
    <2> QED BY <1>2, <1>3, <1>5, <2>1
  <1>7. CASE Reset("thread", "reset_thread", "reset_status")
    <2>1. WrittenInv'
      BY <1>7 DEF Reset, WrittenInv, Resetting, TypeOK, Fields
    <2> QED BY <1>2, <1>3, <1>5, <2>1
  <1>8. CASE Reset("status", "reset_status", "poll")
    <2>1. sem = "free" /\ blurred = "no" => slot' = Empty
      <3>1. ASSUME sem = "free", blurred = "no"
            PROVE  \A f \in Fields : slot'[f] = None
        BY <1>8, <3>1 DEF Reset, WrittenInv, Resetting, TypeOK, Fields
      <3> QED BY <3>1, <1>4, EmptyFields, SameFields DEF Fields
    <2>2. WrittenInv'
      BY <1>8, <2>1 DEF Reset, WrittenInv, Resetting
    <2> QED BY <1>2, <1>3, <1>5, <2>2
  <1> QED BY <1>6, <1>7, <1>8

\* The other steps of the monitor preserve the invariant (monitor/main.c
\* 67-116, 121-195).
LEMMA MonitorStep ==
  ASSUME Inv,
         \/ MonitorStarts \/ poll \/ Update \/ MonitorInterrupted
         \/ Copy("worker", "copy_worker", "copy_thread")
         \/ Copy("thread", "copy_thread", "copy_status")
         \/ Copy("status", "copy_status", "update")
  PROVE  Inv'
  <1> USE MonitorAssumption
  <1> USE DEF Inv, server, display
  <1>1. CASE MonitorStarts
    <2>1. TypeOK'
      BY <1>1 DEF MonitorStarts, TypeOK
    <2>2. HolderInv' /\ CopyInv'
      BY <1>1 DEF MonitorStarts, HolderInv, CopyInv
    <2>3. WrittenInv'
      BY <1>1 DEF MonitorStarts, WrittenInv, Resetting
    <2> QED BY <2>1, <2>2, <2>3
  <1>2. CASE poll
    <2>1. TypeOK'
      BY <1>2 DEF poll, TypeOK
    <2>2. HolderInv' /\ CopyInv'
      BY <1>2 DEF poll, HolderInv, CopyInv
    <2>3. WrittenInv'
      BY <1>2 DEF poll, WrittenInv, Resetting
    <2> QED BY <2>1, <2>2, <2>3
  <1>3. CASE Update
    <2>1. /\ current["worker"] \in Int
          /\ current["thread"] \in Int
          /\ current["status"] \in Int
      BY DEF TypeOK, Fields
    <2>2. \A k \in DOMAIN table' : k \in Int \X Int /\ table'[k] \in Int
      BY <1>3, <2>1, EnteredTypes DEF Update, TypeOK
    <2>3. TypeOK'
      BY <1>3, <2>2, EmptyFields DEF Update, TypeOK
    <2>4. HolderInv' /\ CopyInv'
      BY <1>3 DEF Update, HolderInv, CopyInv
    <2>5. WrittenInv'
      BY <1>3 DEF Update, WrittenInv, Resetting
    <2> QED BY <2>3, <2>4, <2>5
  <1>4. CASE MonitorInterrupted
    <2>1. TypeOK'
      BY <1>4, EmptyFields DEF MonitorInterrupted, TypeOK
    <2>2. HolderInv' /\ CopyInv'
      BY <1>4 DEF MonitorInterrupted, HolderInv, CopyInv
    <2>3. WrittenInv'
      BY <1>4 DEF MonitorInterrupted, WrittenInv, Resetting
    <2> QED BY <2>1, <2>2, <2>3
  <1>5. ASSUME NEW f \in Fields, NEW a, NEW b, Copy(f, a, b),
               <<f, a, b>> \in {<<"worker", "copy_worker", "copy_thread">>,
                                <<"thread", "copy_thread", "copy_status">>,
                                <<"status", "copy_status", "update">>}
        PROVE  Inv'
    <2>1. current' \in [Fields -> Int]
      BY <1>5 DEF Copy, TypeOK
    <2>2. TypeOK'
      BY <1>5, <2>1 DEF Copy, TypeOK
    <2>3. HolderInv'
      BY <1>5 DEF Copy, HolderInv
    <2>4. WrittenInv'
      BY <1>5 DEF Copy, WrittenInv, Resetting
    <2>5. CopyInv'
      BY <1>5 DEF Copy, CopyInv, TypeOK
    <2> QED BY <2>2, <2>3, <2>4, <2>5
  <1> QED BY <1>1, <1>2, <1>3, <1>4, <1>5 DEF Fields

-----------------------------------------------------------------------------
\* Every step of server and monitor preserves the invariant.
LEMMA NextInv == Inv /\ [Next]_vars => Inv'
  <1> SUFFICES ASSUME Inv, [Next]_vars PROVE Inv'
    OBVIOUS
  <1>1. CASE UNCHANGED vars
    BY <1>1 DEF vars, server, display, Inv, TypeOK, HolderInv, WrittenInv, CopyInv,
                Resetting, Message
  <1>2. CASE Next
    BY <1>2, ThreadStep, ServerStep, ResetStep, MonitorStep DEF Next, MonitorLoop
  <1> QED BY <1>1, <1>2

\* The invariant holds in every reachable state.
LEMMA AlwaysInv == Spec => []Inv
  BY InitInv, NextInv, PTL DEF Spec

\* Slot, copies, semaphore and table keep their types.
THEOREM TypeCorrect == Spec => []TypeOK
  <1>1. Inv => TypeOK
    BY DEF Inv
  <1> QED BY <1>1, AlwaysInv, PTL

\* The semaphore of post_status excludes: at most one thread is between
\* sem_wait and sem_post, over ends of processes, new starts and a monitor that
\* removes the name of the semaphore (monitor_helper.c 20-63).
THEOREM OnePoster ==
  Spec => [](\A t \in Threads, u \in Threads :
                pc[t] \in Inside /\ pc[u] \in Inside => t = u)
  <1>1. Inv => \A t \in Threads, u \in Threads :
                 pc[t] \in Inside /\ pc[u] \in Inside => t = u
    BY DEF Inv, HolderInv
  <1> QED BY <1>1, AlwaysInv, PTL

\* When the semaphore is free the slot holds one message, the last post or the
\* monitor's reset (monitor_helper.c 58-62, monitor/main.c 117-119).
THEOREM SlotIsWhole == Spec => []SlotWhole
  <1>1. Inv => SlotWhole
    BY DEF Inv, WrittenInv, SlotWhole
  <1> QED BY <1>1, AlwaysInv, PTL

\* A copy no post has overlapped is one message, although the monitor takes it
\* field by field and without the semaphore (monitor/main.c 128-130).
THEOREM CopyIsWhole == Spec => []CopyWhole
  <1>1. ASSUME Inv PROVE CopyWhole
    <2>1. SUFFICES ASSUME mpc = "update", clean = "yes" PROVE current = last
      BY DEF CopyWhole
    <2>2. slot = last
      BY <1>1, <2>1 DEF Inv, CopyInv, WrittenInv, Resetting
    <2>3. current = slot
      BY <1>1, <2>1, SameFields DEF Inv, CopyInv, TypeOK
    <2> QED BY <2>2, <2>3
  <1> QED BY <1>1, AlwaysInv, PTL
=============================================================================
