--------------------------- MODULE LoggingProofs ---------------------------
(***************************************************************************)
(* Theorems about Logging, for every set of threads, size of the queue,    *)
(* number of messages and of starts of the server.                         *)
(***************************************************************************)
EXTENDS Logging, TLAPS

Shapes ==
  /\ pc \in [Threads -> {"idle", "send", "toolong"}]
  /\ posting \in [Threads -> Messages \cup {None}]
  /\ service \in [Services -> {"none", "create", "truncate", "read", "append", "ended"}]
  /\ buff \in [Services -> Messages \cup {None}]

\* The service of a later start of the server has not been started yet.
StartInv == \A s \in Services : s > starts => service[s] = "none"

\* A thread sends a message that no other thread sends and the queue has not
\* taken before.
FreshInv ==
  /\ \A m \in Range(accepted) : m <= calls
  /\ \A t \in Threads : posting[t] # None =>
       posting[t] <= calls /\ posting[t] \notin Range(accepted)
  /\ \A t \in Threads, u \in Threads :
       posting[t] = posting[u] /\ posting[t] # None => t = u

\* OnePlace, message by message.
PlaceInv ==
  /\ IsInjective(log) /\ IsInjective(queue)
  /\ \A s \in Services, u \in Services : buff[s] = buff[u] /\ buff[s] # None => s = u
  /\ Range(log) \cap Range(queue) = {}
  /\ (Range(log) \cup Range(queue)) \cap (Taken \cup lost) = {}
  /\ Taken \cap lost = {}
  /\ Range(accepted) = Range(log) \cup Range(queue) \cup Taken \cup lost

Inv == TypeOK /\ Shapes /\ StartInv /\ FreshInv /\ PlaceInv

-----------------------------------------------------------------------------
\* What append does to the elements of a sequence.
LEMMA AppendRange ==
  ASSUME NEW S, NEW s \in Seq(S), NEW e \in S
  PROVE  /\ Append(s, e) \in Seq(S) /\ Len(Append(s, e)) = Len(s) + 1
         /\ Range(Append(s, e)) = Range(s) \cup {e}
         /\ IsInjective(s) /\ e \notin Range(s) => IsInjective(Append(s, e))
  <1>1. /\ Append(s, e) \in Seq(S) /\ Len(Append(s, e)) = Len(s) + 1
        /\ DOMAIN s = 1 .. Len(s) /\ DOMAIN Append(s, e) = 1 .. Len(s) + 1
        /\ \A i \in 1 .. Len(s) : Append(s, e)[i] = s[i]
        /\ Append(s, e)[Len(s) + 1] = e
        /\ Len(s) \in Nat
    OBVIOUS
  <1> DEFINE a == Append(s, e)
  <1> HIDE DEF a
  <1>2. \A i \in 1 .. Len(s) + 1 : i \in 1 .. Len(s) \/ i = Len(s) + 1
    BY <1>1
  <1>3. Range(a) = Range(s) \cup {e}
    BY <1>1, <1>2 DEF Range, a
  <1>4. IsInjective(s) /\ e \notin Range(s) => IsInjective(a)
    BY <1>1, <1>2 DEF Range, IsInjective, a
  <1> QED BY <1>1, <1>3, <1>4 DEF a

\* What taking the head does to the elements of a sequence.
LEMMA TailRange ==
  ASSUME NEW S, NEW s \in Seq(S), s # << >>, IsInjective(s)
  PROVE  /\ Tail(s) \in Seq(S) /\ Len(Tail(s)) = Len(s) - 1 /\ Head(s) \in S
         /\ Head(s) \in Range(s) /\ Range(Tail(s)) = Range(s) \ {Head(s)}
         /\ IsInjective(Tail(s))
  <1> DEFINE r == Tail(s)
             h == Head(s)
             n == Len(s)
  <1>1. /\ r \in Seq(S) /\ Len(r) = n - 1
        /\ h = s[1] /\ h \in S
        /\ DOMAIN s = 1 .. n /\ DOMAIN r = 1 .. n - 1
        /\ n \in Nat \ {0}
        /\ \A i \in 1 .. n - 1 : r[i] = s[i + 1]
    OBVIOUS
  <1> HIDE DEF r, h, n
  <1>2. /\ 1 \in 1 .. n
        /\ \A i \in 1 .. n - 1 : i + 1 \in 1 .. n /\ i + 1 # 1
        /\ \A i \in 1 .. n - 1, j \in 1 .. n - 1 : i + 1 = j + 1 => i = j
    BY <1>1
  <1>3. h \in Range(s)
    BY <1>1, <1>2 DEF Range
  <1>4. \A i \in 1 .. n - 1 : r[i] \in Range(s) \ {h}
    <2> SUFFICES ASSUME NEW i \in 1 .. n - 1 PROVE r[i] \in Range(s) \ {h}
      OBVIOUS
    <2>1. i + 1 \in 1 .. n /\ i + 1 # 1 /\ 1 \in 1 .. n /\ r[i] = s[i + 1]
      BY <1>1, <1>2
    <2>2. s[i + 1] \in Range(s)
      BY <1>1, <2>1 DEF Range
    <2>3. s[i + 1] # s[1]
      BY <1>1, <2>1 DEF IsInjective
    <2> QED BY <1>1, <2>1, <2>2, <2>3
  <1>5. \A x \in Range(s) \ {h} : \E i \in 1 .. n - 1 : r[i] = x
    <2> SUFFICES ASSUME NEW x \in Range(s), x # h
                 PROVE  \E i \in 1 .. n - 1 : r[i] = x
      OBVIOUS
    <2>1. PICK j \in 1 .. n : s[j] = x
      BY <1>1 DEF Range
    <2>2. j # 1
      BY <1>1, <2>1
    <2>3. j - 1 \in 1 .. n - 1 /\ (j - 1) + 1 = j
      BY <1>1, <2>1, <2>2
    <2>4. r[j - 1] = x
      BY <1>1, <2>1, <2>3
    <2> QED BY <2>3, <2>4
  <1>6. Range(r) = Range(s) \ {h}
    <2>1. Range(r) = {r[i] : i \in 1 .. n - 1}
      BY <1>1 DEF Range
    <2> QED BY <1>4, <1>5, <2>1
  <1>7. IsInjective(r)
    <2>1. \A i \in 1 .. n - 1, j \in 1 .. n - 1 : s[i + 1] = s[j + 1] => i + 1 = j + 1
      BY <1>1, <1>2 DEF IsInjective
    <2>2. \A i \in 1 .. n - 1, j \in 1 .. n - 1 : r[i] = r[j] => i = j
      BY <1>1, <1>2, <2>1
    <2> QED BY <1>1, <2>2 DEF IsInjective
  <1> QED BY <1>1, <1>3, <1>6, <1>7 DEF r, h, n

\* The elements of two sequences, one behind the other.
LEMMA JoinedRange ==
  ASSUME NEW S, NEW s \in Seq(S), NEW t \in Seq(S)
  PROVE  /\ Range(s \o t) = Range(s) \cup Range(t)
         /\ IsInjective(s) /\ IsInjective(t) /\ Range(s) \cap Range(t) = {}
              => IsInjective(s \o t)
  <1> DEFINE j == s \o t
             n == Len(s)
             k == Len(t)
  <1>1. /\ DOMAIN s = 1 .. n /\ DOMAIN t = 1 .. k /\ DOMAIN j = 1 .. n + k
        /\ n \in Nat /\ k \in Nat
        /\ \A i \in 1 .. n : j[i] = s[i]
        /\ \A i \in 1 .. k : j[n + i] = t[i]
    OBVIOUS
  <1> HIDE DEF j, n, k
  <1>2. /\ \A i \in 1 .. n : i \in 1 .. n + k
        /\ \A i \in 1 .. k : n + i \in 1 .. n + k
        /\ \A i \in 1 .. n + k : i \in 1 .. n \/ (i - n \in 1 .. k /\ n + (i - n) = i)
    BY <1>1
  <1>3. \A i \in 1 .. n + k : i \in 1 .. n \/ \E l \in 1 .. k : i = n + l
    BY <1>2
  <1>4. Range(j) = Range(s) \cup Range(t)
    <2>1. /\ Range(j) = {j[i] : i \in 1 .. n + k}
          /\ Range(s) = {s[i] : i \in 1 .. n}
          /\ Range(t) = {t[i] : i \in 1 .. k}
      BY <1>1 DEF Range
    <2>2. \A i \in 1 .. n + k : j[i] \in Range(s) \cup Range(t)
      BY <1>1, <1>3, <2>1
    <2>3. (\A i \in 1 .. n : s[i] \in Range(j)) /\ (\A i \in 1 .. k : t[i] \in Range(j))
      BY <1>1, <1>2, <2>1
    <2> QED BY <2>1, <2>2, <2>3
  <1>5. ASSUME IsInjective(s), IsInjective(t), Range(s) \cap Range(t) = {}
        PROVE  IsInjective(j)
    <2> SUFFICES ASSUME NEW a \in 1 .. n + k, NEW b \in 1 .. n + k, j[a] = j[b]
                 PROVE  a = b
      BY <1>1 DEF IsInjective
    <2>1. \A i \in 1 .. n, l \in 1 .. k : s[i] # t[l]
      BY <1>1, <1>5 DEF Range
    <2>2. CASE a \in 1 .. n /\ b \in 1 .. n
      BY <1>1, <1>5, <2>2 DEF IsInjective
    <2>3. CASE a \in 1 .. n /\ \E l \in 1 .. k : b = n + l
      <3>1. PICK l \in 1 .. k : b = n + l
        BY <2>3
      <3>2. j[a] = s[a] /\ j[b] = t[l] /\ s[a] # t[l]
        BY <1>1, <2>1, <2>3, <3>1
      <3> QED BY <3>2
    <2>4. CASE b \in 1 .. n /\ \E l \in 1 .. k : a = n + l
      <3>1. PICK l \in 1 .. k : a = n + l
        BY <2>4
      <3>2. j[b] = s[b] /\ j[a] = t[l] /\ s[b] # t[l]
        BY <1>1, <2>1, <2>4, <3>1
      <3> QED BY <3>2
    <2>5. CASE (\E l \in 1 .. k : a = n + l) /\ \E l \in 1 .. k : b = n + l
      <3>1. PICK c \in 1 .. k : a = n + c
        BY <2>5
      <3>2. PICK d \in 1 .. k : b = n + d
        BY <2>5
      <3>3. t[c] = t[d] /\ c \in DOMAIN t /\ d \in DOMAIN t
        BY <1>1, <3>1, <3>2
      <3>4. c = d
        BY <1>5, <3>3 DEF IsInjective
      <3> QED BY <3>1, <3>2, <3>4
    <2>6. /\ a \in 1 .. n \/ \E l \in 1 .. k : a = n + l
          /\ b \in 1 .. n \/ \E l \in 1 .. k : b = n + l
      BY <1>3
    <2> QED BY <2>2, <2>3, <2>4, <2>5, <2>6, Zenon
  <1> QED BY <1>4, <1>5 DEF j

-----------------------------------------------------------------------------
\* A message is a number from 1, so that None is no message; MaxStarts services
\* are numbered from 1 too.
LEMMA Numbers ==
  /\ Messages = 1 .. MaxMessages /\ Services = 1 .. MaxStarts /\ None = 0
  /\ None \notin Messages /\ Messages \subseteq Nat
  /\ MAX_MSG \in Nat \ {0} /\ MaxMessages \in Nat /\ MaxStarts \in Nat
  BY LoggingAssumption DEF Messages, Services, None

\* AppendRange, of a message at the end of a sequence of messages.
LEMMA AppendMessage ==
  \A s \in Seq(Messages), m \in Messages :
    /\ Append(s, m) \in Seq(Messages) /\ Len(Append(s, m)) = Len(s) + 1
    /\ Range(Append(s, m)) = Range(s) \cup {m}
    /\ IsInjective(s) /\ m \notin Range(s) => IsInjective(Append(s, m))
  BY AppendRange

\* Where the messages are does not change with the rest of the state.
LEMMA PlacesKept ==
  ASSUME PlaceInv, UNCHANGED <<queue, buff, log, lost, accepted>>
  PROVE  PlaceInv'
  BY DEF PlaceInv, Taken

\* A server that has never run has no messages.
LEMMA InitInv == Init => Inv
  <1> SUFFICES ASSUME Init PROVE Inv
    OBVIOUS
  <1> USE Numbers DEF Init
  <1>1. Range(<< >>) = {} /\ IsInjective(<< >>)
    BY DEF Range, IsInjective
  <1>2. Taken = {}
    BY DEF Taken
  <1>3. TypeOK
    BY DEF TypeOK
  <1>4. Shapes /\ StartInv
    BY DEF Shapes, StartInv
  <1>5. FreshInv
    BY <1>1 DEF FreshInv
  <1>6. PlaceInv
    BY <1>1, <1>2 DEF PlaceInv
  <1> QED BY <1>3, <1>4, <1>5, <1>6 DEF Inv

\* A start of the server, with or without a service, and the opening of the
\* queue (logging_helpers.c 16-29, 57-76).
LEMMA StartStep ==
  ASSUME Inv, init_logging_server \/ fork_fails \/ init_mq
  PROVE  Inv'
  <1> USE Numbers
  <1> USE DEF Inv, callers, services
  <1>1. UNCHANGED <<queue, buff, log, lost, accepted, pc, posting, calls>>
    BY DEF init_logging_server, fork_fails, init_mq, StartServer
  <1>2. PlaceInv'
    BY <1>1, PlacesKept
  <1>3. FreshInv'
    BY <1>1 DEF FreshInv
  <1>4. CASE init_logging_server
    <2>1. /\ starts < MaxStarts /\ starts' = starts + 1 /\ server' = "forked"
          /\ service' = [service EXCEPT ![starts'] = "create"]
          /\ rival' \in {"yes", "no"} /\ starts' \in Services
          /\ UNCHANGED <<exists, unserved>>
      BY <1>4 DEF init_logging_server, StartServer, TypeOK
    <2>2. service[starts'] = "none"
      BY <2>1 DEF StartInv, TypeOK
    <2>3. \A s \in Services : service'[s] = IF s = starts' THEN "create" ELSE service[s]
      BY <2>1 DEF Shapes
    <2>4. \A s \in Services :
            /\ service'[s] \in {"none", "create", "truncate", "read", "append", "ended"}
            /\ IF service'[s] = "append" THEN buff'[s] \in Messages ELSE buff'[s] = None
      BY <1>1, <2>2, <2>3 DEF TypeOK
    <2>5. TypeOK'
      BY <1>1, <2>1, <2>4 DEF TypeOK
    <2>6. Shapes' /\ StartInv'
      BY <1>1, <2>1, <2>3 DEF Shapes, StartInv, TypeOK
    <2> QED BY <1>2, <1>3, <2>5, <2>6
  <1>5. CASE fork_fails \/ init_mq
    <2>1. TypeOK'
      BY <1>1, <1>5 DEF fork_fails, init_mq, StartServer, TypeOK
    <2>2. Shapes' /\ StartInv'
      BY <1>1, <1>5 DEF fork_fails, init_mq, StartServer, Shapes, StartInv, TypeOK
    <2> QED BY <1>2, <1>3, <2>1, <2>2
  <1> QED BY <1>4, <1>5

\* A thread that logs: its message is new, and the queue takes it behind the
\* others if there is room (logging_helpers.c 45-55).
LEMMA LogStep ==
  ASSUME Inv, NEW t \in Threads, log_call(t) \/ log_mq(t)
  PROVE  Inv'
  <1> USE Numbers
  <1> USE DEF Inv, callers, services
  <1>1. CASE log_call(t)
    <2>1. PICK size \in {"send", "toolong"} : pc' = [pc EXCEPT ![t] = size]
      BY <1>1 DEF log_call
    <2>2. /\ calls' = calls + 1 /\ calls \in Nat /\ calls' \in Messages
          /\ posting' = [posting EXCEPT ![t] = calls']
          /\ UNCHANGED <<server, starts, exists, queue, service, buff, log, lost, accepted,
                         rival, unserved>>
      BY <1>1 DEF log_call, TypeOK
    <2>3. /\ pc'[t] = size /\ posting'[t] = calls'
          /\ \A u \in Threads \ {t} : pc'[u] = pc[u] /\ posting'[u] = posting[u]
      BY <2>1, <2>2 DEF Shapes
    <2>4. TypeOK'
      <3>1. \A u \in Threads : IF pc'[u] = "idle" THEN posting'[u] = None
                              ELSE pc'[u] \in {"send", "toolong"} /\ posting'[u] \in Messages
        BY <2>2, <2>3 DEF TypeOK
      <3>2. calls' \in 0 .. MaxMessages
        BY <2>2
      <3> QED BY <2>2, <3>1, <3>2 DEF TypeOK
    <2>5. Shapes' /\ StartInv'
      BY <2>1, <2>2 DEF Shapes, StartInv
    <2>6. FreshInv'
      <3>1. calls' \notin Range(accepted) /\ calls' # None
        BY <2>2 DEF FreshInv
      <3>2. \A m \in Range(accepted) : m <= calls'
        <4>1. Range(accepted) \subseteq Nat
          BY DEF TypeOK, Range
        <4> QED BY <2>2, <4>1 DEF FreshInv
      <3>3. \A u \in Threads \ {t} : posting[u] # None => posting[u] < calls'
        BY <2>2 DEF FreshInv, Shapes
      <3> QED BY <2>2, <2>3, <3>1, <3>2, <3>3 DEF FreshInv, Shapes
    <2>7. PlaceInv'
      BY <2>2, PlacesKept
    <2> QED BY <2>4, <2>5, <2>6, <2>7
  <1>2. CASE mq_send(t)
    <2> DEFINE m == posting[t]
    <2>1. /\ pc[t] = "send" /\ Len(queue) < MAX_MSG
          /\ queue' = Append(queue, m) /\ accepted' = Append(accepted, m)
          /\ pc' = [pc EXCEPT ![t] = "idle"] /\ posting' = [posting EXCEPT ![t] = None]
          /\ UNCHANGED <<server, starts, exists, calls, service, buff, log, lost, rival,
                         unserved>>
      BY <1>2 DEF mq_send, Returns
    <2>2. m \in Messages /\ m # None /\ m <= calls /\ m \notin Range(accepted)
      BY <2>1 DEF TypeOK, FreshInv
    <2>3. /\ m \notin Range(log) /\ m \notin Range(queue) /\ m \notin Taken /\ m \notin lost
          /\ IsInjective(queue)
      BY <2>2 DEF PlaceInv
    <2>4. /\ queue' \in Seq(Messages) /\ Len(queue') = Len(queue) + 1
          /\ Range(queue') = Range(queue) \cup {m} /\ IsInjective(queue')
          /\ accepted' \in Seq(Messages)
          /\ Range(accepted') = Range(accepted) \cup {m}
      <3>1. queue \in Seq(Messages) /\ accepted \in Seq(Messages) /\ m \in Messages
        BY <2>2 DEF TypeOK
      <3>2. /\ Append(queue, m) \in Seq(Messages)
            /\ Len(Append(queue, m)) = Len(queue) + 1
            /\ Range(Append(queue, m)) = Range(queue) \cup {m}
            /\ IsInjective(queue) /\ m \notin Range(queue) => IsInjective(Append(queue, m))
        BY <3>1, AppendMessage, Zenon
      <3>3. /\ Append(accepted, m) \in Seq(Messages)
            /\ Range(Append(accepted, m)) = Range(accepted) \cup {m}
        BY <3>1, AppendMessage, Zenon
      <3> QED BY <2>1, <2>3, <3>2, <3>3
    <2> HIDE DEF m
    <2>5. /\ pc'[t] = "idle" /\ posting'[t] = None
          /\ \A u \in Threads \ {t} : pc'[u] = pc[u] /\ posting'[u] = posting[u]
      BY <2>1 DEF Shapes
    <2>6. Len(queue) \in Nat /\ Len(queue') <= MAX_MSG
      BY <2>1, <2>4 DEF TypeOK
    <2>7. TypeOK'
      BY <2>1, <2>4, <2>5, <2>6 DEF TypeOK
    <2>8. Shapes' /\ StartInv'
      BY <2>1 DEF Shapes, StartInv
    <2>9. FreshInv'
      <3>1. \A u \in Threads \ {t} : posting[u] # m
        BY <2>2 DEF FreshInv, m
      <3> QED BY <2>1, <2>2, <2>4, <2>5, <3>1 DEF FreshInv
    <2>10. PlaceInv'
      <3>1. Taken' = Taken
        BY <2>1 DEF Taken
      <3> QED BY <2>1, <2>3, <2>4, <3>1 DEF PlaceInv
    <2> QED BY <2>7, <2>8, <2>9, <2>10
  <1>3. CASE mq_send_fails(t)
    <2>1. /\ pc' = [pc EXCEPT ![t] = "idle"] /\ posting' = [posting EXCEPT ![t] = None]
          /\ UNCHANGED <<server, starts, exists, queue, calls, service, buff, log, lost,
                         accepted, rival, unserved>>
      BY <1>3 DEF mq_send_fails, Returns
    <2>2. /\ pc'[t] = "idle" /\ posting'[t] = None
          /\ \A u \in Threads \ {t} : pc'[u] = pc[u] /\ posting'[u] = posting[u]
      BY <2>1 DEF Shapes
    <2>3. TypeOK'
      BY <2>1, <2>2 DEF TypeOK
    <2>4. Shapes' /\ StartInv'
      BY <2>1 DEF Shapes, StartInv
    <2>5. FreshInv'
      BY <2>1, <2>2 DEF FreshInv
    <2>6. PlaceInv'
      BY <2>1, PlacesKept
    <2> QED BY <2>3, <2>4, <2>5, <2>6
  <1> QED BY <1>1, <1>2, <1>3 DEF log_mq

\* The end of the server, alone or with its services, preserves the invariant:
\* a thread forgets what it was about to send, a service loses what it has
\* taken.
LEMMA StopStep ==
  ASSUME Inv, ServerKilled \/ Interrupt
  PROVE  Inv'
  <1> USE Numbers
  <1> USE DEF Inv, callers, services
  <1>1. /\ server' = "off"
        /\ pc' = [t \in Threads |-> "idle"] /\ posting' = [t \in Threads |-> None]
        /\ UNCHANGED <<starts, exists, queue, calls, log, accepted, rival>>
    BY DEF ServerKilled, Interrupt, StopThreads
  <1>2. FreshInv'
    BY <1>1 DEF FreshInv
  <1>3. CASE ServerKilled
    <2>1. UNCHANGED <<service, buff, lost, unserved>>
      BY <1>3 DEF ServerKilled
    <2>2. TypeOK' /\ Shapes' /\ StartInv'
      BY <1>1, <2>1 DEF TypeOK, Shapes, StartInv
    <2>3. PlaceInv'
      BY <1>1, <2>1, PlacesKept
    <2> QED BY <1>2, <2>2, <2>3
  <1>4. CASE Interrupt
    <2>1. /\ service' = [s \in Services |-> IF Alive(s) THEN "ended" ELSE service[s]]
          /\ buff' = [s \in Services |-> None]
          /\ lost' = lost \cup Taken /\ unserved' = "yes"
      BY <1>4 DEF Interrupt
    <2>2. Taken \subseteq Messages
      BY DEF Taken, Shapes
    <2>3. Taken' = {}
      BY <2>1 DEF Taken
    <2>4. \A s \in Services :
            /\ service'[s] \in {"none", "ended"} /\ buff'[s] = None
            /\ service[s] = "none" => service'[s] = "none"
      BY <2>1 DEF Alive
    <2>5. TypeOK'
      BY <1>1, <2>1, <2>2, <2>4 DEF TypeOK
    <2>6. Shapes' /\ StartInv'
      BY <1>1, <2>1, <2>4 DEF Shapes, StartInv
    <2>7. PlaceInv'
      BY <1>1, <2>1, <2>3, <2>4 DEF PlaceInv
    <2> QED BY <1>2, <2>5, <2>6, <2>7
  <1> QED BY <1>3, <1>4

\* A service that loses or writes what it has taken no longer has it.
LEMMA Untaken ==
  ASSUME Inv, NEW s \in Services, buff' = [buff EXCEPT ![s] = None]
  PROVE  /\ Taken' = Taken \ {buff[s]}
         /\ buff[s] # None => buff[s] \in Taken
         /\ buff[s] = None => Taken' = Taken
         /\ buff'[s] = None /\ \A u \in Services \ {s} : buff'[u] = buff[u]
         /\ \A u \in Services, v \in Services : buff'[u] = buff'[v] /\ buff'[u] # None => u = v
  <1> USE Numbers DEF Inv
  <1>1. buff'[s] = None /\ \A u \in Services \ {s} : buff'[u] = buff[u]
    BY DEF Shapes
  <1>2. \A u \in Services \ {s} : buff[u] = None \/ buff[u] # buff[s]
    BY DEF PlaceInv
  <1>3. /\ Taken = {buff[u] : u \in Services} \ {None}
        /\ Taken' = {buff'[u] : u \in Services} \ {None}
    BY DEF Taken
  <1>4. Taken' = Taken \ {buff[s]}
    <2>1. ASSUME NEW m \in Taken' PROVE m \in Taken \ {buff[s]}
      <3>1. PICK u \in Services : m = buff'[u] /\ m # None
        BY <1>3, <2>1
      <3> QED BY <1>1, <1>2, <1>3, <3>1
    <2>2. ASSUME NEW m \in Taken, m # buff[s] PROVE m \in Taken'
      <3>1. PICK u \in Services : m = buff[u] /\ m # None
        BY <1>3
      <3>2. u # s /\ m = buff'[u]
        BY <1>1, <2>2, <3>1
      <3> QED BY <1>3, <3>1, <3>2
    <2> QED BY <2>1, <2>2
  <1>5. buff[s] # None => buff[s] \in Taken
    BY <1>3
  <1>6. buff[s] = None => Taken' = Taken
    BY <1>3, <1>4
  <1>7. \A u \in Services, v \in Services : buff'[u] = buff'[v] /\ buff'[u] # None => u = v
    BY <1>1 DEF PlaceInv
  <1> QED BY <1>1, <1>4, <1>5, <1>6, <1>7

\* A step of a service keeps the types and what is known of the threads, if its
\* message and the log do.
LEMMA ServiceTypes ==
  ASSUME Inv, NEW s \in Services, NEW to \in {"truncate", "read", "append", "ended"},
         service[s] # "none", service' = [service EXCEPT ![s] = to],
         buff' \in [Services -> Messages \cup {None}],
         IF to = "append" THEN buff'[s] \in Messages ELSE buff'[s] = None,
         \A u \in Services \ {s} : buff'[u] = buff[u],
         queue' \in Seq(Messages), Len(queue') <= MAX_MSG, log' \in Seq(Messages),
         lost' \subseteq Messages, exists' \in {"yes", "no"}, unserved' \in {"yes", "no"},
         UNCHANGED <<server, starts, pc, posting, calls, accepted, rival>>
  PROVE  TypeOK' /\ Shapes' /\ StartInv' /\ FreshInv'
  <1> USE Numbers DEF Inv
  <1>1. service'[s] = to /\ \A u \in Services \ {s} : service'[u] = service[u]
    BY DEF Shapes
  <1>2. TypeOK'
    <2>1. \A u \in Services :
            /\ service'[u] \in {"none", "create", "truncate", "read", "append", "ended"}
            /\ IF service'[u] = "append" THEN buff'[u] \in Messages ELSE buff'[u] = None
      <3> TAKE u \in Services
      <3>1. CASE u = s
        <4>1. service'[u] = to /\ (IF to = "append" THEN buff'[u] \in Messages ELSE buff'[u] = None)
          BY <1>1, <3>1
        <4> QED BY <4>1
      <3>2. CASE u # s
        <4>1. /\ service[u] \in {"none", "create", "truncate", "read", "append", "ended"}
              /\ IF service[u] = "append" THEN buff[u] \in Messages ELSE buff[u] = None
          BY DEF TypeOK
        <4>2. service'[u] = service[u] /\ buff'[u] = buff[u]
          BY <1>1, <3>2
        <4> QED BY <4>1, <4>2
      <3> QED BY <3>1, <3>2
    <2> QED BY <2>1 DEF TypeOK
  <1>3. Shapes' /\ StartInv' /\ FreshInv'
    BY <1>1 DEF Shapes, StartInv, FreshInv
  <1> QED BY <1>2, <1>3

\* A step of a service: the queue is opened, the file emptied, a message taken
\* from the queue and written to the file, or the service killed; a message
\* moves from one place to another (logging/main.c 20-74).
LEMMA ServiceStep ==
  ASSUME Inv, NEW s \in Services, ServiceMain(s) \/ ServiceKilled(s)
  PROVE  Inv'
  <1> USE Numbers
  <1> USE DEF Inv, callers, services
  <1>0. /\ service \in [Services -> {"none", "create", "truncate", "read", "append", "ended"}]
        /\ buff \in [Services -> Messages \cup {None}]
        /\ queue \in Seq(Messages) /\ Len(queue) <= MAX_MSG /\ log \in Seq(Messages)
        /\ lost \subseteq Messages /\ exists \in {"yes", "no"} /\ unserved \in {"yes", "no"}
        /\ IF service[s] = "append" THEN buff[s] \in Messages ELSE buff[s] = None
    BY DEF TypeOK, Shapes
  <1>1. CASE create_mq(s)
    <2>1. /\ service[s] = "create" /\ service' = [service EXCEPT ![s] = "truncate"]
          /\ exists' = "yes"
          /\ UNCHANGED <<server, starts, queue, pc, posting, calls, buff, log, lost, accepted,
                         rival, unserved>>
      BY <1>1 DEF create_mq, Service
    <2>2. buff'[s] = None
      BY <1>0, <2>1
    <2>3. TypeOK' /\ Shapes' /\ StartInv' /\ FreshInv'
      BY <1>0, <2>1, <2>2, ServiceTypes
    <2>4. PlaceInv'
      BY <2>1, PlacesKept
    <2> QED BY <2>3, <2>4
  <1>2. CASE Truncate(s)
    <2>1. /\ service[s] = "truncate" /\ service' = [service EXCEPT ![s] = "read"]
          /\ log' = << >> /\ lost' = lost \cup Range(log)
          /\ UNCHANGED <<server, starts, exists, queue, pc, posting, calls, buff, accepted,
                         rival, unserved>>
      BY <1>2 DEF Truncate, Service
    <2>2. Range(log) \subseteq Messages
      BY <1>0 DEF Range
    <2>3. buff'[s] = None /\ log' \in Seq(Messages) /\ lost' \subseteq Messages
      <3>1. buff'[s] = None
        BY <1>0, <2>1
      <3>2. log' \in Seq(Messages)
        BY <2>1
      <3>3. lost' \subseteq Messages
        BY <1>0, <2>1, <2>2
      <3> QED BY <3>1, <3>2, <3>3
    <2>4. TypeOK' /\ Shapes' /\ StartInv' /\ FreshInv'
      BY <1>0, <2>1, <2>3, ServiceTypes
    <2>5. Range(log') = {} /\ IsInjective(log') /\ Taken' = Taken
      BY <2>1 DEF Range, IsInjective, Taken
    <2>6. PlaceInv'
      BY <2>1, <2>5 DEF PlaceInv
    <2> QED BY <2>4, <2>6
  <1>3. CASE read_mq(s)
    <2> DEFINE m == Head(queue)
    <2>1. /\ service[s] = "read" /\ service' = [service EXCEPT ![s] = "append"]
          /\ queue # << >> /\ queue' = Tail(queue) /\ buff' = [buff EXCEPT ![s] = m]
          /\ UNCHANGED <<server, starts, exists, pc, posting, calls, log, lost, accepted,
                         rival, unserved>>
      BY <1>3 DEF read_mq, Service
    <2>2. /\ queue' \in Seq(Messages) /\ Len(queue') = Len(queue) - 1 /\ m \in Messages
          /\ m \in Range(queue) /\ Range(queue') = Range(queue) \ {m} /\ IsInjective(queue')
      BY <1>0, <2>1, TailRange DEF PlaceInv
    <2> HIDE DEF m
    <2>3. /\ buff' \in [Services -> Messages \cup {None}] /\ buff'[s] = m
          /\ \A u \in Services \ {s} : buff'[u] = buff[u]
      BY <1>0, <2>1, <2>2
    <2>4. Len(queue) \in Nat /\ Len(queue') <= MAX_MSG
      BY <1>0, <2>2
    <2>5. TypeOK' /\ Shapes' /\ StartInv' /\ FreshInv'
      BY <1>0, <2>1, <2>2, <2>3, <2>4, ServiceTypes
    <2>6. m # None /\ buff[s] = None
      BY <1>0, <2>1, <2>2
    <2>7. Taken' = Taken \cup {m}
      <3>1. /\ Taken = {buff[u] : u \in Services} \ {None}
            /\ Taken' = {buff'[u] : u \in Services} \ {None}
        BY DEF Taken
      <3>2. ASSUME NEW x \in Taken' PROVE x \in Taken \cup {m}
        <4>1. PICK u \in Services : x = buff'[u] /\ x # None
          BY <3>1, <3>2
        <4> QED BY <2>3, <3>1, <4>1
      <3>3. ASSUME NEW x \in Taken PROVE x \in Taken'
        <4>1. PICK u \in Services : x = buff[u] /\ x # None
          BY <3>1, <3>3
        <4>2. u # s /\ x = buff'[u]
          BY <2>3, <2>6, <4>1
        <4> QED BY <3>1, <4>1, <4>2
      <3>4. m \in Taken'
        BY <2>3, <2>6, <3>1
      <3> QED BY <3>2, <3>3, <3>4
    <2>8. m \notin Range(log) /\ m \notin Taken /\ m \notin lost
      BY <2>2 DEF PlaceInv
    <2>9. \A u \in Services : buff[u] # m
      BY <2>6, <2>8 DEF Taken
    <2>10. \A u \in Services, v \in Services : buff'[u] = buff'[v] /\ buff'[u] # None => u = v
      BY <2>3, <2>9 DEF PlaceInv
    <2>11. PlaceInv'
      BY <2>1, <2>2, <2>7, <2>8, <2>10 DEF PlaceInv
    <2> QED BY <2>5, <2>11
  <1>4. CASE AppendToLog(s)
    <2> DEFINE m == buff[s]
    <2>1. /\ service[s] = "append" /\ service' = [service EXCEPT ![s] = "read"]
          /\ log' = Append(log, m) /\ buff' = [buff EXCEPT ![s] = None]
          /\ UNCHANGED <<server, starts, exists, queue, pc, posting, calls, lost, accepted,
                         rival, unserved>>
      BY <1>4 DEF AppendToLog, Service
    <2>2. m \in Messages /\ m # None
      BY <1>0, <2>1
    <2>3. /\ Taken' = Taken \ {m} /\ m \in Taken
          /\ buff'[s] = None /\ \A u \in Services \ {s} : buff'[u] = buff[u]
          /\ \A u \in Services, v \in Services : buff'[u] = buff'[v] /\ buff'[u] # None => u = v
      BY <2>1, <2>2, Untaken
    <2>4. m \notin Range(log) /\ m \notin Range(queue) /\ m \notin lost /\ IsInjective(log)
      BY <2>3 DEF PlaceInv
    <2>5. /\ log' \in Seq(Messages) /\ Range(log') = Range(log) \cup {m} /\ IsInjective(log')
      BY <1>0, <2>1, <2>2, <2>4, AppendRange
    <2> HIDE DEF m
    <2>6. buff' \in [Services -> Messages \cup {None}]
      BY <1>0, <2>1
    <2>7. TypeOK' /\ Shapes' /\ StartInv' /\ FreshInv'
      BY <1>0, <2>1, <2>3, <2>5, <2>6, ServiceTypes
    <2>8. PlaceInv'
      BY <2>1, <2>3, <2>4, <2>5 DEF PlaceInv
    <2> QED BY <2>7, <2>8
  <1>5. CASE ServiceKilled(s)
    <2> DEFINE m == buff[s]
    <2>1. /\ service[s] \notin {"none", "ended"} /\ service' = [service EXCEPT ![s] = "ended"]
          /\ buff' = [buff EXCEPT ![s] = None] /\ lost' = lost \cup ({m} \ {None})
          /\ unserved' = "yes"
          /\ UNCHANGED <<server, starts, exists, queue, pc, posting, calls, log, accepted,
                         rival>>
      BY <1>5 DEF ServiceKilled, Alive
    <2>2. /\ Taken' = Taken \ {m} /\ (m # None => m \in Taken) /\ (m = None => Taken' = Taken)
          /\ buff'[s] = None /\ \A u \in Services \ {s} : buff'[u] = buff[u]
          /\ \A u \in Services, v \in Services : buff'[u] = buff'[v] /\ buff'[u] # None => u = v
      BY <2>1, Untaken
    <2>3. m \in Messages \cup {None}
      BY <1>0
    <2> HIDE DEF m
    <2>4. buff' \in [Services -> Messages \cup {None}] /\ lost' \subseteq Messages
      BY <1>0, <2>1, <2>3
    <2>5. TypeOK' /\ Shapes' /\ StartInv' /\ FreshInv'
      BY <1>0, <2>1, <2>2, <2>4, ServiceTypes
    <2>6. CASE m = None
      <3>1. lost' = lost /\ Taken' = Taken
        BY <2>1, <2>2, <2>6
      <3> QED BY <2>1, <2>2, <2>5, <3>1 DEF PlaceInv
    <2>7. CASE m # None
      <3>1. lost' = lost \cup {m} /\ Taken' = Taken \ {m} /\ m \in Taken
        BY <2>1, <2>2, <2>7
      <3>2. PlaceInv'
        BY <2>1, <2>2, <3>1 DEF PlaceInv
      <3> QED BY <2>5, <3>2
    <2> QED BY <2>6, <2>7
  <1> QED BY <1>1, <1>2, <1>3, <1>4, <1>5 DEF ServiceMain

-----------------------------------------------------------------------------
\* Every step keeps the invariant.
LEMMA NextInv == Inv /\ [Next]_vars => Inv'
  <1> SUFFICES ASSUME Inv, [Next]_vars PROVE Inv'
    OBVIOUS
  <1>1. CASE init_logging_server \/ fork_fails \/ init_mq
    BY <1>1, StartStep
  <1>2. CASE \E t \in Threads : log_call(t) \/ log_mq(t)
    BY <1>2, LogStep
  <1>3. CASE ServerKilled \/ Interrupt
    BY <1>3, StopStep
  <1>4. CASE \E s \in Services : ServiceMain(s) \/ ServiceKilled(s)
    BY <1>4, ServiceStep
  <1>5. CASE UNCHANGED vars
    <2> USE <1>5 DEF vars, callers, services, Inv
    <2>1. TypeOK' /\ Shapes' /\ StartInv' /\ FreshInv'
      BY DEF TypeOK, Shapes, StartInv, FreshInv
    <2>2. PlaceInv'
      BY PlacesKept
    <2> QED BY <2>1, <2>2
  <1> QED BY <1>1, <1>2, <1>3, <1>4, <1>5 DEF Next

LEMMA AlwaysInv == Spec => []Inv
  BY InitInv, NextInv, PTL DEF Spec

\* The queue never holds more than its limit, a thread that is not logging has
\* no message, and a service has one only between taking and writing it
\* (logging_helpers.c 45-55, logging/main.c 28-48).
THEOREM TypeCorrect == Spec => []TypeOK
  <1>1. Inv => TypeOK
    BY DEF Inv
  <1> QED BY <1>1, AlwaysInv, PTL

\* A message that mq_send has taken is in one place, however many threads send,
\* however many services share the queue and whoever is killed
\* (logging_helpers.c 45-55, logging/main.c 20-74).
THEOREM MessagesInOnePlace == Spec => []OnePlace
  <1>1. Inv => OnePlace
    <2> SUFFICES ASSUME Inv PROVE OnePlace
      OBVIOUS
    <2>1. log \in Seq(Messages) /\ queue \in Seq(Messages)
      BY DEF Inv, TypeOK
    <2>2. Range(log \o queue) = Range(log) \cup Range(queue) /\ IsInjective(log \o queue)
      BY <2>1, JoinedRange DEF Inv, PlaceInv
    <2> QED BY <2>2 DEF Inv, PlaceInv, OnePlace
  <1> QED BY <1>1, AlwaysInv, PTL

-----------------------------------------------------------------------------
(***************************************************************************)
(* The order of the log.                                                   *)
(***************************************************************************)

\* Messages of A were accepted before messages of B.
Earlier(A, B, y) ==
  \A a, b \in DOMAIN y : y[a] \in A /\ y[b] \in B => a < b

\* With one service at a time: what the log has was accepted before what the
\* service holds, and that before what is in the queue.
OrderInv ==
  /\ IsInjective(accepted)
  /\ rival = "no" =>
       /\ \A s, u \in Services : Alive(s) /\ Alive(u) => s = u
       /\ InOrderOf(log, accepted) /\ InOrderOf(queue, accepted)
       /\ Earlier(Range(log), Taken, accepted)
       /\ Earlier(Range(log), Range(queue), accepted)
       /\ Earlier(Taken, Range(queue), accepted)

\* A message accepted last is behind all that were accepted.
LEMMA AcceptedLast ==
  ASSUME NEW S, NEW y \in Seq(S), NEW e \in S, e \notin Range(y)
  PROVE  /\ \A x : (\A i \in DOMAIN x : x[i] \in Range(y)) /\ InOrderOf(x, y)
                   => InOrderOf(x, Append(y, e))
         /\ \A A, B : A \subseteq Range(y) /\ Earlier(A, B, y)
                   => Earlier(A, B, Append(y, e)) /\ Earlier(A, B \cup {e}, Append(y, e))
  <1> DEFINE z == Append(y, e)
             n == Len(y)
  <1>1. /\ n \in Nat /\ DOMAIN y = 1 .. n /\ DOMAIN z = 1 .. n + 1
        /\ \A i \in 1 .. n : z[i] = y[i]
        /\ z[n + 1] = e
    OBVIOUS
  <1> HIDE DEF z, n
  <1>2. \A i \in DOMAIN z : z[i] \in Range(y) => i \in 1 .. n /\ i \in DOMAIN y /\ z[i] = y[i]
    <2> TAKE i \in DOMAIN z
    <2>1. i \in 1 .. n \/ i = n + 1
      BY <1>1
    <2> QED BY <1>1, <2>1
  <1>3. ASSUME NEW x, \A i \in DOMAIN x : x[i] \in Range(y), InOrderOf(x, y)
        PROVE  InOrderOf(x, z)
    <2> SUFFICES ASSUME NEW i \in DOMAIN x, NEW j \in DOMAIN x,
                        NEW a \in DOMAIN z, NEW b \in DOMAIN z,
                        i < j, x[i] = z[a], x[j] = z[b]
                 PROVE  a < b
      BY DEF InOrderOf
    <2>1. z[a] \in Range(y) /\ z[b] \in Range(y)
      BY <1>3
    <2>2. a \in DOMAIN y /\ b \in DOMAIN y /\ z[a] = y[a] /\ z[b] = y[b]
      BY <1>2, <2>1
    <2> QED BY <1>3, <2>2 DEF InOrderOf
  <1>4. ASSUME NEW A, NEW B, A \subseteq Range(y), Earlier(A, B, y)
        PROVE  Earlier(A, B \cup {e}, z)
    <2> SUFFICES ASSUME NEW a \in DOMAIN z, NEW b \in DOMAIN z, z[a] \in A,
                        z[b] \in B \cup {e}
                 PROVE  a < b
      BY DEF Earlier
    <2>1. a \in 1 .. n /\ a \in DOMAIN y /\ z[a] = y[a]
      BY <1>2, <1>4
    <2>2. CASE b = n + 1
      BY <1>1, <2>1, <2>2
    <2>3. CASE b \in 1 .. n
      <3>1. z[b] = y[b] /\ b \in DOMAIN y
        BY <1>1, <2>3
      <3>2. y[b] # e
        BY <3>1 DEF Range
      <3>3. y[b] \in B
        BY <3>1, <3>2
      <3> QED BY <1>4, <2>1, <3>1, <3>3 DEF Earlier
    <2>4. b = n + 1 \/ b \in 1 .. n
      BY <1>1
    <2> QED BY <2>2, <2>3, <2>4
  <1>5. ASSUME NEW A, NEW B, A \subseteq Range(y), Earlier(A, B, y)
        PROVE  Earlier(A, B, z)
    BY <1>4, <1>5 DEF Earlier
  <1> QED BY <1>3, <1>4, <1>5 DEF z

\* Two sequences in order, one behind the other, when all of the first was
\* accepted before all of the second.
LEMMA JoinedOrder ==
  ASSUME NEW S, NEW s \in Seq(S), NEW t \in Seq(S), NEW y \in Seq(S),
         InOrderOf(s, y), InOrderOf(t, y), Earlier(Range(s), Range(t), y)
  PROVE  InOrderOf(s \o t, y)
  <1> DEFINE x == s \o t
             n == Len(s)
             k == Len(t)
  <1>1. /\ n \in Nat /\ k \in Nat
        /\ DOMAIN s = 1 .. n /\ DOMAIN t = 1 .. k /\ DOMAIN x = 1 .. n + k
        /\ \A i \in 1 .. n : x[i] = s[i]
        /\ \A i \in 1 .. k : x[n + i] = t[i]
    OBVIOUS
  <1> HIDE DEF x, n, k
  <1>2. \A i \in 1 .. n + k :
          \/ i \in DOMAIN s /\ x[i] = s[i]
          \/ i - n \in DOMAIN t /\ x[i] = t[i - n] /\ i > n
    <2> TAKE i \in 1 .. n + k
    <2>1. CASE i \in 1 .. n
      BY <1>1, <2>1
    <2>2. CASE i > n
      <3>1. i - n \in 1 .. k /\ n + (i - n) = i
        BY <1>1, <2>2
      <3>2. x[n + (i - n)] = t[i - n]
        BY <1>1, <3>1
      <3> QED BY <1>1, <2>2, <3>1, <3>2
    <2>3. i \in 1 .. n \/ i > n
      BY <1>1
    <2> QED BY <2>1, <2>2, <2>3
  <1> SUFFICES ASSUME NEW i \in 1 .. n + k, NEW j \in 1 .. n + k,
                      NEW a \in DOMAIN y, NEW b \in DOMAIN y,
                      i < j, x[i] = y[a], x[j] = y[b]
               PROVE  a < b
    BY <1>1 DEF InOrderOf, x
  <1>3. CASE i \in DOMAIN s /\ x[i] = s[i] /\ j \in DOMAIN s /\ x[j] = s[j]
    BY <1>3 DEF InOrderOf
  <1>4. CASE /\ i \in DOMAIN s /\ x[i] = s[i]
             /\ j - n \in DOMAIN t /\ x[j] = t[j - n] /\ j > n
    <2>1. y[a] \in Range(s) /\ y[b] \in Range(t)
      BY <1>4 DEF Range
    <2> QED BY <2>1 DEF Earlier
  <1>5. CASE /\ i - n \in DOMAIN t /\ x[i] = t[i - n] /\ i > n
             /\ j - n \in DOMAIN t /\ x[j] = t[j - n] /\ j > n
    <2>1. i - n < j - n
      BY <1>1
    <2> QED BY <1>5, <2>1 DEF InOrderOf
  <1>6. ~(i > n /\ j \in DOMAIN s)
    BY <1>1
  <1> QED BY <1>2, <1>3, <1>4, <1>5, <1>6

\* What taking the head does to the order: the head was accepted before the rest.
LEMMA TailOrder ==
  ASSUME NEW S, NEW s \in Seq(S), NEW y \in Seq(S), s # << >>, InOrderOf(s, y)
  PROVE  InOrderOf(Tail(s), y) /\ Earlier({Head(s)}, Range(Tail(s)), y)
  <1> DEFINE r == Tail(s)
             h == Head(s)
             n == Len(s)
  <1>1. /\ n \in Nat \ {0} /\ DOMAIN s = 1 .. n /\ DOMAIN r = 1 .. n - 1
        /\ h = s[1]
        /\ \A i \in 1 .. n - 1 : r[i] = s[i + 1]
    OBVIOUS
  <1> HIDE DEF r, h, n
  <1>2. \A i \in DOMAIN r : i + 1 \in DOMAIN s /\ 1 < i + 1 /\ 1 \in DOMAIN s
    BY <1>1
  <1>3. InOrderOf(r, y)
    <2> SUFFICES ASSUME NEW i \in DOMAIN r, NEW j \in DOMAIN r,
                        NEW a \in DOMAIN y, NEW b \in DOMAIN y,
                        i < j, r[i] = y[a], r[j] = y[b]
                 PROVE  a < b
      BY DEF InOrderOf
    <2>1. i + 1 \in DOMAIN s /\ j + 1 \in DOMAIN s /\ i + 1 < j + 1
      BY <1>1, <1>2
    <2>2. r[i] = s[i + 1] /\ r[j] = s[j + 1]
      BY <1>1
    <2> QED BY <2>1, <2>2 DEF InOrderOf
  <1>4. Earlier({h}, Range(r), y)
    <2> SUFFICES ASSUME NEW a \in DOMAIN y, NEW b \in DOMAIN y, y[a] = h, y[b] \in Range(r)
                 PROVE  a < b
      BY DEF Earlier
    <2>1. PICK i \in DOMAIN r : y[b] = r[i]
      BY DEF Range
    <2>2. i + 1 \in DOMAIN s /\ 1 < i + 1 /\ 1 \in DOMAIN s
      BY <1>2
    <2>3. r[i] = s[i + 1]
      BY <1>1
    <2> QED BY <1>1, <2>1, <2>2, <2>3 DEF InOrderOf
  <1> QED BY <1>3, <1>4 DEF r, h

\* One more message behind those in order.
LEMMA AppendOrder ==
  ASSUME NEW S, NEW s \in Seq(S), NEW e \in S, NEW y \in Seq(S),
         InOrderOf(s, y), Earlier(Range(s), {e}, y)
  PROVE  InOrderOf(Append(s, e), y)
  <1> DEFINE t == <<e>>
  <1>1. /\ t \in Seq(S) /\ DOMAIN t = {1} /\ t[1] = e /\ Append(s, e) = s \o t
    OBVIOUS
  <1>2. Range(t) = {e}
    BY <1>1 DEF Range
  <1>3. InOrderOf(t, y)
    BY <1>1 DEF InOrderOf
  <1> HIDE DEF t
  <1>4. Earlier(Range(s), Range(t), y)
    BY <1>2
  <1>5. InOrderOf(s \o t, y)
    BY <1>1, <1>3, <1>4, JoinedOrder
  <1> QED BY <1>1, <1>5

\* Nothing is out of order when nothing is accepted, taken or moved; the log may
\* be emptied and what was taken lost.
LEMMA OrderKept ==
  ASSUME OrderInv, log' = log \/ log' = << >>, UNCHANGED <<queue, accepted>>,
         Taken' \subseteq Taken,
         rival' = "no" => /\ rival = "no"
                          /\ \A s, u \in Services : Alive(s)' /\ Alive(u)' => s = u
  PROVE  OrderInv'
  <1>1. IsInjective(accepted')
    BY DEF OrderInv
  <1>2. ASSUME rival' = "no"
        PROVE  /\ \A s, u \in Services : Alive(s)' /\ Alive(u)' => s = u
               /\ InOrderOf(log', accepted') /\ InOrderOf(queue', accepted')
               /\ Earlier(Range(log'), Taken', accepted')
               /\ Earlier(Range(log'), Range(queue'), accepted')
               /\ Earlier(Taken', Range(queue'), accepted')
    <2>1. rival = "no" /\ \A s, u \in Services : Alive(s)' /\ Alive(u)' => s = u
      BY <1>2
    <2>2. /\ InOrderOf(log, accepted) /\ InOrderOf(queue, accepted)
          /\ Earlier(Range(log), Taken, accepted)
          /\ Earlier(Range(log), Range(queue), accepted)
          /\ Earlier(Taken, Range(queue), accepted)
      BY <2>1 DEF OrderInv
    <2>3. Range(log') \subseteq Range(log)
      BY DEF Range
    <2>4. InOrderOf(log', accepted')
      <3>1. CASE log' = log
        BY <2>2, <3>1
      <3>2. CASE log' = << >>
        BY <3>2 DEF InOrderOf
      <3> QED BY <3>1, <3>2
    <2>5. /\ Earlier(Range(log'), Taken', accepted')
          /\ Earlier(Range(log'), Range(queue'), accepted')
          /\ Earlier(Taken', Range(queue'), accepted')
      BY <2>2, <2>3 DEF Earlier
    <2> QED BY <2>1, <2>2, <2>4, <2>5
  <1> QED BY <1>1, <1>2 DEF OrderInv

\* A server that has never run has logged nothing.
LEMMA InitOrder == Init => OrderInv
  BY DEF Init, OrderInv, IsInjective, InOrderOf, Earlier, Alive

\* One service may be started where none is alive; with a second one the order
\* is given up (logging_helpers.c 57-76).
LEMMA StartOrder ==
  ASSUME Inv, OrderInv, init_logging_server \/ fork_fails \/ init_mq
  PROVE  OrderInv'
  <1>1. UNCHANGED <<queue, buff, log, accepted>>
    BY DEF init_logging_server, fork_fails, init_mq, StartServer, callers, services
  <1>2. Taken' = Taken
    BY <1>1 DEF Taken
  <1>3. ASSUME rival' = "no"
        PROVE  rival = "no" /\ \A s, u \in Services : Alive(s)' /\ Alive(u)' => s = u
    <2>1. CASE init_logging_server
      <3>1. /\ service' = [service EXCEPT ![starts'] = "create"]
            /\ rival' = IF \E s \in Services : Alive(s) THEN "yes" ELSE rival
        BY <2>1 DEF init_logging_server
      <3>2. rival = "no" /\ \A s \in Services : ~Alive(s)
        BY <1>3, <3>1
      <3>3. \A s \in Services : Alive(s)' => s = starts'
        BY <3>1, <3>2 DEF Alive, Inv, Shapes
      <3> QED BY <3>2, <3>3
    <2>2. CASE fork_fails \/ init_mq
      <3>1. UNCHANGED <<service, rival>>
        BY <2>2 DEF fork_fails, init_mq, services
      <3> QED BY <1>3, <3>1 DEF OrderInv, Alive
    <2> QED BY <2>1, <2>2
  <1> QED BY <1>1, <1>2, <1>3, OrderKept

\* The end of the server or of a service takes nothing and moves nothing.
LEMMA StopOrder ==
  ASSUME Inv, OrderInv,
         ServerKilled \/ Interrupt \/ \E s \in Services : ServiceKilled(s)
  PROVE  OrderInv'
  <1>1. UNCHANGED <<queue, log, accepted, rival>>
    BY DEF ServerKilled, Interrupt, ServiceKilled, StopThreads, callers
  <1>2. Taken' \subseteq Taken /\ \A s \in Services : Alive(s)' => Alive(s)
    <2>1. CASE ServerKilled
      BY <2>1 DEF ServerKilled, Taken, Alive
    <2>2. CASE Interrupt
      BY <2>2 DEF Interrupt, Taken, Alive
    <2>3. ASSUME NEW s \in Services, ServiceKilled(s)
          PROVE  Taken' \subseteq Taken /\ \A u \in Services : Alive(u)' => Alive(u)
      <3>1. /\ Alive(s) /\ service' = [service EXCEPT ![s] = "ended"]
            /\ buff' = [buff EXCEPT ![s] = None]
        BY <2>3 DEF ServiceKilled
      <3>2. Taken' \subseteq Taken
        BY <3>1, Untaken
      <3>3. \A u \in Services : Alive(u)' => Alive(u)
        BY <3>1 DEF Alive, Inv, Shapes
      <3> QED BY <3>2, <3>3
    <2> QED BY <2>1, <2>2, <2>3
  <1>3. rival' = "no" => /\ rival = "no"
                         /\ \A s, u \in Services : Alive(s)' /\ Alive(u)' => s = u
    BY <1>1, <1>2 DEF OrderInv
  <1> QED BY <1>1, <1>2, <1>3, OrderKept

\* What the queue takes is behind everything that was accepted
\* (logging_helpers.c 45-55).
LEMMA SendOrder ==
  ASSUME Inv, OrderInv, NEW t \in Threads, log_call(t) \/ log_mq(t)
  PROVE  OrderInv'
  <1> USE DEF callers, services
  <1>1. UNCHANGED <<service, buff, log, rival>>
    BY DEF log_call, log_mq, mq_send, mq_send_fails, Returns
  <1>2. /\ Taken' = Taken
        /\ \A s \in Services : Alive(s)' <=> Alive(s)
    BY <1>1 DEF Taken, Alive
  <1>3. CASE log_call(t) \/ mq_send_fails(t)
    <2>1. UNCHANGED <<queue, accepted>>
      BY <1>3 DEF log_call, mq_send_fails
    <2>2. rival' = "no" => /\ rival = "no"
                           /\ \A s, u \in Services : Alive(s)' /\ Alive(u)' => s = u
      BY <1>1, <1>2 DEF OrderInv
    <2> QED BY <1>1, <1>2, <2>1, <2>2, OrderKept
  <1>4. CASE mq_send(t)
    <2> DEFINE m == posting[t]
    <2>1. /\ pc[t] = "send" /\ queue' = Append(queue, m) /\ accepted' = Append(accepted, m)
      BY <1>4 DEF mq_send
    <2>2. m \in Messages /\ m \notin Range(accepted)
      BY <2>1, Numbers DEF Inv, TypeOK, FreshInv
    <2> HIDE DEF m
    <2>3. queue \in Seq(Messages) /\ accepted \in Seq(Messages) /\ log \in Seq(Messages)
      BY DEF Inv, TypeOK
    <2>4. /\ accepted' \in Seq(Messages) /\ queue' \in Seq(Messages)
          /\ Range(queue') = Range(queue) \cup {m}
          /\ IsInjective(accepted')
      BY <2>1, <2>2, <2>3, AppendMessage DEF OrderInv
    <2>5. /\ Range(log) \subseteq Range(accepted) /\ Range(queue) \subseteq Range(accepted)
          /\ Taken \subseteq Range(accepted)
      BY DEF Inv, PlaceInv
    <2>6. ASSUME rival' = "no"
          PROVE  /\ \A s, u \in Services : Alive(s)' /\ Alive(u)' => s = u
                 /\ InOrderOf(log', accepted') /\ InOrderOf(queue', accepted')
                 /\ Earlier(Range(log'), Taken', accepted')
                 /\ Earlier(Range(log'), Range(queue'), accepted')
                 /\ Earlier(Taken', Range(queue'), accepted')
      <3>1. /\ \A s, u \in Services : Alive(s) /\ Alive(u) => s = u
            /\ InOrderOf(log, accepted) /\ InOrderOf(queue, accepted)
            /\ Earlier(Range(log), Taken, accepted)
            /\ Earlier(Range(log), Range(queue), accepted)
            /\ Earlier(Taken, Range(queue), accepted)
        BY <1>1, <2>6 DEF OrderInv
      <3>2. /\ \A x : (\A i \in DOMAIN x : x[i] \in Range(accepted)) /\ InOrderOf(x, accepted)
                        => InOrderOf(x, accepted')
            /\ \A A, B : A \subseteq Range(accepted) /\ Earlier(A, B, accepted)
                        => Earlier(A, B, accepted') /\ Earlier(A, B \cup {m}, accepted')
        BY <2>1, <2>2, <2>3, AcceptedLast
      <3>3. /\ \A i \in DOMAIN log : log[i] \in Range(accepted)
            /\ \A i \in DOMAIN queue : queue[i] \in Range(accepted)
        BY <2>5 DEF Range
      <3>4. InOrderOf(log, accepted') /\ InOrderOf(queue, accepted')
        BY <3>1, <3>2, <3>3
      <3>5. Earlier(Range(queue), {}, accepted)
        BY DEF Earlier
      <3>6. Earlier(Range(queue), {m}, accepted')
        <4>1. Earlier(Range(queue), {} \cup {m}, accepted')
          BY <2>5, <3>2, <3>5, Zenon
        <4>2. {} \cup {m} = {m}
          OBVIOUS
        <4> QED BY <4>1, <4>2
      <3>7. InOrderOf(queue', accepted')
        BY <2>1, <2>2, <2>3, <2>4, <3>4, <3>6, AppendOrder
      <3>8. /\ Earlier(Range(log), Taken, accepted')
            /\ Earlier(Range(log), Range(queue'), accepted')
            /\ Earlier(Taken, Range(queue'), accepted')
        BY <2>4, <2>5, <3>1, <3>2
      <3> QED BY <1>1, <1>2, <3>1, <3>4, <3>7, <3>8
    <2> QED BY <2>4, <2>6 DEF OrderInv
  <1> QED BY <1>3, <1>4 DEF log_mq

\* A service that is alone takes the first of the queue and writes it behind
\* the rest of the log (logging/main.c 28-48).
LEMMA ServiceOrder ==
  ASSUME Inv, OrderInv, NEW s \in Services, ServiceMain(s)
  PROVE  OrderInv'
  <1> USE DEF callers, services
  <1>1. /\ service \in [Services -> {"none", "create", "truncate", "read", "append", "ended"}]
        /\ buff \in [Services -> Messages \cup {None}]
        /\ queue \in Seq(Messages) /\ log \in Seq(Messages) /\ accepted \in Seq(Messages)
        /\ \A u \in Services : buff[u] # None => service[u] = "append"
    BY DEF Inv, TypeOK, Shapes
  <1>2. /\ UNCHANGED <<accepted, rival>>
        /\ \A u \in Services : Alive(u)' <=> Alive(u)
        /\ Alive(s)
    BY <1>1 DEF ServiceMain, create_mq, Truncate, read_mq, AppendToLog, Service, Alive
  <1>3. rival' = "no" => /\ rival = "no"
                         /\ \A u, v \in Services : Alive(u)' /\ Alive(v)' => u = v
    BY <1>2 DEF OrderInv
  <1>4. CASE create_mq(s) \/ Truncate(s)
    <2>1. log' = log \/ log' = << >>
      BY <1>4 DEF create_mq, Truncate
    <2>2. UNCHANGED <<queue, buff>>
      BY <1>4 DEF create_mq, Truncate
    <2>3. Taken' \subseteq Taken
      BY <2>2 DEF Taken
    <2> QED BY <1>2, <1>3, <2>1, <2>2, <2>3, OrderKept
  <1>5. ASSUME rival' = "no"
        PROVE  /\ \A u, v \in Services : Alive(u)' /\ Alive(v)' => u = v
               /\ \A u \in Services : u # s => buff[u] = None
               /\ InOrderOf(log, accepted) /\ InOrderOf(queue, accepted)
               /\ Earlier(Range(log), Taken, accepted)
               /\ Earlier(Range(log), Range(queue), accepted)
               /\ Earlier(Taken, Range(queue), accepted)
    <2>1. \A u \in Services : buff[u] # None => Alive(u)
      BY <1>1 DEF Alive
    <2> QED BY <1>2, <1>3, <1>5, <2>1 DEF OrderInv
  <1>6. CASE read_mq(s)
    <2> DEFINE m == Head(queue)
    <2>1. /\ queue # << >> /\ queue' = Tail(queue) /\ log' = log
          /\ buff' = [buff EXCEPT ![s] = m]
      BY <1>6 DEF read_mq
    <2>2. m \in Range(queue) /\ Range(Tail(queue)) \subseteq Range(queue)
      BY <1>1, <2>1, TailRange DEF Inv, PlaceInv
    <2> HIDE DEF m
    <2>3. ASSUME rival' = "no"
          PROVE  /\ InOrderOf(log', accepted') /\ InOrderOf(queue', accepted')
                 /\ Earlier(Range(log'), Taken', accepted')
                 /\ Earlier(Range(log'), Range(queue'), accepted')
                 /\ Earlier(Taken', Range(queue'), accepted')
      <3>1. Taken' \subseteq {m}
        BY <1>1, <1>5, <2>1, <2>3 DEF Taken
      <3>2. InOrderOf(Tail(queue), accepted) /\ Earlier({m}, Range(Tail(queue)), accepted)
        BY <1>1, <1>5, <2>1, <2>3, TailOrder DEF m
      <3>3. /\ InOrderOf(log, accepted)
            /\ Earlier(Range(log), Range(queue), accepted)
        BY <1>5, <2>3
      <3>4. /\ Earlier(Range(log), Taken', accepted)
            /\ Earlier(Range(log), Range(Tail(queue)), accepted)
            /\ Earlier(Taken', Range(Tail(queue)), accepted)
        BY <2>2, <3>1, <3>2, <3>3 DEF Earlier
      <3> QED BY <1>2, <2>1, <3>2, <3>3, <3>4
    <2> QED BY <1>2, <1>5, <2>3 DEF OrderInv
  <1>7. CASE AppendToLog(s)
    <2> DEFINE m == buff[s]
    <2>1. /\ service[s] = "append" /\ queue' = queue /\ log' = Append(log, m)
          /\ buff' = [buff EXCEPT ![s] = None]
      BY <1>7 DEF AppendToLog, Service
    <2>2. m \in Messages /\ m # None
      BY <2>1, Numbers DEF Inv, TypeOK
    <2>3. m \in Taken
      BY <2>2 DEF Taken
    <2>4. Range(Append(log, m)) = Range(log) \cup {m}
      BY <1>1, <2>2, AppendMessage
    <2>5. ASSUME rival' = "no"
          PROVE  /\ InOrderOf(log', accepted') /\ InOrderOf(queue', accepted')
                 /\ Earlier(Range(log'), Taken', accepted')
                 /\ Earlier(Range(log'), Range(queue'), accepted')
                 /\ Earlier(Taken', Range(queue'), accepted')
      <3>1. Taken' = {}
        BY <1>1, <1>5, <2>1, <2>5 DEF Taken
      <3> HIDE DEF m
      <3>2. /\ InOrderOf(log, accepted) /\ InOrderOf(queue, accepted)
            /\ Earlier(Range(log), Range(queue), accepted)
            /\ Earlier(Range(log), {m}, accepted)
            /\ Earlier({m}, Range(queue), accepted)
        BY <1>5, <2>3, <2>5 DEF Earlier
      <3>3. InOrderOf(Append(log, m), accepted)
        BY <1>1, <2>2, <3>2, AppendOrder
      <3>4. Earlier(Range(Append(log, m)), Range(queue), accepted)
        BY <2>4, <3>2 DEF Earlier
      <3>5. Earlier(Range(log'), {}, accepted) /\ Earlier({}, Range(queue), accepted)
        BY DEF Earlier
      <3> QED BY <1>2, <2>1, <3>1, <3>2, <3>3, <3>4, <3>5
    <2> QED BY <1>2, <1>5, <2>5 DEF OrderInv
  <1> QED BY <1>4, <1>6, <1>7 DEF ServiceMain

\* Every step keeps the order.
LEMMA NextOrder == Inv /\ OrderInv /\ [Next]_vars => OrderInv'
  <1> SUFFICES ASSUME Inv, OrderInv, [Next]_vars PROVE OrderInv'
    OBVIOUS
  <1>1. CASE init_logging_server \/ fork_fails \/ init_mq
    BY <1>1, StartOrder
  <1>2. CASE \E t \in Threads : log_call(t) \/ log_mq(t)
    BY <1>2, SendOrder
  <1>3. CASE ServerKilled \/ Interrupt \/ \E s \in Services : ServiceKilled(s)
    BY <1>3, StopOrder
  <1>4. CASE \E s \in Services : ServiceMain(s)
    BY <1>4, ServiceOrder
  <1>5. CASE UNCHANGED vars
    <2>1. UNCHANGED <<queue, log, accepted, buff, service, rival>>
      BY <1>5 DEF vars, callers, services
    <2>2. Taken' = Taken
      BY <2>1 DEF Taken
    <2>3. rival' = "no" => /\ rival = "no"
                           /\ \A s, u \in Services : Alive(s)' /\ Alive(u)' => s = u
      BY <2>1 DEF OrderInv, Alive
    <2> QED BY <2>1, <2>2, <2>3, OrderKept
  <1> QED BY <1>1, <1>2, <1>3, <1>4, <1>5 DEF Next

LEMMA AlwaysOrder == Spec => []OrderInv
  BY AlwaysInv, InitOrder, NextOrder, PTL DEF Spec

\* What the log, the service and the queue hold, one behind the other, is all
\* that was accepted and not lost, in the order in which the queue took it, as
\* long as there was one service at a time (logging_helpers.c 45-55,
\* logging/main.c 28-48).
THEOREM LogKeepsOrder == Spec => []LogInOrder
  <1>1. Inv /\ OrderInv => LogInOrder
    <2> SUFFICES ASSUME Inv, OrderInv, rival = "no"
                 PROVE  LET held == IF Taken = {} THEN << >> ELSE <<CHOOSE m \in Taken : TRUE>>
                            onTheWay == log \o held \o queue
                        IN  /\ Range(onTheWay) = Range(accepted) \ lost
                            /\ InOrderOf(onTheWay, accepted)
      BY DEF LogInOrder
    <2> DEFINE held == IF Taken = {} THEN << >> ELSE <<CHOOSE m \in Taken : TRUE>>
               written == log \o held
    <2>1. /\ log \in Seq(Messages) /\ queue \in Seq(Messages) /\ accepted \in Seq(Messages)
          /\ Taken \subseteq Messages
      BY DEF Inv, TypeOK, Shapes, Taken
    <2>2. \A m, k \in Taken : m = k
      <3>1. \A s \in Services : buff[s] # None => Alive(s)
        BY DEF Inv, TypeOK, Alive
      <3> QED BY <3>1 DEF OrderInv, Taken
    <2>3. held \in Seq(Messages) /\ Range(held) = Taken /\ InOrderOf(held, accepted)
      <3>1. CASE Taken = {}
        <4>1. held = << >>
          BY <3>1
        <4> QED BY <3>1, <4>1 DEF Range, InOrderOf
      <3>2. CASE Taken # {}
        <4>1. PICK m \in Taken : m = CHOOSE k \in Taken : TRUE
          BY <3>2
        <4>2. held = <<m>> /\ m \in Messages /\ Taken = {m}
          BY <2>1, <2>2, <3>2, <4>1
        <4> HIDE DEF held
        <4>3. DOMAIN held = {1} /\ held[1] = m /\ held \in Seq(Messages)
          BY <4>2
        <4> QED BY <4>2, <4>3 DEF Range, InOrderOf
      <3> QED BY <3>1, <3>2
    <2> HIDE DEF held
    <2>4. /\ InOrderOf(log, accepted) /\ InOrderOf(queue, accepted)
          /\ Earlier(Range(log), Range(held), accepted)
          /\ Earlier(Range(log), Range(queue), accepted)
          /\ Earlier(Range(held), Range(queue), accepted)
      BY <2>3 DEF OrderInv
    <2>5. written \in Seq(Messages) /\ Range(written) = Range(log) \cup Range(held)
      BY <2>1, <2>3, JoinedRange
    <2>6. InOrderOf(written, accepted)
      BY <2>1, <2>3, <2>4, JoinedOrder
    <2> HIDE DEF written
    <2>7. Earlier(Range(written), Range(queue), accepted)
      BY <2>4, <2>5 DEF Earlier
    <2>8. InOrderOf(written \o queue, accepted)
      BY <2>1, <2>4, <2>5, <2>6, <2>7, JoinedOrder
    <2>9. Range(written \o queue) = Range(log) \cup Taken \cup Range(queue)
      BY <2>1, <2>3, <2>5, JoinedRange
    <2>10. Range(written \o queue) = Range(accepted) \ lost
      BY <2>9 DEF Inv, PlaceInv
    <2> QED BY <2>8, <2>10 DEF held, written
  <1> QED BY <1>1, AlwaysInv, AlwaysOrder, PTL
=============================================================================
