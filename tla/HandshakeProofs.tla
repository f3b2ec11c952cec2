-------------------------- MODULE HandshakeProofs --------------------------
(***************************************************************************)
(* Theorems about Handshake, for every finite set of clients and every     *)
(* number of starts and descriptors: the types; that a connection has one  *)
(* client and one worker, or nobody when the master ended before the fork, *)
(* if clients run under names of their own or in pairs that are started    *)
(* once; and that the master stays up until its descriptors are used up if *)
(* names are the clients' own, users open one connection at a time, nobody *)
(* is killed and fork does not fail.                                       *)
(***************************************************************************)
EXTENDS Handshake, FiniteSetTheorems, FunctionTheorems, SequenceTheorems, TLAPS

\* FIFOs that a client has accounted for: its own when it is created, and the
\* master's when the url is written.  A start that is over has had both.
Stage(step) ==
  IF step = "prompt" THEN 0 ELSE IF step \in {"connect", "text"} THEN 1 ELSE 2
Spent == [c \in Clients |-> 2 * (starts[c] - 1) + Stage(pc[c])]

\* The numbered FIFOs that have been accounted for, by client.
Spending(f) == {x \in Clients \X (1 .. 2 * MaxStarts) : x[2] <= f[x[1]]}

\* The texts among the tokens of a pipe.
Texts(s) == Cardinality({k \in 1 .. Len(s) : s[k] # Zero})

\* Texts that the master has read and not yet made a FIFO for.
Unused == IF pc[Master] \in {"url", "hangup", "create"} THEN Len(url) ELSE 0

Tokens == npipes + Texts(data[In]) + Unused
CountInv == Tokens <= 1 + Cardinality(Spending(Spent))

\* The pipe of the server's FIFO is no other FIFO's.
NumberInv ==
  /\ \A f \in Paths : fs[f] = Absent \/ fs[f] \in 2 .. npipes
  /\ \A p \in Procs : res[p] = Absent \/ res[p] \in 2 .. npipes
  /\ \A p \in Procs : req[p] = Absent \/ req[p] \in 2 .. npipes

\* The master goes on with a url only if it is somebody's.
Known == {"response", "echo", "request", "ack"}
HostInv == pc[Master] \in Known => Host \in Names

-----------------------------------------------------------------------------
(* Constants and operators.                                                *)

\* Pipes are numbered from 1, the server's FIFO first; there is a FIFO for each
\* name and kind, and nobody has two roles.
LEMMA Sorts ==
  /\ MaxStarts \in Nat \ {0} /\ Cardinality(Clients) \in Nat
  /\ MaxPipes \in Nat \ {0} /\ Pipe = 1 .. MaxPipes
  /\ In = 1 /\ Absent = 0 /\ In \in Pipe /\ Absent \notin Pipe
  /\ Procs = Clients \cup {Master} /\ Holders = Procs \cup {Forked}
  /\ Master \notin Clients /\ Forked \notin Procs
  /\ \A c \in Clients : Name[c] \in Names
  /\ Zero \notin Names /\ Nobody \notin Names /\ Nobody # Zero
  <1>1. MaxStarts \in Nat \ {0} /\ Cardinality(Clients) \in Nat
    BY HandshakeAssumption, FS_CardinalityType
  <1>2. MaxPipes \in Nat \ {0}
    <2>1. MaxStarts * Cardinality(Clients) \in Nat
      BY <1>1
    <2>2. MaxPipes = 1 + 2 * MaxStarts * Cardinality(Clients)
      BY DEF MaxPipes
    <2>3. 2 * MaxStarts * Cardinality(Clients) = 2 * (MaxStarts * Cardinality(Clients))
      BY <1>1
    <2> QED BY <2>1, <2>2, <2>3
  <1>3. Master # Forked /\ Nobody # Zero
    BY DEF Master, Forked, Nobody, Zero
  <1> QED BY <1>1, <1>2, <1>3, HandshakeAssumption
          DEF Pipe, In, Absent, Procs, Holders, Names

\* A text or a terminator at the end of a pipe.
LEMMA TextsAppend ==
  ASSUME NEW s \in Seq(Names \cup {Zero}), NEW e \in Names \cup {Zero}
  PROVE  /\ Texts(s) \in Nat /\ Texts(Append(s, e)) \in Nat
         /\ Texts(Append(s, e)) = IF e = Zero THEN Texts(s) ELSE Texts(s) + 1
  <1> DEFINE n == Len(s)
             t == Append(s, e)
             S == {k \in 1 .. n : s[k] # Zero}
             T == {k \in 1 .. Len(t) : t[k] # Zero}
  <1>1. n \in Nat /\ Len(t) = n + 1 /\ t[n + 1] = e /\ \A k \in 1 .. n : t[k] = s[k]
    OBVIOUS
  <1>2. IsFiniteSet(1 .. n) /\ S \in SUBSET (1 .. n)
    BY <1>1, FS_Interval
  <1>3. IsFiniteSet(S) /\ Cardinality(S) \in Nat
    BY <1>2, FS_Subset, FS_CardinalityType
  <1>4. n + 1 \notin S
    BY <1>1
  <1> HIDE DEF n, t
  <1>5. T = IF e = Zero THEN S ELSE S \cup {n + 1}
    <2>1. \A k : k \in 1 .. n + 1 <=> k \in 1 .. n \/ k = n + 1
      BY <1>1
    <2> QED BY <1>1, <2>1
  <1>6. Cardinality(S \cup {n + 1}) = Cardinality(S) + 1
    BY <1>3, <1>4, FS_AddElement
  <1>7. Texts(s) = Cardinality(S) /\ Texts(t) = Cardinality(T)
    BY DEF Texts, n
  <1> HIDE DEF S, T
  <1> QED BY <1>3, <1>5, <1>6, <1>7 DEF t

\* The head of a pipe is taken.
LEMMA TextsTail ==
  ASSUME NEW s \in Seq(Names \cup {Zero}), s # << >>
  PROVE  /\ Texts(s) \in Nat /\ Texts(Tail(s)) \in Nat
         /\ Texts(s) = IF Head(s) = Zero THEN Texts(Tail(s)) ELSE Texts(Tail(s)) + 1
  <1> DEFINE n == Len(s)
             t == Tail(s)
             S == {k \in 1 .. n : s[k] # Zero}
             T == {k \in 1 .. Len(t) : t[k] # Zero}
             f == [k \in T |-> k + 1]
  <1>1. /\ n \in Nat \ {0} /\ Len(t) = n - 1 /\ Head(s) = s[1]
        /\ \A k \in 1 .. n - 1 : t[k] = s[k + 1]
    OBVIOUS
  <1>2. IsFiniteSet(1 .. Len(t)) /\ T \in SUBSET (1 .. Len(t))
    BY <1>1, FS_Interval
  <1>3. IsFiniteSet(T) /\ Cardinality(T) \in Nat
    BY <1>2, FS_Subset, FS_CardinalityType
  <1>4. IsFiniteSet(1 .. n) /\ S \in SUBSET (1 .. n)
    BY <1>1, FS_Interval
  <1>5. IsFiniteSet(S) /\ Cardinality(S) \in Nat
    BY <1>4, FS_Subset, FS_CardinalityType
  <1>6. Texts(s) = Cardinality(S) /\ Texts(t) = Cardinality(T)
    BY DEF Texts
  <1> HIDE DEF n, t
  <1>7. f \in Bijection(T, S \ {1})
    <2>1. \A k \in T : k \in Nat /\ f[k] = k + 1 /\ k + 1 \in S \ {1}
      BY <1>1
    <2>2. \A j \in S \ {1} : j - 1 \in T /\ j = (j - 1) + 1
      BY <1>1
    <2>3. f \in [T -> S \ {1}]
      BY <2>1
    <2>4. \A a, b \in T : f[a] = f[b] => a = b
      BY <2>1
    <2>5. \A j \in S \ {1} : \E k \in T : f[k] = j
      BY <2>1, <2>2
    <2> HIDE DEF f, S, T
    <2> QED BY <2>3, <2>4, <2>5, Fun_IsBij
  <1> HIDE DEF f
  <1>8. Cardinality(S \ {1}) = Cardinality(T)
    <2>1. ExistsBijection(T, S \ {1})
      BY <1>7, Fun_ExistsBij
    <2> QED BY <1>3, <2>1, FS_Bijection
  <1>9. Cardinality(S \ {1}) = IF 1 \in S THEN Cardinality(S) - 1 ELSE Cardinality(S)
    BY <1>5, FS_RemoveElement
  <1>10. 1 \in S <=> Head(s) # Zero
    BY <1>1
  <1> HIDE DEF S, T
  <1> QED BY <1>3, <1>5, <1>6, <1>8, <1>9, <1>10 DEF t

\* There are FIFOs enough for what the clients can account for, and to spare.
LEMMA SpendingBound ==
  ASSUME NEW f
  PROVE  /\ IsFiniteSet(Spending(f)) /\ Cardinality(Spending(f)) \in Nat
         /\ 1 + Cardinality(Spending(f)) <= MaxPipes
  <1> DEFINE m == 2 * MaxStarts
             all == Clients \X (1 .. m)
  <1>1. m \in Nat \ {0}
    BY Sorts
  <1>2. IsFiniteSet(1 .. m) /\ Cardinality(1 .. m) = m
    BY <1>1, FS_Interval
  <1>3. IsFiniteSet(all) /\ Cardinality(all) = Cardinality(Clients) * m
    BY <1>2, HandshakeAssumption, FS_Product
  <1>4. Spending(f) \in SUBSET all
    BY DEF Spending
  <1>5. IsFiniteSet(Spending(f)) /\ Cardinality(Spending(f)) <= Cardinality(all)
    BY <1>3, <1>4, FS_Subset
  <1>6. Cardinality(Spending(f)) \in Nat
    BY <1>5, FS_CardinalityType
  <1>7. Cardinality(Clients) * m = m * Cardinality(Clients) /\ m * Cardinality(Clients) \in Nat
    BY <1>1, Sorts
  <1>8. MaxPipes = 1 + m * Cardinality(Clients)
    BY DEF MaxPipes
  <1> HIDE DEF m, all
  <1> QED BY <1>3, <1>5, <1>6, <1>7, <1>8

\* Who goes on has accounted for as much as before; a client that accounts for
\* one more makes room for it.
LEMMA SpendingGrows ==
  ASSUME NEW f \in [Clients -> Nat], NEW g \in [Clients -> Nat],
         \A c \in Clients : f[c] <= g[c]
  PROVE  /\ Cardinality(Spending(f)) <= Cardinality(Spending(g))
         /\ (\E c \in Clients : f[c] < g[c] /\ g[c] <= 2 * MaxStarts) =>
              Cardinality(Spending(f)) + 1 <= Cardinality(Spending(g))
  <1>1. IsFiniteSet(Spending(f)) /\ IsFiniteSet(Spending(g))
    BY SpendingBound
  <1>2. Cardinality(Spending(f)) \in Nat /\ Cardinality(Spending(g)) \in Nat
    BY SpendingBound
  <1>3. Spending(f) \in SUBSET Spending(g)
    BY Sorts DEF Spending
  <1>4. Cardinality(Spending(f)) <= Cardinality(Spending(g))
    BY <1>1, <1>3, FS_Subset
  <1>5. ASSUME NEW c \in Clients, f[c] < g[c], g[c] <= 2 * MaxStarts
        PROVE  Cardinality(Spending(f)) + 1 <= Cardinality(Spending(g))
    <2> DEFINE x == <<c, g[c]>>
    <2>1. g[c] \in 1 .. 2 * MaxStarts
      BY <1>5, Sorts
    <2>2. x \in Spending(g) /\ x \notin Spending(f)
      BY <1>5, <2>1 DEF Spending
    <2>3. Spending(f) # Spending(g)
      BY <2>2
    <2> QED BY <1>1, <1>2, <1>3, <1>4, <2>3, FS_Subset
  <1> QED BY <1>4, <1>5

-----------------------------------------------------------------------------
(* What steps have in common.                                              *)

Token == Names \cup {Zero, Nobody}
Steps == {"listen", "accept", "url", "create", "prompt", "connect", "text", "zero", "hangup",
          "response", "echo", "request", "ack", "open", "unlink", "exited"}

\* The types of what is counted.
LEMMA Counted ==
  ASSUME TypeOK
  PROVE  /\ Spent \in [Clients -> Nat] /\ \A c \in Clients : Spent[c] <= 2 * MaxStarts
         /\ npipes \in Nat \ {0} /\ Texts(data[In]) \in Nat /\ Unused \in Nat /\ Tokens \in Nat
  <1>1. \A c \in Clients : starts[c] \in 1 .. MaxStarts /\ Stage(pc[c]) \in 0 .. 2
    BY Sorts DEF TypeOK, Stage
  <1>2. Spent \in [Clients -> Nat] /\ \A c \in Clients : Spent[c] <= 2 * MaxStarts
    BY <1>1, Sorts DEF Spent
  <1>3. npipes \in Nat \ {0} /\ Unused \in Nat
    BY Sorts DEF TypeOK, Unused
  <1>4. data[In] \in Seq(Names \cup {Zero})
    BY DEF TypeOK
  <1>5. Texts(data[In]) \in Nat
    BY <1>4, TextsAppend
  <1> QED BY <1>2, <1>3, <1>5 DEF Tokens

\* A pipe that loses its data has no text.
LEMMA TextsLost ==
  ASSUME NEW s \in Seq(Names \cup {Zero}), NEW t, t = s \/ t = << >>
  PROVE  Texts(t) <= Texts(s)
  <1>1. {k \in 1 .. Len(<< >>) : << >>[k] # Zero} = {}
    OBVIOUS
  <1>2. Texts(<< >>) = 0
    BY <1>1, FS_EmptySet DEF Texts
  <1>3. Texts(s) \in Nat
    BY TextsAppend
  <1> QED BY <1>2, <1>3

\* A step that uses no text and no FIFO that is not accounted for keeps the
\* count.
LEMMA CountKept ==
  ASSUME TypeOK, CountInv,
         Spent' \in [Clients -> Nat], Tokens' \in Nat,
         \A c \in Clients : Spent[c] <= Spent'[c] /\ Spent'[c] <= 2 * MaxStarts,
         \/ Tokens' <= Tokens
         \/ Tokens' <= Tokens + 1 /\ \E c \in Clients : Spent[c] < Spent'[c]
  PROVE  CountInv' /\ Tokens' <= MaxPipes
  <1>1. Spent \in [Clients -> Nat] /\ Tokens \in Nat
    BY Counted
  <1> DEFINE f == Spent
             g == Spent'
  <1>2. f \in [Clients -> Nat] /\ g \in [Clients -> Nat] /\ \A c \in Clients : f[c] <= g[c]
    BY <1>1
  <1>3. Tokens <= 1 + Cardinality(Spending(f))
    BY DEF CountInv
  <1>4. (\E c \in Clients : f[c] < g[c]) => \E c \in Clients : f[c] < g[c] /\ g[c] <= 2 * MaxStarts
    OBVIOUS
  <1>5. \/ Tokens' <= Tokens
        \/ Tokens' <= Tokens + 1 /\ \E c \in Clients : f[c] < g[c]
    OBVIOUS
  <1>6. /\ Cardinality(Spending(f)) \in Nat /\ Cardinality(Spending(g)) \in Nat
        /\ 1 + Cardinality(Spending(g)) <= MaxPipes
    BY SpendingBound
  <1>7. CountInv' <=> Tokens' <= 1 + Cardinality(Spending(g))
    BY DEF CountInv, Spending
  <1> HIDE DEF f, g
  <1>8. /\ Cardinality(Spending(f)) <= Cardinality(Spending(g))
        /\ (\E c \in Clients : f[c] < g[c]) =>
             Cardinality(Spending(f)) + 1 <= Cardinality(Spending(g))
    BY <1>2, <1>4, SpendingGrows
  <1>9. Tokens' <= 1 + Cardinality(Spending(g))
    BY <1>1, <1>3, <1>5, <1>6, <1>8
  <1> QED BY <1>1, <1>6, <1>7, <1>9, Sorts

\* A process goes to another step.
LEMMA Moved ==
  ASSUME TypeOK, NEW p \in Procs, NEW s \in Steps, pc' = [pc EXCEPT ![p] = s],
         UNCHANGED starts, p \in Clients => Stage(pc[p]) <= Stage(s)
  PROVE  /\ pc' \in [Procs -> Steps]
         /\ Spent' \in [Clients -> Nat]
         /\ \A c \in Clients : Spent[c] <= Spent'[c] /\ Spent'[c] <= 2 * MaxStarts
         /\ p \in Clients /\ Stage(pc[p]) < Stage(s) => Spent[p] < Spent'[p]
  <1>1. pc' \in [Procs -> Steps] /\ \A q \in Procs : pc'[q] = IF q = p THEN s ELSE pc[q]
    BY DEF TypeOK, Steps
  <1>2. \A c \in Clients : starts[c] \in 1 .. MaxStarts /\ Stage(pc[c]) \in 0 .. 2
                           /\ Stage(pc'[c]) \in 0 .. 2
    BY Sorts DEF TypeOK, Stage
  <1>3. \A c \in Clients : /\ Spent[c] = 2 * (starts[c] - 1) + Stage(pc[c])
                           /\ Spent'[c] = 2 * (starts[c] - 1) + Stage(pc'[c])
    BY DEF Spent, Stage
  <1>4. Spent' \in [Clients -> Nat]
    <2>1. \A c \in Clients : 2 * (starts[c] - 1) + Stage(pc'[c]) \in Nat
      BY <1>2, Sorts
    <2> QED BY <2>1 DEF Spent, Stage
  <1>5. \A c \in Clients : Stage(pc[c]) <= Stage(pc'[c])
    BY <1>1, <1>2, Sorts
  <1>6. \A c \in Clients : Spent[c] <= Spent'[c] /\ Spent'[c] <= 2 * MaxStarts
    BY <1>2, <1>3, <1>5, Sorts
  <1>7. p \in Clients /\ Stage(pc[p]) < Stage(s) => Spent[p] < Spent'[p]
    BY <1>1, <1>2, <1>3
  <1> QED BY <1>1, <1>4, <1>6, <1>7

EndTypes ==
  /\ rd \in [Pipe -> SUBSET Holders] /\ wr \in [Pipe -> SUBSET Holders]
  /\ data \in [Pipe -> Seq(Token)] /\ data[In] \in Seq(Names \cup {Zero})

ProcTypes ==
  /\ blocked \in [Procs -> Pipe \cup {Absent}]
  /\ res \in [Procs -> Pipe \cup {Absent}] /\ req \in [Procs -> Pipe \cup {Absent}]

\* Opening an end.
LEMMA OpenTypes ==
  ASSUME TypeOK, NEW p \in Procs, NEW i \in Pipe, OpenRead(p, i) \/ OpenWrite(p, i)
  PROVE  blocked' \in [Procs -> Pipe \cup {Absent}] /\ EndTypes' /\ data' = data
  <1>1. blocked' \in [Procs -> Pipe \cup {Absent}]
    <2>1. \A q \in Procs : blocked[q] \in Pipe \cup {Absent}
      BY DEF TypeOK
    <2>2. PICK others : Open(p, i, others)
      BY DEF OpenRead, OpenWrite
    <2> QED BY <2>1, <2>2 DEF Open
  <1>2. /\ rd \in [Pipe -> SUBSET Holders] /\ wr \in [Pipe -> SUBSET Holders]
        /\ rd[i] \cup {p} \in SUBSET Holders /\ wr[i] \cup {p} \in SUBSET Holders
    BY Sorts DEF TypeOK
  <1>3. rd' = [rd EXCEPT ![i] = rd[i] \cup {p}] \/ rd' = rd
    BY DEF OpenRead, OpenWrite
  <1>4. wr' = [wr EXCEPT ![i] = wr[i] \cup {p}] \/ wr' = wr
    BY DEF OpenRead, OpenWrite
  <1>5. rd' \in [Pipe -> SUBSET Holders]
    BY <1>2, <1>3
  <1>6. wr' \in [Pipe -> SUBSET Holders]
    BY <1>2, <1>4
  <1> QED BY <1>1, <1>5, <1>6 DEF TypeOK, EndTypes, OpenRead, OpenWrite, In, Token

\* Closing ends; a pipe keeps its data or loses all of it.
LEMMA CloseTypes ==
  ASSUME TypeOK, NEW p, NEW S, Close(p, S)
  PROVE  /\ EndTypes'
         /\ \A i \in Pipe : data'[i] = data[i] \/ data'[i] = << >>
         /\ Texts(data'[In]) <= Texts(data[In])
  <1>1. rd' \in [Pipe -> SUBSET Holders] /\ wr' \in [Pipe -> SUBSET Holders]
    <2>1. \A i \in Pipe : rd[i] \in SUBSET Holders /\ wr[i] \in SUBSET Holders
      BY DEF TypeOK
    <2>2. \A i \in Pipe : rd[i] \ {p} \in SUBSET Holders /\ wr[i] \ {p} \in SUBSET Holders
      BY <2>1
    <2> QED BY <2>1, <2>2 DEF Close
  <1>2. data' \in [Pipe -> Seq(Token)]
    BY DEF TypeOK, Close, Token
  <1>3. \A i \in Pipe : data'[i] = data[i] \/ data'[i] = << >>
    BY DEF Close
  <1>4. data[In] \in Seq(Names \cup {Zero})
    BY DEF TypeOK
  <1>5. data'[In] \in Seq(Names \cup {Zero})
    <2>1. data'[In] = data[In] \/ data'[In] = << >>
      BY <1>3, Sorts
    <2>2. << >> \in Seq(Names \cup {Zero})
      OBVIOUS
    <2> QED BY <1>4, <2>1, <2>2
  <1> QED BY <1>1, <1>2, <1>3, <1>4, <1>5, TextsLost, Sorts DEF EndTypes, In

\* The end of a process.
LEMMA EndsTypes ==
  ASSUME TypeOK, NumberInv, NEW p \in Procs, Ends(p)
  PROVE  /\ pc' = [pc EXCEPT ![p] = "exited"] /\ EndTypes' /\ ProcTypes'
         /\ \A q \in Procs : res'[q] \in {Absent, res[q]} /\ req'[q] \in {Absent, req[q]}
         /\ Texts(data'[In]) <= Texts(data[In])
  <1>1. EndTypes' /\ Texts(data'[In]) <= Texts(data[In])
    BY CloseTypes DEF Ends
  <1>2. /\ pc' = [pc EXCEPT ![p] = "exited"] /\ blocked' = [blocked EXCEPT ![p] = Absent]
        /\ res' = [res EXCEPT ![p] = Absent] /\ req' = [req EXCEPT ![p] = Absent]
    BY DEF Ends, Goto
  <1>3. ProcTypes'
    BY <1>2 DEF TypeOK, ProcTypes
  <1>4. \A q \in Procs : res'[q] \in {Absent, res[q]} /\ req'[q] \in {Absent, req[q]}
    BY <1>2 DEF TypeOK
  <1> QED BY <1>1, <1>2, <1>3, <1>4

\* Writing a token, or SIGPIPE.
LEMMA SendTypes ==
  ASSUME TypeOK, NumberInv, NEW p \in Procs, NEW i, NEW token \in Token, NEW next,
         i = In => token \in Names \cup {Zero}, Send(p, i, token, next)
  PROVE  /\ EndTypes' /\ ProcTypes'
         /\ \A q \in Procs : res'[q] \in {Absent, res[q]} /\ req'[q] \in {Absent, req[q]}
         /\ \/ /\ pc' = [pc EXCEPT ![p] = "exited"]
               /\ Texts(data'[In]) <= Texts(data[In])
            \/ /\ pc' = [pc EXCEPT ![p] = next]
               /\ data'[In] = IF i = In THEN Append(data[In], token) ELSE data[In]
  <1>1. CASE Ends(p)
    BY <1>1, EndsTypes
  <1>2. CASE Write(i, token) /\ Goto(p, next) /\ UNCHANGED <<blocked, fds>>
    <2>1. data' \in [Pipe -> Seq(Token)]
      <3>1. data \in [Pipe -> Seq(Token)]
        BY DEF TypeOK, Token
      <3>2. \A j \in Pipe : Append(data[j], token) \in Seq(Token)
        BY <3>1
      <3> QED BY <1>2, <3>1, <3>2 DEF Write
    <2>2. data'[In] = IF i = In THEN Append(data[In], token) ELSE data[In]
      BY <1>2, Sorts DEF TypeOK, Write
    <2>3. EndTypes' /\ ProcTypes'
      <3>1. data[In] \in Seq(Names \cup {Zero})
        BY DEF TypeOK
      <3>2. data'[In] \in Seq(Names \cup {Zero})
        BY <2>2, <3>1
      <3> QED BY <1>2, <2>1, <3>2 DEF TypeOK, EndTypes, ProcTypes, Write, fds, In
    <2> QED BY <1>2, <2>2, <2>3 DEF Goto, fds
  <1> QED BY <1>1, <1>2 DEF Send

\* The echo, which never goes into the pipe of the server's FIFO.
LEMMA EchoTypes ==
  ASSUME TypeOK, NumberInv, Send(Master, res[Master], Text, "request"), Text \in Token,
         res[Master] # In, Master \in Procs
  PROVE  /\ EndTypes' /\ ProcTypes'
         /\ \A q \in Procs : res'[q] \in {Absent, res[q]} /\ req'[q] \in {Absent, req[q]}
         /\ \/ /\ pc' = [pc EXCEPT ![Master] = "exited"]
               /\ Texts(data'[In]) <= Texts(data[In])
            \/ /\ pc' = [pc EXCEPT ![Master] = "request"]
               /\ data'[In] = IF res[Master] = In THEN Append(data[In], Text) ELSE data[In]
  <1>1. res[Master] = In => Text \in Names \cup {Zero}
    OBVIOUS
  <1> QED BY <1>1, SendTypes

\* Taking a token.
LEMMA TakeTypes ==
  ASSUME TypeOK, NEW i, Take(i)
  PROVE  EndTypes' /\ (data'[In] = data[In] \/ i = In)
  <1> DEFINE left(s) == IF s = << >> THEN s ELSE Tail(s)
  <1>1. /\ \A s \in Seq(Token) : left(s) \in Seq(Token)
        /\ \A s \in Seq(Names \cup {Zero}) : left(s) \in Seq(Names \cup {Zero})
    OBVIOUS
  <1>2. /\ data \in [Pipe -> Seq(Token)] /\ data[In] \in Seq(Names \cup {Zero})
        /\ data' = [data EXCEPT ![i] = left(data[i])]
    BY DEF TypeOK, Take, Token
  <1> HIDE DEF left
  <1>3. data' \in [Pipe -> Seq(Token)]
    BY <1>1, <1>2
  <1>4. data'[In] = data[In] \/ (i = In /\ data'[In] = left(data[In]))
    BY <1>2, Sorts
  <1>5. data'[In] \in Seq(Names \cup {Zero})
    BY <1>1, <1>2, <1>4
  <1> QED BY <1>3, <1>4, <1>5 DEF TypeOK, EndTypes, Take, In

\* A client's step: it makes a FIFO or writes a text, and has accounted for one
\* more, or does neither.
LEMMA ClientCounts ==
  ASSUME TypeOK, CountInv, NEW c \in Clients, NEW s \in Steps, pc' = [pc EXCEPT ![c] = s],
         UNCHANGED <<starts, url>>, npipes' \in Nat \ {0}, EndTypes',
         \/ /\ npipes' + Texts(data'[In]) <= npipes + Texts(data[In])
            /\ Stage(pc[c]) <= Stage(s)
         \/ /\ npipes' + Texts(data'[In]) <= npipes + Texts(data[In]) + 1
            /\ Stage(pc[c]) < Stage(s)
  PROVE  pc' \in [Procs -> Steps] /\ CountInv' /\ npipes' \in Pipe
  <1>1. /\ npipes \in Nat \ {0} /\ Texts(data[In]) \in Nat /\ Unused \in Nat /\ Tokens \in Nat
    BY Counted
  <1>2. Texts(data'[In]) \in Nat
    <2>1. data'[In] \in Seq(Names \cup {Zero})
      BY DEF EndTypes, In
    <2> QED BY <2>1, TextsAppend
  <1>3. Unused' = Unused
    <2>1. pc'[Master] = pc[Master]
      BY Sorts DEF TypeOK
    <2> QED BY <2>1 DEF Unused
  <1>4. Stage(pc[c]) \in Nat /\ Stage(s) \in Nat
    BY DEF Stage
  <1>5. /\ pc' \in [Procs -> Steps] /\ Spent' \in [Clients -> Nat]
        /\ \A d \in Clients : Spent[d] <= Spent'[d] /\ Spent'[d] <= 2 * MaxStarts
        /\ Stage(pc[c]) < Stage(s) => Spent[c] < Spent'[c]
    <2>1. c \in Procs /\ Stage(pc[c]) <= Stage(s)
      BY <1>4, Sorts
    <2> QED BY <2>1, Moved
  <1>6. Tokens' = npipes' + Texts(data'[In]) + Unused' /\ Tokens = npipes + Texts(data[In]) + Unused
    BY Sorts DEF Tokens, In
  <1>7. Tokens' \in Nat /\ npipes' <= Tokens'
    BY <1>1, <1>2, <1>3, <1>6
  <1>8. \/ Tokens' <= Tokens
        \/ Tokens' <= Tokens + 1 /\ Spent[c] < Spent'[c]
    BY <1>1, <1>2, <1>3, <1>5, <1>6
  <1>9. CountInv' /\ Tokens' <= MaxPipes
    BY <1>5, <1>7, <1>8, CountKept
  <1> QED BY <1>5, <1>7, <1>9, Sorts

TypeInv == TypeOK /\ NumberInv /\ CountInv /\ HostInv

\* FIFOs have paths of their own, and their pipes have been made.
LEMMA Ranges ==
  ASSUME TypeInv
  PROVE  /\ npipes \in Nat /\ fs \in [Paths -> Pipe \cup {Absent}]
         /\ res \in [Procs -> Pipe \cup {Absent}] /\ req \in [Procs -> Pipe \cup {Absent}]
         /\ rd \in [Pipe -> SUBSET Holders] /\ wr \in [Pipe -> SUBSET Holders]
         /\ \A f \in Paths : fs[f] # Absent => fs[f] \in Pipe \ {In} /\ fs[f] <= npipes
         /\ \A p \in Procs : res[p] # Absent => res[p] \in Pipe \ {In} /\ res[p] <= npipes
         /\ \A p \in Procs : req[p] # Absent => req[p] \in Pipe \ {In} /\ req[p] <= npipes
         /\ \A n \in Names : Request(n) \in Paths /\ Response(n) \in Paths
         /\ \A n \in Names, m \in Names : Request(n) # Response(m)
         /\ \A n \in Names, m \in Names : Request(n) = Request(m) \/ Response(n) = Response(m) => n = m
  <1>1. /\ npipes \in Pipe /\ npipes \in Nat /\ fs \in [Paths -> Pipe \cup {Absent}]
        /\ res \in [Procs -> Pipe \cup {Absent}] /\ req \in [Procs -> Pipe \cup {Absent}]
        /\ rd \in [Pipe -> SUBSET Holders] /\ wr \in [Pipe -> SUBSET Holders]
    BY Sorts DEF TypeInv, TypeOK
  <1>2. \A i \in 2 .. npipes : i \in Pipe \ {In} /\ i <= npipes
    BY <1>1, Sorts
  <1>3. /\ \A f \in Paths : fs[f] # Absent => fs[f] \in 2 .. npipes
        /\ \A p \in Procs : res[p] # Absent => res[p] \in 2 .. npipes
        /\ \A p \in Procs : req[p] # Absent => req[p] \in 2 .. npipes
    BY DEF TypeInv, NumberInv
  <1>4. /\ \A n \in Names : Request(n) \in Paths /\ Response(n) \in Paths
        /\ \A n \in Names, m \in Names : Request(n) # Response(m)
        /\ \A n \in Names, m \in Names : Request(n) = Request(m) \/ Response(n) = Response(m) => n = m
    BY DEF Paths, Request, Response
  <1> QED BY <1>1, <1>2, <1>3, <1>4

-----------------------------------------------------------------------------
(* The types.                                                              *)

\* A client's step that creates no FIFO.
LEMMA ClientKeepsTypes ==
  ASSUME TypeInv, NEW c \in Clients, NEW s \in Steps, pc' = [pc EXCEPT ![c] = s],
         UNCHANGED <<listening, npipes, url, children, starts>>, EndTypes', ProcTypes',
         fs' \in [Paths -> Pipe \cup {Absent}],
         \A f \in Paths : fs'[f] \in {Absent, fs[f]},
         \A q \in Procs : res'[q] \in {Absent, res[q]} \cup {fs[f] : f \in Paths},
         \A q \in Procs : req'[q] \in {Absent, req[q]} \cup {fs[f] : f \in Paths},
         \/ Texts(data'[In]) <= Texts(data[In]) /\ Stage(pc[c]) <= Stage(s)
         \/ Texts(data'[In]) <= Texts(data[In]) + 1 /\ Stage(pc[c]) < Stage(s)
  PROVE  TypeInv'
  <1>1. UNCHANGED <<workers, closing, kept>>
    BY DEF children
  <1>2. npipes \in Nat \ {0} /\ Texts(data[In]) \in Nat
    BY Counted DEF TypeInv
  <1>3. Texts(data'[In]) \in Nat
    <2>1. data'[In] \in Seq(Names \cup {Zero})
      BY DEF EndTypes, In
    <2> QED BY <2>1, TextsAppend
  <1>4. \/ /\ npipes' + Texts(data'[In]) <= npipes + Texts(data[In])
           /\ Stage(pc[c]) <= Stage(s)
        \/ /\ npipes' + Texts(data'[In]) <= npipes + Texts(data[In]) + 1
           /\ Stage(pc[c]) < Stage(s)
    BY <1>2, <1>3
  <1>5. pc' \in [Procs -> Steps] /\ CountInv' /\ npipes' \in Pipe
    BY <1>2, <1>4, ClientCounts DEF TypeInv
  <1>6. TypeOK'
    BY <1>1, <1>5 DEF TypeInv, TypeOK, Steps, EndTypes, ProcTypes, Token, In
  <1>7. NumberInv'
    BY <1>1 DEF TypeInv, NumberInv
  <1>8. HostInv'
    <2>1. pc'[Master] = pc[Master]
      BY Sorts DEF TypeInv, TypeOK
    <2> QED BY <2>1 DEF TypeInv, HostInv, Host
  <1> QED BY <1>5, <1>6, <1>7, <1>8 DEF TypeInv

\* A client creates its FIFO, opens, writes, reads and closes.
LEMMA ClientTypes ==
  ASSUME TypeInv, NEW c \in Clients,
         CreateResponse(c) \/ connection_open(c) \/ ClientCloses(c) \/ ClientUnlinks(c)
  PROVE  TypeInv'
  <1> DEFINE unmoved == \A f \in Paths : fs'[f] \in {Absent, fs[f]}
             given(r, s) == \A q \in Procs : s[q] \in {Absent, r[q]} \cup {fs[f] : f \in Paths}
             fewer == Texts(data'[In]) <= Texts(data[In])
  <1>1. /\ c \in Procs /\ TypeOK /\ NumberInv /\ CountInv /\ Name[c] \in Names
        /\ fs \in [Paths -> Pipe \cup {Absent}]
        /\ Response(Name[c]) \in Paths /\ Request(Name[c]) \in Paths
    BY Sorts DEF TypeInv, TypeOK, Paths
  <1>2. Stage("exited") = 2 /\ Stage(pc[c]) <= 2 /\ Stage(pc[c]) \in Nat
    BY DEF Stage
  <1>3. npipes \in Nat \ {0} /\ Texts(data[In]) \in Nat
    BY <1>1, Counted
  <1>4. ASSUME Ends(c), UNCHANGED <<listening, npipes, url, children, starts>>,
               fs' \in [Paths -> Pipe \cup {Absent}], unmoved
        PROVE  TypeInv'
    <2>1. /\ pc' = [pc EXCEPT ![c] = "exited"] /\ EndTypes' /\ ProcTypes' /\ fewer
          /\ \A q \in Procs : res'[q] \in {Absent, res[q]} /\ req'[q] \in {Absent, req[q]}
      BY <1>1, <1>4, EndsTypes
    <2>2. given(res, res') /\ given(req, req')
      BY <2>1
    <2>3. "exited" \in Steps
      BY DEF Steps
    <2> QED BY <1>2, <1>4, <2>1, <2>2, <2>3, ClientKeepsTypes
  <1>5. ASSUME NEW s \in Steps, pc' = [pc EXCEPT ![c] = s],
               UNCHANGED <<fds, blocked, listening, npipes, url, children, starts>>, EndTypes',
               fs' \in [Paths -> Pipe \cup {Absent}], unmoved,
               \/ fewer /\ Stage(pc[c]) <= Stage(s)
               \/ Texts(data'[In]) <= Texts(data[In]) + 1 /\ Stage(pc[c]) < Stage(s)
        PROVE  TypeInv'
    <2>1. ProcTypes'
      BY <1>1, <1>5 DEF TypeOK, ProcTypes, fds
    <2>2. given(res, res') /\ given(req, req')
      BY <1>5 DEF fds
    <2> QED BY <1>5, <2>1, <2>2, ClientKeepsTypes
  <1>6. ASSUME UNCHANGED fs
        PROVE  fs' \in [Paths -> Pipe \cup {Absent}] /\ unmoved
    BY <1>1, <1>6
  <1>7. CASE CreateResponse(c)
    <2>1. CASE /\ mkfifo(Response(Name[c])) /\ Goto(c, "connect")
               /\ UNCHANGED <<blocked, fds, listening, ends, url, children, starts>>
      <3>1. /\ pc' = [pc EXCEPT ![c] = "connect"] /\ npipes' = npipes + 1
            /\ fs' = [fs EXCEPT ![Response(Name[c])] = npipes + 1]
            /\ UNCHANGED <<blocked, res, req, listening, rd, wr, data, url, workers, closing, kept, starts>>
        BY <2>1 DEF mkfifo, Goto, fds, ends, children
      <3>2. "connect" \in Steps /\ Stage(pc[c]) < Stage("connect")
        BY <1>7 DEF CreateResponse, Runs, Stage, Steps
      <3>3. EndTypes'
        BY <1>1, <3>1 DEF TypeOK, EndTypes, Token, In
      <3>4. npipes' \in Nat \ {0} /\ npipes' + Texts(data'[In]) <= npipes + Texts(data[In]) + 1
        BY <1>3, <3>1
      <3>5. pc' \in [Procs -> Steps] /\ CountInv' /\ npipes' \in Pipe
        BY <1>1, <3>1, <3>2, <3>3, <3>4, ClientCounts
      <3>6. fs' \in [Paths -> Pipe \cup {Absent}]
        BY <1>1, <3>1, <3>5
      <3>7. TypeOK'
        BY <1>1, <3>1, <3>3, <3>5, <3>6 DEF TypeOK, Steps, EndTypes, Token, In
      <3>8. NumberInv'
        BY <1>1, <1>3, <3>1 DEF NumberInv
      <3>9. HostInv'
        <4>1. pc'[Master] = pc[Master]
          BY <1>1, <3>1, Sorts DEF TypeOK
        <4> QED BY <3>1, <4>1 DEF TypeInv, HostInv, Host
      <3> QED BY <3>5, <3>7, <3>8, <3>9 DEF TypeInv
    <2>2. CASE Ends(c) /\ UNCHANGED <<files, url, children, starts>>
      BY <1>4, <1>6, <2>2 DEF files
    <2> QED BY <1>7, <2>1, <2>2 DEF CreateResponse
  <1>8. CASE Connect(c)
    <2>1. CASE OpenWrite(c, In) /\ Goto(c, "text") /\ UNCHANGED fds
      <3>1. blocked' \in [Procs -> Pipe \cup {Absent}] /\ EndTypes' /\ data' = data
        BY <1>1, <2>1, Sorts, OpenTypes
      <3>2. ProcTypes'
        BY <1>1, <2>1, <3>1 DEF TypeOK, ProcTypes, fds
      <3>3. "text" \in Steps /\ Stage(pc[c]) <= Stage("text") /\ fewer
        BY <1>3, <1>8, <3>1 DEF Connect, Runs, Stage, Steps
      <3>4. pc' = [pc EXCEPT ![c] = "text"] /\ UNCHANGED <<res, req, listening, npipes, fs>>
        BY <1>8, <2>1 DEF Connect, Goto, fds, files
      <3>5. given(res, res') /\ given(req, req')
        BY <3>4
      <3> QED BY <1>6, <1>8, <3>1, <3>2, <3>3, <3>4, <3>5, ClientKeepsTypes DEF Connect
    <2>2. CASE Ends(c)
      BY <1>4, <1>6, <1>8, <2>2 DEF Connect, files
    <2> QED BY <1>8, <2>1, <2>2 DEF Connect
  <1>9. CASE WriteUrl(c)
    <2>1. PICK token \in Names \cup {Zero}, next \in {"zero", "hangup"} :
            /\ Send(c, In, token, next)
            /\ token # Zero => pc[c] = "text" /\ next = "zero"
      <3>1. CASE Runs(c, "text") /\ Send(c, In, Name[c], "zero")
        BY <1>1, <3>1 DEF Runs
      <3>2. CASE Runs(c, "zero") /\ Send(c, In, Zero, "hangup")
        BY <3>2
      <3> QED BY <1>9, <3>1, <3>2 DEF WriteUrl
    <2>2. /\ EndTypes' /\ ProcTypes'
          /\ \A q \in Procs : res'[q] \in {Absent, res[q]} /\ req'[q] \in {Absent, req[q]}
          /\ \/ pc' = [pc EXCEPT ![c] = "exited"] /\ fewer
             \/ pc' = [pc EXCEPT ![c] = next] /\ data'[In] = Append(data[In], token)
      <3>1. /\ c \in Procs /\ TypeOK /\ NumberInv /\ Send(c, In, token, next)
            /\ token \in Token /\ token \in Names \cup {Zero}
        BY <1>1, <2>1 DEF Token
      <3>2. /\ EndTypes' /\ ProcTypes'
            /\ \A q \in Procs : res'[q] \in {Absent, res[q]} /\ req'[q] \in {Absent, req[q]}
            /\ \/ pc' = [pc EXCEPT ![c] = "exited"] /\ fewer
               \/ /\ pc' = [pc EXCEPT ![c] = next]
                  /\ data'[In] = IF In = In THEN Append(data[In], token) ELSE data[In]
        BY <3>1, SendTypes, Zenon
      <3> QED BY <3>2
    <2>3. data[In] \in Seq(Names \cup {Zero})
      BY <1>1 DEF TypeOK
    <2>4. Texts(Append(data[In], token)) = IF token = Zero THEN Texts(data[In]) ELSE Texts(data[In]) + 1
      BY <2>3, TextsAppend
    <2>5. Stage("text") = 1 /\ Stage(next) = 2
      BY DEF Stage
    <2>6. given(res, res') /\ given(req, req')
      BY <2>2
    <2>7. UNCHANGED <<listening, npipes, fs, url, children, starts>>
      BY <1>9 DEF WriteUrl, files
    <2>8. CASE pc' = [pc EXCEPT ![c] = "exited"] /\ fewer
      <3>1. "exited" \in Steps
        BY DEF Steps
      <3>2. fs' \in [Paths -> Pipe \cup {Absent}] /\ unmoved
        BY <1>6, <2>7
      <3>3. Stage(pc[c]) <= Stage("exited")
        BY <1>2
      <3> QED BY <2>2, <2>6, <2>7, <2>8, <3>1, <3>2, <3>3, ClientKeepsTypes
    <2>9. CASE pc' = [pc EXCEPT ![c] = next] /\ data'[In] = Append(data[In], token)
      <3>1. next \in Steps
        BY DEF Steps
      <3>2. \/ fewer /\ Stage(pc[c]) <= Stage(next)
            \/ Texts(data'[In]) <= Texts(data[In]) + 1 /\ Stage(pc[c]) < Stage(next)
        BY <1>2, <1>3, <2>1, <2>4, <2>5, <2>9
      <3> QED BY <1>6, <2>2, <2>6, <2>7, <2>9, <3>1, <3>2, ClientKeepsTypes
    <2> QED BY <2>2, <2>8, <2>9
  <1>10. CASE HangUp(c)
    <2>1. EndTypes' /\ fewer
      BY <1>1, <1>10, CloseTypes DEF HangUp
    <2>2. "response" \in Steps /\ Stage(pc[c]) <= Stage("response")
      BY <1>10 DEF HangUp, Runs, Stage, Steps
    <2>3. pc' = [pc EXCEPT ![c] = "response"] /\ UNCHANGED <<fds, blocked, listening, npipes, fs, url, children, starts>>
      BY <1>10 DEF HangUp, Goto, files
    <2> QED BY <1>5, <1>6, <2>1, <2>2, <2>3
  <1>11. CASE OpenResponse(c) \/ OpenRequest(c)
    <2>1. CASE Ends(c)
      BY <1>4, <1>6, <1>11, <2>1 DEF OpenResponse, OpenRequest, files
    <2>2. CASE ~Ends(c)
      <3>1. PICK f \in Paths, s \in {"echo", "ack"} :
              /\ fs[f] # Absent /\ pc' = [pc EXCEPT ![c] = s]
              /\ OpenRead(c, fs[f]) \/ OpenWrite(c, fs[f])
              /\ res' = res \/ res' = [res EXCEPT ![c] = fs[f]]
              /\ req' = req \/ req' = [req EXCEPT ![c] = fs[f]]
        BY <1>1, <1>11, <2>2 DEF OpenResponse, OpenRequest, Goto
      <3>2. fs[f] \in Pipe
        BY <1>1, <3>1
      <3>3. blocked' \in [Procs -> Pipe \cup {Absent}] /\ EndTypes' /\ data' = data
        BY <1>1, <3>1, <3>2, OpenTypes
      <3>4. res' \in [Procs -> Pipe \cup {Absent}] /\ given(res, res')
        BY <1>1, <3>1, <3>2 DEF TypeOK
      <3>5. req' \in [Procs -> Pipe \cup {Absent}] /\ given(req, req')
        BY <1>1, <3>1, <3>2 DEF TypeOK
      <3>6. ProcTypes'
        BY <3>3, <3>4, <3>5 DEF ProcTypes
      <3>7. s \in Steps /\ Stage(pc[c]) <= Stage(s) /\ fewer
        BY <1>2, <1>3, <3>3 DEF Stage, Steps
      <3>8. UNCHANGED <<listening, npipes, fs, url, children, starts>>
        BY <1>11 DEF OpenResponse, OpenRequest, files
      <3>9. fs' \in [Paths -> Pipe \cup {Absent}] /\ unmoved
        BY <1>6, <3>8
      <3>10. pc' = [pc EXCEPT ![c] = s] /\ given(res, res') /\ given(req, req')
        BY <3>1, <3>4, <3>5
      <3> QED BY <3>3, <3>6, <3>7, <3>8, <3>9, <3>10, ClientKeepsTypes
    <2> QED BY <2>1, <2>2
  <1>12. CASE ReadEcho(c)
    <2>1. CASE Ends(c)
      BY <1>4, <1>6, <1>12, <2>1 DEF ReadEcho, files
    <2>2. CASE Take(res[c]) /\ Goto(c, "request") /\ UNCHANGED <<blocked, fds>>
      <3>1. EndTypes' /\ (data'[In] = data[In] \/ res[c] = In)
        BY <1>1, <2>2, TakeTypes
      <3>2. res[c] # In
        BY <1>1, Sorts DEF NumberInv
      <3>3. "request" \in Steps /\ Stage(pc[c]) <= Stage("request") /\ fewer
        BY <1>2, <1>3, <3>1, <3>2 DEF Stage, Steps
      <3>4. pc' = [pc EXCEPT ![c] = "request"] /\ UNCHANGED <<fds, blocked, listening, npipes, fs, url, children, starts>>
        BY <1>12, <2>2 DEF ReadEcho, Goto, files
      <3> QED BY <1>5, <1>6, <3>1, <3>3, <3>4
    <2> QED BY <1>12, <2>1, <2>2 DEF ReadEcho
  <1>13. CASE WriteAck(c)
    <2>1. /\ EndTypes' /\ ProcTypes'
          /\ \A q \in Procs : res'[q] \in {Absent, res[q]} /\ req'[q] \in {Absent, req[q]}
          /\ \/ pc' = [pc EXCEPT ![c] = "exited"] /\ fewer
             \/ /\ pc' = [pc EXCEPT ![c] = "open"]
                /\ data'[In] = IF req[c] = In THEN Append(data[In], Name[c]) ELSE data[In]
      <3>1. /\ c \in Procs /\ TypeOK /\ NumberInv
            /\ Name[c] \in Token /\ Name[c] \in Names \cup {Zero}
            /\ Send(c, req[c], Name[c], "open")
        BY <1>1, <1>13 DEF WriteAck, Token
      <3> QED BY <3>1, SendTypes, Zenon
    <2>2. req[c] # In
      BY <1>1, Sorts DEF NumberInv
    <2>3. PICK s \in {"exited", "open"} : pc' = [pc EXCEPT ![c] = s]
      BY <2>1
    <2>4. s \in Steps /\ Stage(pc[c]) <= Stage(s) /\ fewer
      BY <1>2, <1>3, <2>1, <2>2 DEF Stage, Steps
    <2>5. given(res, res') /\ given(req, req')
      BY <2>1
    <2>6. UNCHANGED <<listening, npipes, fs, url, children, starts>>
      BY <1>13 DEF WriteAck, files
    <2> QED BY <1>6, <2>1, <2>3, <2>4, <2>5, <2>6, ClientKeepsTypes
  <1>14. CASE ClientCloses(c)
    <2>1. EndTypes' /\ fewer
      BY <1>1, <1>14, CloseTypes DEF ClientCloses
    <2>2. "unlink" \in Steps /\ Stage(pc[c]) <= Stage("unlink")
      BY <1>2 DEF Stage, Steps
    <2>3. fs' \in [Paths -> Pipe \cup {Absent}] /\ unmoved
      BY <1>1, <1>14 DEF ClientCloses, unlink
    <2>4. pc' = [pc EXCEPT ![c] = "unlink"] /\ UNCHANGED <<fds, blocked, listening, npipes, url, children, starts>>
      BY <1>14 DEF ClientCloses, Goto
    <2> QED BY <1>5, <2>1, <2>2, <2>3, <2>4
  <1>15. CASE ClientUnlinks(c)
    <2>1. fs' \in [Paths -> Pipe \cup {Absent}] /\ unmoved
      BY <1>1, <1>15 DEF ClientUnlinks, unlink
    <2> QED BY <1>4, <1>15, <2>1 DEF ClientUnlinks
  <1> QED BY <1>7, <1>8, <1>9, <1>10, <1>11, <1>12, <1>13, <1>14, <1>15 DEF connection_open

\* A step of the master that uses no more than what has been accounted for.
LEMMA MasterKeepsTypes ==
  ASSUME TypeInv, NEW s \in Steps, pc' = [pc EXCEPT ![Master] = s],
         UNCHANGED <<closing, starts>>, EndTypes', ProcTypes',
         listening' \in BOOLEAN, url' \in Seq(Names), workers' \in [Names -> Nat], kept' \in Nat,
         npipes' \in {npipes, npipes + 1}, fs' \in [Paths -> Nat],
         \A f \in Paths : fs'[f] = Absent \/ fs'[f] \in 2 .. npipes',
         \A q \in Procs : res'[q] \in {Absent, res[q]} \cup {fs[f] : f \in Paths},
         \A q \in Procs : req'[q] \in {Absent, req[q]} \cup {fs[f] : f \in Paths},
         npipes' + Texts(data'[In]) + Unused' <= npipes + Texts(data[In]) + Unused,
         s \in Known => Host' \in Names
  PROVE  TypeInv'
  <1>1. npipes \in Nat \ {0} /\ Texts(data[In]) \in Nat /\ Unused \in Nat
    BY Counted DEF TypeInv
  <1>2. Texts(data'[In]) \in Nat
    <2>1. data'[In] \in Seq(Names \cup {Zero})
      BY DEF EndTypes, In
    <2> QED BY <2>1, TextsAppend
  <1>3. Unused' \in Nat
    BY DEF Unused
  <1>4. npipes' \in Nat \ {0} /\ npipes <= npipes'
    BY <1>1
  <1>5. /\ pc' \in [Procs -> Steps] /\ Spent' \in [Clients -> Nat]
        /\ \A c \in Clients : Spent[c] <= Spent'[c] /\ Spent'[c] <= 2 * MaxStarts
    <2>1. TypeOK /\ Master \in Procs /\ Master \notin Clients
      BY Sorts DEF TypeInv
    <2> QED BY <2>1, Moved
  <1>6. Tokens' = npipes' + Texts(data'[In]) + Unused' /\ Tokens = npipes + Texts(data[In]) + Unused
    BY DEF Tokens, In
  <1>7. Tokens' \in Nat /\ npipes' <= Tokens' /\ Tokens' <= Tokens
    <2> DEFINE p == npipes
               q == npipes'
               t == Texts(data[In])
               r == Texts(data'[In])
               a == Unused
               b == Unused'
    <2>1. p \in Nat /\ q \in Nat /\ t \in Nat /\ r \in Nat /\ a \in Nat /\ b \in Nat
      BY <1>1, <1>2, <1>3, <1>4
    <2>2. q + r + b <= p + t + a
      OBVIOUS
    <2>3. Tokens' = q + r + b /\ Tokens = p + t + a
      BY <1>6
    <2> HIDE DEF p, q, t, r, a, b
    <2>4. q + r + b \in Nat /\ q <= q + r + b
      BY <2>1
    <2> QED BY <2>2, <2>3, <2>4 DEF q
  <1>8. CountInv' /\ Tokens' <= MaxPipes
    <2>1. TypeOK /\ CountInv
      BY DEF TypeInv
    <2> QED BY <1>5, <1>7, <2>1, CountKept
  <1>9. npipes' \in Pipe
    BY <1>4, <1>7, <1>8, Sorts
  <1>10. fs' \in [Paths -> Pipe \cup {Absent}]
    <2>1. \A f \in Paths : fs'[f] \in Pipe \cup {Absent}
      BY <1>9, Sorts
    <2> QED BY <2>1
  <1>11. TypeOK'
    BY <1>5, <1>9, <1>10 DEF TypeInv, TypeOK, Steps, EndTypes, ProcTypes, Token, In
  <1>12. NumberInv'
    <2>1. \A i \in 2 .. npipes : i \in 2 .. npipes'
      BY <1>1, <1>4
    <2>2. \A f \in Paths : fs[f] = Absent \/ fs[f] \in 2 .. npipes'
      BY <2>1 DEF TypeInv, NumberInv
    <2>3. \A q \in Procs : /\ res[q] = Absent \/ res[q] \in 2 .. npipes'
                           /\ req[q] = Absent \/ req[q] \in 2 .. npipes'
      BY <2>1 DEF TypeInv, NumberInv
    <2> QED BY <2>2, <2>3 DEF NumberInv
  <1>13. HostInv'
    <2>1. pc'[Master] = s
      BY Sorts DEF TypeInv, TypeOK
    <2> QED BY <2>1 DEF HostInv
  <1> QED BY <1>8, <1>11, <1>12, <1>13 DEF TypeInv

\* The worker takes the ends of the connection over, or nobody does.
LEMMA ForkTypes ==
  ASSUME TypeInv, Fork, data[req[Master]] # << >>
  PROVE  EndTypes' /\ Texts(data'[In]) <= Texts(data[In])
  <1>1. Master \in Procs /\ req[Master] # In
    <2>1. Master \in Procs /\ In # Absent
      BY Sorts
    <2> QED BY <2>1, Ranges
  <1>2. /\ rd \in [Pipe -> SUBSET Holders] /\ wr \in [Pipe -> SUBSET Holders]
        /\ \A S \in SUBSET Holders : /\ (S \ {Master}) \cup {Forked} \in SUBSET Holders
                                    /\ S \ {Master} \in SUBSET Holders
    BY Sorts DEF TypeInv, TypeOK
  <1>3. rd' \in [Pipe -> SUBSET Holders] /\ wr' \in [Pipe -> SUBSET Holders]
    BY <1>2 DEF Fork
  <1>4. data \in [Pipe -> Seq(Token)] /\ data[In] \in Seq(Names \cup {Zero})
    BY DEF TypeInv, TypeOK, Token
  <1>5. \A j \in Pipe : data'[j] \in {data[j], << >>} \/ (j = req[Master] /\ data'[j] = Tail(data[j]))
    BY <1>4 DEF Fork
  <1>6. \A j \in Pipe : data'[j] \in Seq(Token)
    <2> SUFFICES ASSUME NEW j \in Pipe PROVE data'[j] \in Seq(Token)
      OBVIOUS
    <2>1. data[j] \in Seq(Token) /\ << >> \in Seq(Token)
      BY <1>4
    <2>2. j = req[Master] => Tail(data[j]) \in Seq(Token)
      BY <2>1
    <2> QED BY <1>5, <2>1, <2>2
  <1>7. data' \in [Pipe -> Seq(Token)]
    <2>1. \E f : data' = [j \in Pipe |-> f[j]]
      BY <1>4, <1>5 DEF Fork
    <2> QED BY <1>6, <2>1
  <1>8. data'[In] = data[In] \/ data'[In] = << >>
    BY <1>1, <1>5, Sorts
  <1>9. data'[In] \in Seq(Names \cup {Zero})
    <2>1. << >> \in Seq(Names \cup {Zero})
      OBVIOUS
    <2> QED BY <1>4, <1>8, <2>1
  <1> QED BY <1>3, <1>4, <1>7, <1>8, <1>9, TextsLost DEF EndTypes, In

\* The master listens, reads a url, makes the request FIFO, echoes, reads the
\* acknowledgement and forks.
LEMMA MasterTypes ==
  ASSUME TypeInv, MasterSteps
  PROVE  TypeInv'
  <1> DEFINE given(r, s) == \A q \in Procs : s[q] \in {Absent, r[q]} \cup {fs[f] : f \in Paths}
             numbered == \A f \in Paths : fs[f] = Absent \/ fs[f] \in 2 .. npipes
             fewer == Texts(data'[In]) <= Texts(data[In])
  <1>1. /\ Master \in Procs /\ TypeOK /\ NumberInv /\ CountInv /\ numbered
        /\ fs \in [Paths -> Nat] /\ listening \in BOOLEAN /\ workers \in [Names -> Nat]
        /\ kept \in Nat /\ url \in Seq(Names) /\ Len(url) \in Nat
        /\ UNCHANGED url => Host' = Host
    <2>1. Master \in Procs /\ TypeOK /\ NumberInv /\ CountInv /\ numbered
      BY Sorts DEF TypeInv, NumberInv
    <2>2. listening \in BOOLEAN /\ workers \in [Names -> Nat] /\ url \in Seq(Names) /\ kept \in Nat
      BY <2>1 DEF TypeOK
    <2>3. fs \in [Paths -> Nat]
      <3>1. fs \in [Paths -> Pipe \cup {Absent}] /\ Pipe \cup {Absent} \subseteq Nat
        BY <2>1, Sorts DEF TypeOK
      <3> QED BY <3>1
    <2> QED BY <2>1, <2>2, <2>3 DEF Host
  <1>2. npipes \in Nat \ {0} /\ Texts(data[In]) \in Nat /\ Unused \in Nat
    BY <1>1, Counted
  <1>3. /\ {"exited", "accept", "url", "hangup", "create", "response", "echo", "request", "ack"}
             \subseteq Steps
        /\ \A s \in Steps : pc' = [pc EXCEPT ![Master] = s] => pc'[Master] = s
    BY <1>1 DEF Steps, TypeOK
  <1>4. UNCHANGED files => /\ listening' \in BOOLEAN /\ npipes' \in {npipes, npipes + 1}
                           /\ fs' \in [Paths -> Nat] /\ numbered'
                           /\ UNCHANGED <<listening, npipes, fs>>
    BY <1>1 DEF files
  <1>5. UNCHANGED fds => given(res, res') /\ given(req, req')
    BY DEF fds
  <1>6. ASSUME NEW s \in Steps, pc' = [pc EXCEPT ![Master] = s],
               UNCHANGED <<files, url, children, starts>>, EndTypes', ProcTypes',
               given(res, res'), given(req, req'), fewer,
               s \in {"url", "hangup", "create"} => pc[Master] \in {"url", "hangup", "create"},
               s \in Known => pc[Master] \in Known
        PROVE  TypeInv'
    <2>1. Unused' <= Unused
      BY <1>1, <1>3, <1>6 DEF Unused
    <2>2. Texts(data'[In]) \in Nat
      <3>1. data'[In] \in Seq(Names \cup {Zero})
        BY <1>6, Sorts DEF EndTypes, In
      <3> QED BY <3>1, TextsAppend
    <2>3. Unused' \in Nat
      BY <1>1, <1>6 DEF Unused
    <2>4. npipes' + Texts(data'[In]) + Unused' <= npipes + Texts(data[In]) + Unused
      BY <1>2, <1>4, <1>6, <2>1, <2>2, <2>3
    <2>5. /\ url' \in Seq(Names) /\ workers' \in [Names -> Nat] /\ kept' \in Nat
          /\ UNCHANGED <<closing, starts>>
      BY <1>1, <1>6 DEF children
    <2>6. s \in Known => Host' \in Names
      BY <1>1, <1>6 DEF TypeInv, HostInv
    <2> QED BY <1>4, <1>6, <2>4, <2>5, <2>6, MasterKeepsTypes
  <1>7. ASSUME Ends(Master), UNCHANGED <<files, url, children, starts>>
        PROVE  TypeInv'
    <2>1. /\ pc' = [pc EXCEPT ![Master] = "exited"] /\ EndTypes' /\ ProcTypes' /\ fewer
          /\ \A q \in Procs : res'[q] \in {Absent, res[q]} /\ req'[q] \in {Absent, req[q]}
      BY <1>1, <1>7, EndsTypes
    <2>2. given(res, res') /\ given(req, req')
      BY <2>1
    <2> QED BY <1>3, <1>6, <1>7, <2>1, <2>2 DEF Known
  <1>8. UNCHANGED <<blocked, fds>> => ProcTypes'
    BY <1>1 DEF TypeOK, ProcTypes, fds
  <1>9. UNCHANGED ends => EndTypes' /\ fewer
    BY <1>1, <1>2 DEF TypeOK, EndTypes, ends, Token, In
  <1>10. CASE comm_listen
    <2>1. /\ pc' = [pc EXCEPT ![Master] = "accept"] /\ listening' = TRUE
          /\ UNCHANGED <<blocked, fds, fs, npipes, ends, url, workers, closing, kept, starts>>
      BY <1>10 DEF comm_listen, Goto, children
    <2>2. Unused' = 0
      BY <1>3, <2>1 DEF Unused
    <2>3. npipes' + Texts(data'[In]) + Unused' <= npipes + Texts(data[In]) + Unused
      BY <1>2, <2>1, <2>2 DEF ends
    <2> QED BY <1>1, <1>2, <1>3, <1>5, <1>8, <1>9, <2>1, <2>3, MasterKeepsTypes DEF Known
  <1>11. CASE OpenConnectionFile /\ MayHave(1)
    <2>1. /\ pc' = [pc EXCEPT ![Master] = "url"] /\ url' = << >> /\ OpenRead(Master, In)
          /\ UNCHANGED <<fds, files, workers, closing, kept, starts>>
      BY <1>11 DEF OpenConnectionFile, Goto, children
    <2>2. blocked' \in [Procs -> Pipe \cup {Absent}] /\ EndTypes' /\ data' = data
      BY <1>1, <2>1, Sorts, OpenTypes
    <2>3. ProcTypes'
      BY <1>1, <2>1, <2>2 DEF TypeOK, ProcTypes, fds
    <2>4. Unused' = 0
      BY <2>1 DEF Unused
    <2>5. npipes' + Texts(data'[In]) + Unused' <= npipes + Texts(data[In]) + Unused
      BY <1>2, <1>4, <2>1, <2>2, <2>4
    <2>6. url' \in Seq(Names)
      BY <2>1
    <2> QED BY <1>1, <1>3, <1>4, <1>5, <2>1, <2>2, <2>3, <2>5, <2>6, MasterKeepsTypes DEF Known
  <1>18. CASE OpenConnectionFile /\ ~MayHave(1)
    BY <1>7, <1>18 DEF OpenConnectionFile
  <1>12. CASE ReadUrl
    <2>1. /\ pc[Master] = "url" /\ Take(In)
          /\ UNCHANGED <<blocked, fds, files, workers, closing, kept, starts>>
      BY <1>12 DEF ReadUrl, Runs, children
    <2>2. EndTypes' /\ ProcTypes'
      BY <1>1, <1>8, <2>1, TakeTypes
    <2>3. data[In] \in Seq(Names \cup {Zero})
      BY <1>1 DEF TypeOK
    <2>4. data'[In] = IF data[In] = << >> THEN << >> ELSE Tail(data[In])
      BY <1>1, <2>1, Sorts DEF TypeOK, Take
    <2>5. Unused = Len(url)
      BY <2>1 DEF Unused
    <2>6. CASE Next1(In) = Zero
      <3>1. pc' = [pc EXCEPT ![Master] = "hangup"] /\ url' = url
        BY <1>12, <2>6 DEF ReadUrl, Goto
      <3>2. fewer
        <4>1. CASE data[In] = << >>
          BY <1>2, <2>4, <4>1
        <4>2. CASE data[In] # << >>
          BY <1>2, <2>3, <2>4, <4>2, TextsTail
        <4> QED BY <4>1, <4>2
      <3>3. Unused' = Unused /\ Texts(data'[In]) \in Nat
        <4>1. data'[In] \in Seq(Names \cup {Zero})
          BY <2>2, Sorts DEF EndTypes, In
        <4> QED BY <1>3, <2>5, <3>1, <4>1, TextsAppend DEF Unused
      <3>4. npipes' + Texts(data'[In]) + Unused' <= npipes + Texts(data[In]) + Unused
        BY <1>2, <1>4, <2>1, <3>2, <3>3
      <3>5. url' \in Seq(Names) /\ workers' \in [Names -> Nat] /\ kept' \in Nat
        BY <1>1, <2>1, <3>1
      <3> QED BY <1>3, <1>4, <1>5, <2>1, <2>2, <3>1, <3>4, <3>5, MasterKeepsTypes DEF Known
    <2>7. CASE Next1(In) # Zero
      <3>1. /\ pc' = pc /\ url' = Append(url, Head(data[In])) /\ data[In] # << >>
            /\ Head(data[In]) # Zero
        BY <1>12, <2>7 DEF ReadUrl, Next1
      <3>2. Head(data[In]) \in Names
        <4>1. Head(data[In]) \in Names \cup {Zero}
          BY <2>3, <3>1
        <4> QED BY <3>1, <4>1
      <3>3. url' \in Seq(Names) /\ Len(url') = Len(url) + 1
        BY <1>1, <3>1, <3>2
      <3>4. Texts(data[In]) = Texts(data'[In]) + 1 /\ Texts(data'[In]) \in Nat
        BY <2>3, <2>4, <3>1, TextsTail
      <3>5. pc' = [pc EXCEPT ![Master] = "url"] /\ Unused' = Len(url) + 1
        BY <1>1, <2>1, <3>1, <3>3 DEF TypeOK, Unused
      <3>6. npipes' + Texts(data'[In]) + Unused' <= npipes + Texts(data[In]) + Unused
        BY <1>1, <1>2, <1>4, <2>1, <2>5, <3>4, <3>5
      <3>7. workers' \in [Names -> Nat] /\ kept' \in Nat
        BY <1>1, <2>1
      <3> QED BY <1>3, <1>4, <1>5, <2>1, <2>2, <3>3, <3>5, <3>6, <3>7, MasterKeepsTypes DEF Known
    <2> QED BY <2>6, <2>7
  <1>13. CASE MasterHangsUp
    <2>1. /\ pc' = [pc EXCEPT ![Master] = "create"] /\ pc[Master] = "hangup" /\ Close(Master, {In})
          /\ UNCHANGED <<blocked, fds, files, url, children, starts>>
      BY <1>13 DEF MasterHangsUp, Goto, Runs
    <2>2. EndTypes' /\ fewer
      BY <1>1, <2>1, CloseTypes
    <2> QED BY <1>3, <1>5, <1>6, <1>8, <2>1, <2>2 DEF Known
  <1>14. CASE CreateRequest
    <2>1. CASE Ends(Master) /\ UNCHANGED files
      BY <1>7, <1>14, <2>1 DEF CreateRequest
    <2>2. CASE /\ Host \in Names /\ mkfifo(Request(Host)) /\ Goto(Master, "response")
               /\ UNCHANGED <<blocked, fds, listening, ends>>
      <3>1. /\ Host \in Names /\ pc[Master] = "create"
            /\ pc' = [pc EXCEPT ![Master] = "response"] /\ npipes' = npipes + 1
            /\ fs' = [fs EXCEPT ![Request(Host)] = npipes + 1]
            /\ UNCHANGED <<blocked, fds, listening, ends, url, workers, closing, kept, starts>>
        BY <1>14, <2>2 DEF CreateRequest, Runs, mkfifo, Goto, children
      <3>2. Unused >= 1 /\ Unused' = 0
        <4>1. url # << >>
          BY <3>1, Sorts DEF Host
        <4>2. Len(url) >= 1
          BY <1>1, <4>1
        <4> QED BY <1>3, <3>1, <4>2 DEF Unused
      <3>3. npipes' + Texts(data'[In]) + Unused' <= npipes + Texts(data[In]) + Unused
        BY <1>2, <3>1, <3>2 DEF ends
      <3>4. fs' \in [Paths -> Nat]
        <4>1. npipes + 1 \in Nat
          BY <1>2
        <4> QED BY <1>1, <3>1, <4>1
      <3>5. numbered'
        BY <1>1, <1>2, <3>1
      <3>6. listening' \in BOOLEAN /\ url' \in Seq(Names) /\ workers' \in [Names -> Nat]
        BY <1>1, <3>1
      <3>7. Host' \in Names /\ kept' \in Nat
        BY <1>1, <3>1
      <3> QED BY <1>3, <1>5, <1>8, <1>9, <3>1, <3>3, <3>4, <3>5, <3>6, <3>7, MasterKeepsTypes
    <2> QED BY <1>14, <2>1, <2>2 DEF CreateRequest
  <1>15. CASE OpenForEcho \/ OpenForAck
    <2>1. CASE Ends(Master)
      BY <1>7, <1>15, <2>1 DEF OpenForEcho, OpenForAck
    <2>2. CASE ~Ends(Master)
      <3>1. /\ pc[Master] \in Known /\ Host \in Names
            /\ UNCHANGED <<files, url, children, starts>>
        BY <1>15 DEF OpenForEcho, OpenForAck, Runs, TypeInv, HostInv, Known
      <3>2. Response(Host) \in Paths /\ Request(Host) \in Paths
        BY <3>1 DEF Paths
      <3>3. PICK f \in Paths, s \in {"echo", "ack"} :
              /\ fs[f] # Absent /\ pc' = [pc EXCEPT ![Master] = s]
              /\ OpenRead(Master, fs[f]) \/ OpenWrite(Master, fs[f])
              /\ res' = res \/ res' = [res EXCEPT ![Master] = fs[f]]
              /\ req' = req \/ req' = [req EXCEPT ![Master] = fs[f]]
        BY <1>15, <2>2, <3>2 DEF OpenForEcho, OpenForAck, Goto
      <3>4. fs[f] \in Pipe
        BY <1>1, <3>3 DEF TypeOK
      <3>5. blocked' \in [Procs -> Pipe \cup {Absent}] /\ EndTypes' /\ data' = data
        BY <1>1, <3>3, <3>4, OpenTypes
      <3>6. res' \in [Procs -> Pipe \cup {Absent}] /\ given(res, res')
        <4>1. res \in [Procs -> Pipe \cup {Absent}]
          BY <1>1 DEF TypeOK
        <4>2. given(res, res')
          BY <3>3, <4>1
        <4> QED BY <3>3, <3>4, <4>1, <4>2
      <3>7. req' \in [Procs -> Pipe \cup {Absent}] /\ given(req, req')
        <4>1. req \in [Procs -> Pipe \cup {Absent}]
          BY <1>1 DEF TypeOK
        <4>2. given(req, req')
          BY <3>3, <4>1
        <4> QED BY <3>3, <3>4, <4>1, <4>2
      <3>8. ProcTypes'
        BY <3>5, <3>6, <3>7 DEF ProcTypes
      <3>9. fewer
        BY <1>2, <3>5
      <3>10. s \in Steps /\ s \in Known /\ s \notin {"url", "hangup", "create"}
        BY DEF Steps, Known
      <3> QED BY <1>6, <3>1, <3>3, <3>5, <3>6, <3>7, <3>8, <3>9, <3>10
    <2> QED BY <2>1, <2>2
  <1>16. CASE WriteEcho
    <2>1. pc[Master] \in Known /\ Host \in Names /\ UNCHANGED <<files, url, children, starts>>
      BY <1>16 DEF WriteEcho, Runs, TypeInv, HostInv, Known
    <2>2. /\ EndTypes' /\ ProcTypes'
          /\ \A q \in Procs : res'[q] \in {Absent, res[q]} /\ req'[q] \in {Absent, req[q]}
          /\ \/ pc' = [pc EXCEPT ![Master] = "exited"] /\ fewer
             \/ /\ pc' = [pc EXCEPT ![Master] = "request"]
                /\ data'[In] = IF res[Master] = In THEN Append(data[In], Text) ELSE data[In]
      <3>1. Send(Master, res[Master], Text, "request") /\ Text \in Token
        BY <1>1, <1>16 DEF WriteEcho, Text, Token
      <3>2. TypeOK /\ NumberInv /\ Master \in Procs /\ res[Master] # In
        BY <1>1, Sorts DEF NumberInv
      <3> QED BY <3>1, <3>2, EchoTypes
    <2>3. res[Master] # In
      BY <1>1, Sorts DEF NumberInv
    <2>4. PICK s \in {"exited", "request"} : pc' = [pc EXCEPT ![Master] = s]
      BY <2>2
    <2>5. fewer
      BY <1>2, <2>2, <2>3
    <2>6. given(res, res') /\ given(req, req')
      BY <2>2
    <2>7. s \in Steps /\ s \notin {"url", "hangup", "create"}
      BY DEF Steps
    <2> QED BY <1>6, <2>1, <2>2, <2>4, <2>5, <2>6, <2>7
  <1>17. CASE ReadAck
    <2>1. pc[Master] = "ack" /\ Host \in Names /\ UNCHANGED <<files, url, closing, starts>>
      BY <1>17 DEF ReadAck, Runs, TypeInv, HostInv, Known
    <2>2. CASE Next1(req[Master]) # Text
      BY <1>7, <1>17, <2>1, <2>2 DEF ReadAck, children
    <2>3. CASE Next1(req[Master]) = Text
      <3>1. /\ Fork /\ blocked' = blocked
            /\ res' = [res EXCEPT ![Master] = Absent] /\ req' = [req EXCEPT ![Master] = Absent]
        BY <1>17, <2>3 DEF ReadAck
      <3>2. data[req[Master]] # << >>
        BY <2>3, Sorts DEF Next1, Text, Host, TypeInv, TypeOK
      <3>3. PICK s \in {"accept", "exited"} : pc' = [pc EXCEPT ![Master] = s]
        BY <3>1 DEF Fork, Goto
      <3>4. EndTypes' /\ fewer
        BY <1>1, <3>1, <3>2, ForkTypes
      <3>5. ProcTypes' /\ given(res, res') /\ given(req, req')
        <4>1. /\ blocked \in [Procs -> Pipe \cup {Absent}]
              /\ res \in [Procs -> Pipe \cup {Absent}] /\ req \in [Procs -> Pipe \cup {Absent}]
          BY <1>1 DEF TypeOK
        <4>2. ProcTypes'
          BY <3>1, <4>1 DEF ProcTypes
        <4>3. \A q \in Procs : res'[q] \in {Absent, res[q]} /\ req'[q] \in {Absent, req[q]}
          BY <3>1, <4>1
        <4> QED BY <4>2, <4>3
      <3>6. workers' \in [Names -> Nat] /\ kept' \in Nat
        <4>1. workers \in [Names -> Nat] /\ workers[Host] + 1 \in Nat
          BY <1>1, <2>1
        <4>2. workers' = workers \/ workers' = [workers EXCEPT ![Host] = @ + 1]
          BY <3>1 DEF Fork
        <4>3. kept' = kept \/ kept' = kept + 2
          BY <3>1 DEF Fork
        <4>4. workers' \in [Names -> Nat]
          BY <4>1, <4>2
        <4>5. kept' \in Nat
          BY <1>1, <4>3
        <4> QED BY <4>4, <4>5
      <3>7. Unused' = 0
        BY <1>3, <3>3 DEF Unused
      <3>8. npipes' + Texts(data'[In]) + Unused' <= npipes + Texts(data[In]) + Unused
        <4>1. Texts(data'[In]) \in Nat
          <5>1. data'[In] \in Seq(Names \cup {Zero})
            BY <3>4 DEF EndTypes, In
          <5> QED BY <5>1, TextsAppend
        <4> QED BY <1>2, <1>4, <2>1, <3>4, <3>7, <4>1
      <3>9. url' \in Seq(Names)
        BY <1>1, <2>1
      <3> QED BY <1>3, <1>4, <2>1, <3>3, <3>4, <3>5, <3>6, <3>8, <3>9, MasterKeepsTypes DEF Known
    <2> QED BY <2>2, <2>3
  <1>19. CASE WriteRest
    BY <1>7, <1>19 DEF WriteRest
  <1> QED BY <1>10, <1>11, <1>12, <1>13, <1>14, <1>15, <1>16, <1>17, <1>18, <1>19
          DEF MasterSteps, comm_accept

\* A worker removes two paths.
LEMMA WorkerTypes ==
  ASSUME TypeInv, NEW n \in Names, WorkerCloses(n) \/ WorkerUnlinks(n)
  PROVE  TypeInv'
  <1>1. UNCHANGED <<pc, blocked, res, req, listening, npipes, rd, wr, data, url, kept, starts>>
    BY DEF WorkerCloses, WorkerUnlinks, fds, ends
  <1>2. PICK f \in Paths : fs' = [fs EXCEPT ![f] = Absent]
    BY DEF WorkerCloses, WorkerUnlinks, unlink, Paths
  <1>3. fs' \in [Paths -> Pipe \cup {Absent}] /\ \A g \in Paths : fs'[g] \in {Absent, fs[g]}
    BY <1>2 DEF TypeInv, TypeOK
  <1>4. workers' \in [Names -> Nat] /\ closing' \in [Names -> Nat]
    <2>1. workers \in [Names -> Nat] /\ closing \in [Names -> Nat]
      BY DEF TypeInv, TypeOK
    <2>2. CASE WorkerCloses(n)
      <3>1. /\ workers' = [workers EXCEPT ![n] = @ - 1] /\ closing' = [closing EXCEPT ![n] = @ + 1]
            /\ workers[n] - 1 \in Nat /\ closing[n] + 1 \in Nat
        BY <2>1, <2>2 DEF WorkerCloses
      <3> QED BY <2>1, <3>1
    <2>3. CASE WorkerUnlinks(n)
      <3>1. /\ workers' = workers /\ closing' = [closing EXCEPT ![n] = @ - 1]
            /\ closing[n] - 1 \in Nat
        BY <2>1, <2>3 DEF WorkerUnlinks
      <3> QED BY <2>1, <3>1
    <2> QED BY <2>2, <2>3
  <1>5. TypeOK'
    BY <1>1, <1>3, <1>4 DEF TypeInv, TypeOK
  <1>6. NumberInv' /\ HostInv'
    BY <1>1, <1>3 DEF TypeInv, NumberInv, HostInv, Host
  <1>7. CountInv'
    BY <1>1 DEF TypeInv, CountInv, Tokens, Texts, Unused, Spending, Spent, Stage, In
  <1> QED BY <1>5, <1>6, <1>7 DEF TypeInv

\* A process is killed.
LEMMA KilledTypes ==
  ASSUME TypeInv, NEW p \in Procs, Killed(p)
  PROVE  TypeInv'
  <1>1. /\ pc' = [pc EXCEPT ![p] = "exited"] /\ EndTypes' /\ ProcTypes'
        /\ \A q \in Procs : res'[q] \in {Absent, res[q]} /\ req'[q] \in {Absent, req[q]}
        /\ Texts(data'[In]) <= Texts(data[In])
    BY EndsTypes DEF Killed, TypeInv
  <1>2. UNCHANGED <<listening, fs, npipes, url, children, workers, closing, kept, starts>>
    BY DEF Killed, files, children
  <1>3. /\ TypeOK /\ fs \in [Paths -> Pipe \cup {Absent}]
        /\ npipes \in Nat \ {0} /\ Texts(data[In]) \in Nat /\ Unused \in Nat
    BY Counted DEF TypeInv, TypeOK
  <1>4. "exited" \in Steps /\ Stage(pc[p]) <= Stage("exited")
    BY DEF Steps, Stage
  <1>5. CASE p \in Clients
    <2>1. /\ \A q \in Procs : res'[q] \in {Absent, res[q]} \cup {fs[f] : f \in Paths}
          /\ \A q \in Procs : req'[q] \in {Absent, req[q]} \cup {fs[f] : f \in Paths}
      BY <1>1
    <2>2. fs' \in [Paths -> Pipe \cup {Absent}] /\ \A f \in Paths : fs'[f] \in {Absent, fs[f]}
      BY <1>2, <1>3
    <2> QED BY <1>1, <1>2, <1>4, <1>5, <2>1, <2>2, ClientKeepsTypes
  <1>6. CASE p = Master
    <2>1. Unused' = 0
      BY <1>1, <1>3, <1>6, Sorts DEF TypeOK, Unused
    <2>2. Texts(data'[In]) \in Nat
      <3>1. data'[In] \in Seq(Names \cup {Zero})
        BY <1>1, Sorts DEF EndTypes, In
      <3> QED BY <3>1, TextsAppend
    <2>3. npipes' + Texts(data'[In]) + Unused' <= npipes + Texts(data[In]) + Unused
      BY <1>1, <1>2, <1>3, <2>1, <2>2
    <2>4. fs' \in [Paths -> Nat] /\ \A f \in Paths : fs'[f] = Absent \/ fs'[f] \in 2 .. npipes'
      <3>1. Pipe \cup {Absent} \subseteq Nat
        BY Sorts
      <3>2. fs' \in [Paths -> Nat]
        BY <1>2, <1>3, <3>1
      <3> QED BY <1>2, <3>2 DEF TypeInv, NumberInv
    <2>5. /\ \A q \in Procs : res'[q] \in {Absent, res[q]} \cup {fs[f] : f \in Paths}
          /\ \A q \in Procs : req'[q] \in {Absent, req[q]} \cup {fs[f] : f \in Paths}
      BY <1>1
    <2>6. /\ listening' \in BOOLEAN /\ url' \in Seq(Names) /\ workers' \in [Names -> Nat]
          /\ kept' \in Nat
      BY <1>2, <1>3 DEF TypeOK
    <2> QED BY <1>1, <1>2, <1>3, <1>4, <1>6, <2>3, <2>4, <2>5, <2>6, MasterKeepsTypes DEF Known
  <1> QED BY <1>5, <1>6, Sorts

\* A program is started again; the start before has had both its FIFOs.
LEMMA RestartTypes ==
  ASSUME TypeInv, NEW p \in Procs, Restart(p)
  PROVE  TypeInv'
  <1> DEFINE s == IF p = Master THEN "listen" ELSE "prompt"
  <1>1. /\ pc[p] = "exited" /\ starts[p] < MaxStarts /\ starts' = [starts EXCEPT ![p] = @ + 1]
        /\ pc' = [pc EXCEPT ![p] = s]
        /\ UNCHANGED <<blocked, res, req, listening, fs, npipes, rd, wr, data, url, workers, closing>>
        /\ kept' \in {0, kept}
    BY DEF Restart, Goto, fds, files, ends
  <1>2. pc \in [Procs -> Steps] /\ starts \in [Procs -> 1 .. MaxStarts]
    BY DEF TypeInv, TypeOK, Steps
  <1>3. starts[p] + 1 \in 1 .. MaxStarts
    BY <1>1, <1>2, Sorts
  <1>4. pc' \in [Procs -> Steps] /\ starts' \in [Procs -> 1 .. MaxStarts]
    <2>1. s \in Steps
      BY DEF Steps
    <2> QED BY <1>1, <1>2, <1>3, <2>1
  <1>5. TypeOK'
    BY <1>1, <1>4 DEF TypeInv, TypeOK, Steps, In
  <1>6. NumberInv' /\ HostInv'
    BY <1>1, <1>2, Sorts DEF TypeInv, NumberInv, HostInv, Host, Known
  <1>7. Spent' = Spent
    <2>1. \A c \in Clients : 2 * (starts'[c] - 1) + Stage(pc'[c]) = 2 * (starts[c] - 1) + Stage(pc[c])
      <3>1. SUFFICES ASSUME NEW c \in Clients
                     PROVE  2 * (starts'[c] - 1) + Stage(pc'[c]) = 2 * (starts[c] - 1) + Stage(pc[c])
        OBVIOUS
      <3>2. CASE c = p
        <4>1. Stage(pc[c]) = 2 /\ Stage(pc'[c]) = 0 /\ starts'[c] = starts[c] + 1 /\ starts[c] \in Nat
          BY <1>1, <1>2, <3>2, Sorts DEF Stage
        <4> QED BY <4>1
      <3>3. CASE c # p
        BY <1>1, <1>2, <3>3, Sorts
      <3> QED BY <3>2, <3>3
    <2> QED BY <2>1 DEF Spent, Stage
  <1>8. Unused' <= Unused
    <2>1. p = Master => Unused = 0 /\ Unused' = 0
      BY <1>1, <1>4, <1>2 DEF Unused
    <2>2. p # Master => Unused' = Unused
      BY <1>1, <1>2, Sorts DEF Unused
    <2>3. Unused \in Nat
      BY Counted DEF TypeInv
    <2> QED BY <2>1, <2>2, <2>3
  <1>9. CountInv'
    <2>1. Tokens' <= Tokens /\ Tokens' \in Nat /\ Tokens \in Nat
      <3>1. /\ npipes \in Nat \ {0} /\ Texts(data[In]) \in Nat /\ Unused \in Nat /\ Tokens \in Nat
        BY Counted DEF TypeInv
      <3>2. Unused' \in Nat
        BY Counted, <1>5 DEF Unused, TypeOK
      <3>3. Texts(data[In])' = Texts(data[In])
        BY <1>1 DEF Texts, In
      <3> QED BY <1>1, <1>8, <3>1, <3>2, <3>3 DEF Tokens
    <2>2. Cardinality(Spending(Spent))' = Cardinality(Spending(Spent))
      BY <1>7 DEF Spending
    <2> QED BY <2>1, <2>2, SpendingBound DEF TypeInv, CountInv
  <1> QED BY <1>5, <1>6, <1>9 DEF TypeInv

LEMMA InitTypes == Init => TypeInv
  <1> SUFFICES ASSUME Init PROVE TypeInv
    OBVIOUS
  <1>1. TypeOK
    <2>1. pc \in [Procs -> Steps] /\ ProcTypes /\ npipes \in Pipe
      BY Sorts DEF Init, Steps, ProcTypes
    <2>2. EndTypes
      BY Sorts DEF Init, EndTypes
    <2>3. fs \in [Paths -> Pipe \cup {Absent}] /\ url \in Seq(Names) /\ listening \in BOOLEAN
      <3>1. << >> \in Seq(Names)
        OBVIOUS
      <3> QED BY <3>1 DEF Init
    <2>4. workers \in [Names -> Nat] /\ closing \in [Names -> Nat] /\ kept \in Nat
      BY DEF Init
    <2>5. starts \in [Procs -> 1 .. MaxStarts]
      <3>1. 1 \in 1 .. MaxStarts
        BY Sorts
      <3> QED BY <3>1 DEF Init
    <2> QED BY <2>1, <2>2, <2>3, <2>4, <2>5 DEF TypeOK, Steps, ProcTypes, EndTypes, Token
  <1>2. NumberInv /\ HostInv
    BY Sorts DEF Init, NumberInv, HostInv, Known
  <1>3. CountInv
    <2>1. {k \in 1 .. Len(data[In]) : data[In][k] # Zero} = {}
      <3>1. data[In] = << >> /\ 1 .. Len(<< >>) = {}
        BY Sorts DEF Init
      <3> QED BY <3>1
    <2>2. Texts(data[In]) = 0
      BY <2>1, FS_EmptySet DEF Texts
    <2>3. npipes = 1 /\ Unused = 0
      BY Sorts DEF Init, Unused
    <2>4. Cardinality(Spending(Spent)) \in Nat
      BY SpendingBound
    <2> QED BY <2>2, <2>3, <2>4 DEF CountInv, Tokens
  <1> QED BY <1>1, <1>2, <1>3 DEF TypeInv

LEMMA NextTypes == TypeInv /\ [Next]_vars => TypeInv'
  <1> SUFFICES ASSUME TypeInv, [Next]_vars PROVE TypeInv'
    OBVIOUS
  <1>1. CASE Next
    <2>1. CASE MasterSteps
      BY <2>1, MasterTypes
    <2>2. CASE \E c \in Clients :
                 CreateResponse(c) \/ connection_open(c) \/ ClientCloses(c) \/ ClientUnlinks(c)
      BY <2>2, ClientTypes
    <2>3. CASE \E n \in Names : WorkerCloses(n) \/ WorkerUnlinks(n)
      BY <2>3, WorkerTypes
    <2>4. CASE \E p \in Procs : Killed(p) \/ Restart(p)
      BY <2>4, KilledTypes, RestartTypes
    <2> QED BY <1>1, <2>1, <2>2, <2>3, <2>4 DEF Next
  <1>2. CASE UNCHANGED vars
    <2>1. UNCHANGED <<pc, blocked, res, req, listening, fs, npipes, rd, wr, data, url, workers,
                      closing, kept, starts>>
      BY <1>2 DEF vars, fds, files, ends, children
    <2>2. TypeOK' /\ NumberInv' /\ HostInv'
      BY <2>1 DEF TypeInv, TypeOK, NumberInv, HostInv, Host, In
    <2>3. CountInv'
      BY <2>1 DEF TypeInv, CountInv, Tokens, Texts, Unused, Spending, Spent, Stage, In
    <2> QED BY <2>2, <2>3 DEF TypeInv
  <1> QED BY <1>1, <1>2

LEMMA AlwaysTypes == Spec => []TypeInv
  BY InitTypes, NextTypes, PTL DEF Spec

\* The types.  Each start of a client accounts for two FIFOs, its own and the
\* one the master makes for its url, whatever urls are mixed or lost and
\* whoever is killed (comm.connection.fifo.c 37-70, comm.read.fifo.c 86-123).
THEOREM TypeCorrect == Spec => []TypeOK
  <1>1. TypeInv => TypeOK
    BY DEF TypeInv
  <1> QED BY <1>1, AlwaysTypes, PTL

-----------------------------------------------------------------------------
(* A client and its worker.                                                *)

OwnNames == \A c \in Clients, d \in Clients : Name[c] = Name[d] => c = d

\* Each name is one client's, or each is that of one or two, and all are started
\* once.
AtMostTwo ==
  \A c \in Clients, d \in Clients, e \in Clients :
    Name[c] = Name[d] /\ Name[d] = Name[e] => c = d \/ d = e \/ c = e
FewNames == OwnNames \/ (MaxStarts = 1 /\ AtMostTwo)

Early == {"connect", "text", "zero", "hangup", "response"}
Holding == {"echo", "request", "ack", "open", "unlink"}
Late == {"echo", "request", "ack"}
Active == Early \cup Late

\* The two FIFOs of a client's name.
Resp(c) == fs[Response(Name[c])]
Reqs(c) == fs[Request(Name[c])]

\* The clients that have an end of pipe i open.
Users(i) == (rd[i] \cup wr[i]) \cap Clients

\* Pipes not made yet are unused, and a pipe has one path at most.
FreshInv ==
  /\ \A i \in Pipe : i > npipes => rd[i] = {} /\ wr[i] = {} /\ data[i] = << >>
  /\ \A f \in Paths, g \in Paths : fs[f] = fs[g] /\ fs[f] # Absent => f = g

\* No pipe is used as response and as request FIFO.
KindInv ==
  \A p \in Procs, q \in Procs, n \in Names :
    /\ res[p] # Absent => res[p] # req[q] /\ res[p] # fs[Request(n)]
    /\ req[p] # Absent => req[p] # fs[Response(n)]

\* What a client has open; until it has acknowledged, the path of its response
\* FIFO is the client's as long as it exists.
HoldInv ==
  \A c \in Clients :
    /\ pc[c] \in Holding <=> res[c] # Absent
    /\ res[c] # Absent => c \in rd[res[c]]
    /\ pc[c] \in Late => fs[Response(Name[c])] \in {Absent, res[c]}
    /\ pc[c] \in {"ack", "open"} => req[c] # Absent /\ c \in wr[req[c]]

\* Only one client uses a pipe, under whose name the path is.
UserInv ==
  /\ \A i \in Pipe \ {In} : \A c \in Users(i), d \in Users(i) : c = d
  /\ \A f \in Paths : fs[f] # Absent => \A c \in Users(fs[f]) : Name[c] = f[2]

\* Client c has no echo, or a connection from before: it has not opened the
\* request FIFO that the master has made.
Elsewhere(c) ==
  \/ pc[c] = "echo" /\ data[res[c]] = << >>
  \/ /\ pc[c] \in {"open", "unlink"}
     /\ \A i \in {req[Master], fs[Request(Host)]} \ {Absent} : c \notin wr[i]

\* The master echoes to the client whose request FIFO it has made: a client of
\* the name has no echo but from the response FIFO that the master has open.
EchoInv ==
  /\ pc[Master] \in Late <=> res[Master] # Absent
  /\ pc[Master] = "ack" <=> req[Master] # Absent
  /\ res[Master] # Absent =>
       /\ \A c \in Clients : Name[c] = Host /\ res[c] \notin {Absent, res[Master]} => Elsewhere(c)
       /\ fs[Response(Host)] \notin {Absent, res[Master]} => data[fs[Response(Host)]] = << >>
  /\ req[Master] # Absent =>
       /\ \A c \in Clients : c \in wr[req[Master]] => Name[c] = Host
       /\ \A f \in Paths : fs[f] = req[Master] => f = Request(Host)

\* A worker has the other ends of a connection whose acknowledgement is read, or
\* the master ended before it could fork.
Served(c) ==
  \/ Forked \in rd[req[c]] /\ Forked \in wr[res[c]]
  \/ ForkMayBeMissing /\ rd[req[c]] = {}
WorkerInv == \A c \in Clients : pc[c] = "open" /\ data[req[c]] = << >> => Served(c)

PairInv == FreshInv /\ KindInv /\ HoldInv /\ UserInv /\ EchoInv /\ WorkerInv

\* Whoever has the request FIFO that the master has made waits for the master.
Offers == {"response", "echo", "request"}
QuietInv ==
  pc[Master] \in Offers /\ fs[Request(Host)] # Absent =>
    /\ rd[fs[Request(Host)]] = {} /\ data[fs[Request(Host)]] = << >>
    /\ \A c \in Users(fs[Request(Host)]) : pc[c] = "ack" /\ blocked[c] = fs[Request(Host)]

\* The response FIFO that the master has open is one of the name it has read.
CalledInv ==
  res[Master] # Absent =>
    /\ \A c \in Clients : res[c] = res[Master] => Name[c] = Host
    /\ \A f \in Paths : fs[f] = res[Master] => f = Response(Host)

\* Client c has its echo, read or not.
Echoed(c) ==
  \/ pc[c] = "request"
  \/ pc[c] = "echo" /\ data[res[c]] # << >>
  \/ pc[c] \in Early /\ Resp(c) # Absent /\ data[Resp(c)] # << >>

\* Clients c and d of one name: while c connects, d does not and has none of the
\* FIFOs that c opens next; as long as d has not begun and c is not done, there is
\* no worker of their name, and there will be none before c has acknowledged.
Namesakes(c, d) ==
  /\ pc[c] \in Active => pc[d] \notin Active
  /\ pc[c] \in Active /\ pc[d] = "prompt" => Resp(c) # Absent
  /\ pc[c] \in Early /\ Resp(c) # Absent => d \notin Users(Resp(c))
  /\ Echoed(c) /\ Reqs(c) # Absent => d \notin Users(Reqs(c))
  /\ pc[c] \in Active \cup {"prompt"} /\ pc[d] = "prompt" =>
       /\ workers[Name[c]] = 0 /\ closing[Name[c]] = 0
       /\ req[Master] # Absent /\ Host = Name[c] => data[req[Master]] = << >>

NamesInv == \A c \in Clients, d \in Clients : c # d /\ Name[c] = Name[d] => Namesakes(c, d)

ShareInv == QuietInv /\ CalledInv /\ NamesInv

\* Nobody but the master reads the request FIFO that it has open.
ReaderInv == req[Master] # Absent => rd[req[Master]] \subseteq {Master}

\* Client c goes on as it is, ends, or closes its request FIFO.
ClientGoesOn(c) ==
  \/ /\ pc'[c] = pc[c] /\ res'[c] = res[c] /\ req'[c] = req[c]
     /\ \A i \in Pipe \ {In} : (c \in rd[i] => c \in rd'[i]) /\ (c \in wr[i] => c \in wr'[i])
  \/ res'[c] = Absent /\ pc'[c] \notin Holding
  \/ /\ pc[c] = "open" /\ pc'[c] = "unlink" /\ res'[c] = res[c]
     /\ c \in rd[res[c]] => c \in rd'[res[c]]

\* A step that uses the server's FIFO only, closes or removes.
LEMMA PairsKept ==
  ASSUME TypeInv, PairInv, npipes' = npipes,
         \A f \in Paths : fs'[f] \in {Absent, fs[f]},
         \A p \in Procs : res'[p] \in {Absent, res[p]} /\ req'[p] \in {Absent, req[p]},
         \A i \in Pipe \ {In} :
           /\ rd'[i] \subseteq rd[i] /\ wr'[i] \subseteq wr[i]
           /\ Forked \in rd[i] => Forked \in rd'[i]
           /\ Forked \in wr[i] => Forked \in wr'[i]
           /\ \/ data'[i] = data[i]
              \/ data'[i] = << >> /\ rd'[i] = {} /\ wr'[i] = {},
         \A c \in Clients : ClientGoesOn(c),
         \/ /\ pc'[Master] = pc[Master] /\ res'[Master] = res[Master]
            /\ req'[Master] = req[Master] /\ (res[Master] # Absent => Host' = Host)
         \/ pc'[Master] \notin Late /\ res'[Master] = Absent /\ req'[Master] = Absent
  PROVE  PairInv'
  <1>1. /\ npipes \in Pipe
        /\ \A f \in Paths : fs[f] = Absent \/ fs[f] \in Pipe \ {In}
        /\ \A p \in Procs : res[p] = Absent \/ res[p] \in Pipe \ {In}
        /\ \A p \in Procs : req[p] = Absent \/ req[p] \in Pipe \ {In}
    <2>1. npipes \in Pipe
      BY DEF TypeInv, TypeOK
    <2> QED BY <2>1, Ranges
  <1>2. FreshInv'
    <2>1. \A i \in Pipe : i > npipes => i # In
      BY <1>1, Sorts
    <2>2. \A i \in Pipe : i > npipes => rd'[i] = {} /\ wr'[i] = {} /\ data'[i] = << >>
      BY <2>1 DEF PairInv, FreshInv
    <2>3. \A f \in Paths, g \in Paths : fs'[f] = fs'[g] /\ fs'[f] # Absent => f = g
      BY DEF PairInv, FreshInv
    <2> QED BY <2>2, <2>3 DEF FreshInv
  <1>3. KindInv'
    <2>1. \A n \in Names : Request(n) \in Paths /\ Response(n) \in Paths
      BY DEF Paths
    <2> SUFFICES ASSUME NEW p \in Procs, NEW q \in Procs, NEW n \in Names
                 PROVE  /\ res'[p] # Absent => res'[p] # req'[q] /\ res'[p] # fs'[Request(n)]
                        /\ req'[p] # Absent => req'[p] # fs'[Response(n)]
      BY DEF KindInv, Request, Response
    <2> QED BY <2>1 DEF PairInv, KindInv
  <1>4. HoldInv'
    <2> SUFFICES ASSUME NEW c \in Clients
                 PROVE  /\ pc'[c] \in Holding <=> res'[c] # Absent
                        /\ res'[c] # Absent => c \in rd'[res'[c]]
                        /\ pc'[c] \in Late => fs'[Response(Name[c])] \in {Absent, res'[c]}
                        /\ pc'[c] \in {"ack", "open"} => req'[c] # Absent /\ c \in wr'[req'[c]]
      BY DEF HoldInv, Response
    <2>1. /\ pc[c] \in Holding <=> res[c] # Absent
          /\ res[c] # Absent => c \in rd[res[c]]
          /\ pc[c] \in Late => fs[Response(Name[c])] \in {Absent, res[c]}
          /\ pc[c] \in {"ack", "open"} => req[c] # Absent /\ c \in wr[req[c]]
      BY DEF PairInv, HoldInv
    <2>2. c \in Procs /\ Response(Name[c]) \in Paths
      BY Sorts DEF Paths
    <2>3. fs'[Response(Name[c])] \in {Absent, fs[Response(Name[c])]}
      BY <2>2
    <2>4. (res[c] = Absent \/ res[c] \in Pipe \ {In}) /\ (req[c] = Absent \/ req[c] \in Pipe \ {In})
      BY <1>1, <2>2
    <2> QED BY <2>1, <2>3, <2>4 DEF ClientGoesOn, Holding, Late
  <1>5. UserInv'
    <2>1. \A i \in Pipe \ {In} : Users(i)' \subseteq Users(i)
      BY DEF Users
    <2>2. \A i \in Pipe \ {In} : \A c \in Users(i)', d \in Users(i)' : c = d
      BY <2>1 DEF PairInv, UserInv
    <2>3. \A f \in Paths : fs'[f] # Absent => fs'[f] = fs[f] /\ Users(fs[f])' \subseteq Users(fs[f])
      BY <1>1, <2>1 DEF Users
    <2>4. \A f \in Paths : fs'[f] # Absent => \A c \in Users(fs[f])' : Name[c] = f[2]
      BY <2>3 DEF PairInv, UserInv
    <2> QED BY <2>2, <2>4 DEF UserInv
  <1>6. EchoInv'
    <2>1. CASE pc'[Master] \notin Late /\ res'[Master] = Absent /\ req'[Master] = Absent
      BY <2>1 DEF EchoInv, Late
    <2>2. CASE /\ pc'[Master] = pc[Master] /\ res'[Master] = res[Master]
               /\ req'[Master] = req[Master] /\ (res[Master] # Absent => Host' = Host)
      <3>1. /\ pc'[Master] \in Late <=> res'[Master] # Absent
            /\ pc'[Master] = "ack" <=> req'[Master] # Absent
        BY <2>2 DEF PairInv, EchoInv
      <3>2. ASSUME res'[Master] # Absent
            PROVE  /\ \A c \in Clients : Name[c] = Host' /\ res'[c] \notin {Absent, res'[Master]} =>
                        Elsewhere(c)'
                   /\ fs'[Response(Host)'] \notin {Absent, res'[Master]} =>
                        data'[fs'[Response(Host)']] = << >>
        <4>1. Host' = Host /\ Response(Host)' = Response(Host) /\ Host \in Names
          BY <2>2, <3>1, <3>2 DEF Response, TypeInv, HostInv, PairInv, EchoInv, Late, Known
        <4>2. ASSUME NEW c \in Clients, Name[c] = Host, res'[c] \notin {Absent, res'[Master]}
              PROVE  Elsewhere(c)'
          <5>1. c \in Procs
            BY Sorts
          <5>2. res'[c] = res[c] /\ res[c] \in Pipe \ {In}
            BY <1>1, <4>2, <5>1
          <5>3. Elsewhere(c)
            BY <2>2, <3>2, <4>2, <5>2 DEF PairInv, EchoInv
          <5>4. CASE pc[c] = "echo" /\ data[res[c]] = << >>
            <6>1. pc'[c] = pc[c]
              BY <4>2, <5>4 DEF ClientGoesOn
            <6> QED BY <5>2, <5>4, <6>1 DEF Elsewhere
          <5>5. CASE /\ pc[c] \in {"open", "unlink"}
                     /\ \A i \in {req[Master], fs[Request(Host)]} \ {Absent} : c \notin wr[i]
            <6>1. pc'[c] \in {"open", "unlink"}
              BY <4>2, <5>5 DEF ClientGoesOn
            <6>2. /\ Request(Host) \in Paths /\ Request(Host)' = Request(Host)
                  /\ fs'[Request(Host)] \in {Absent, fs[Request(Host)]}
              BY <4>1, Ranges DEF Request
            <6>3. \A i \in {req[Master], fs[Request(Host)]} \ {Absent} : wr'[i] \subseteq wr[i]
              BY <1>1, <6>2, Sorts
            <6>4. \A i \in {req'[Master], fs'[Request(Host)]} \ {Absent} : c \notin wr'[i]
              BY <2>2, <5>5, <6>2, <6>3
            <6> QED BY <6>1, <6>2, <6>4 DEF Elsewhere
          <5> QED BY <5>3, <5>4, <5>5 DEF Elsewhere
        <4>3. ASSUME fs'[Response(Host)] \notin {Absent, res'[Master]}
              PROVE  data'[fs'[Response(Host)]] = << >>
          <5>1. Response(Host) \in Paths
            BY <4>1 DEF Paths
          <5>2. fs'[Response(Host)] = fs[Response(Host)] /\ fs[Response(Host)] \in Pipe \ {In}
            BY <1>1, <4>3, <5>1
          <5>3. data[fs[Response(Host)]] = << >>
            BY <2>2, <3>2, <4>3, <5>2 DEF PairInv, EchoInv
          <5> QED BY <5>2, <5>3
        <4> QED BY <4>1, <4>2, <4>3
      <3>3. ASSUME req'[Master] # Absent
            PROVE  /\ \A c \in Clients : c \in wr'[req'[Master]] => Name[c] = Host'
                   /\ \A f \in Paths : fs'[f] = req'[Master] => f = Request(Host)'
        <4>1. Host' = Host /\ Request(Host)' = Request(Host)
          BY <2>2, <3>1, <3>3 DEF Request, Late
        <4>2. req[Master] \in Pipe \ {In} /\ req'[Master] = req[Master]
          BY <1>1, <2>2, <3>3, Sorts
        <4>3. wr'[req[Master]] \subseteq wr[req[Master]]
          BY <4>2
        <4>4. /\ \A c \in Clients : c \in wr[req[Master]] => Name[c] = Host
              /\ \A f \in Paths : fs[f] = req[Master] => f = Request(Host)
          BY <3>3, <4>2 DEF PairInv, EchoInv
        <4> QED BY <3>3, <4>1, <4>2, <4>3, <4>4
      <3> QED BY <3>1, <3>2, <3>3 DEF EchoInv
    <2> QED BY <2>1, <2>2
  <1>7. WorkerInv'
    <2> SUFFICES ASSUME NEW c \in Clients, pc'[c] = "open", data'[req'[c]] = << >>
                 PROVE  Served(c)'
      BY DEF WorkerInv
    <2>1. /\ pc[c] = "open" /\ res'[c] = res[c] /\ req'[c] = req[c]
          /\ \A i \in Pipe \ {In} : c \in wr[i] => c \in wr'[i]
      BY DEF ClientGoesOn, Holding
    <2>2. res[c] # Absent /\ req[c] # Absent /\ c \in wr[req[c]]
      BY <2>1 DEF PairInv, HoldInv, Holding
    <2>3. res[c] \in Pipe \ {In} /\ req[c] \in Pipe \ {In}
      BY <1>1, <2>2, Sorts
    <2>4. data[req[c]] = << >>
      BY <2>1, <2>2, <2>3
    <2>5. Served(c)
      BY <2>1, <2>4 DEF PairInv, WorkerInv
    <2>6. rd'[req[c]] \subseteq rd[req[c]]
      BY <2>3
    <2> QED BY <2>1, <2>3, <2>5, <2>6 DEF Served
  <1> QED BY <1>2, <1>3, <1>4, <1>5, <1>6, <1>7 DEF PairInv

\* A FIFO is made, with a pipe that nobody has used.
LEMMA NewPipe ==
  ASSUME TypeInv, TypeInv', PairInv, NEW g \in Paths,
         fs' = [fs EXCEPT ![g] = npipes + 1], npipes' = npipes + 1
  PROVE  /\ fs'[g] = npipes + 1 /\ \A f \in Paths : f # g => fs'[f] = fs[f]
         /\ npipes + 1 \in Pipe /\ npipes + 1 # Absent
         /\ rd[npipes + 1] = {} /\ wr[npipes + 1] = {} /\ data[npipes + 1] = << >>
         /\ \A f \in Paths : fs[f] # npipes + 1
         /\ \A p \in Procs : res[p] # npipes + 1 /\ req[p] # npipes + 1
  <1>1. fs'[g] = npipes + 1 /\ \A f \in Paths : f # g => fs'[f] = fs[f]
    BY Ranges
  <1>2. npipes + 1 \in Pipe /\ npipes \in Nat
    BY Ranges DEF TypeInv, TypeOK
  <1>3. npipes + 1 # Absent /\ \A f \in Paths : fs[f] # npipes + 1
    BY <1>2, Ranges, Sorts
  <1>4. \A p \in Procs : res[p] # npipes + 1 /\ req[p] # npipes + 1
    BY <1>2, <1>3, Ranges
  <1>5. rd[npipes + 1] = {} /\ wr[npipes + 1] = {} /\ data[npipes + 1] = << >>
    BY <1>2 DEF PairInv, FreshInv
  <1> QED BY <1>1, <1>2, <1>3, <1>4, <1>5

LEMMA MadePairs ==
  ASSUME TypeInv, TypeInv', PairInv, NEW g \in Paths,
         fs' = [fs EXCEPT ![g] = npipes + 1], npipes' = npipes + 1,
         UNCHANGED <<res, req, rd, wr, data, url>>,
         \A c \in Clients : pc[c] \in Late => Response(Name[c]) # g,
         \A c \in Clients : pc'[c] = pc[c] \/ (pc[c] \notin Holding /\ pc'[c] \notin Holding),
         pc'[Master] = pc[Master] \/ (pc[Master] \notin Late /\ pc'[Master] \notin Late)
  PROVE  PairInv'
  <1> DEFINE new == npipes + 1
  <1>1. /\ fs'[g] = new /\ \A f \in Paths : f # g => fs'[f] = fs[f]
        /\ new \in Pipe /\ new # Absent
        /\ rd[new] = {} /\ wr[new] = {} /\ data[new] = << >>
        /\ \A f \in Paths : fs[f] # new
        /\ \A p \in Procs : res[p] # new /\ req[p] # new
    BY NewPipe
  <1>2. npipes \in Nat /\ Pipe \subseteq Nat
    BY Ranges, Sorts
  <1> HIDE DEF new
  <1>3. FreshInv'
    <2>1. \A i \in Pipe : i > npipes' => rd'[i] = {} /\ wr'[i] = {} /\ data'[i] = << >>
      BY <1>2 DEF PairInv, FreshInv
    <2>2. \A e \in Paths, f \in Paths : fs'[e] = fs'[f] /\ fs'[e] # Absent => e = f
      BY <1>1 DEF PairInv, FreshInv
    <2> QED BY <2>1, <2>2 DEF FreshInv
  <1>4. KindInv'
    <2> SUFFICES ASSUME NEW p \in Procs, NEW q \in Procs, NEW n \in Names
                 PROVE  /\ res'[p] # Absent => res'[p] # req'[q] /\ res'[p] # fs'[Request(n)]
                        /\ req'[p] # Absent => req'[p] # fs'[Response(n)]
      BY DEF KindInv, Request, Response
    <2>1. Request(n) \in Paths /\ Response(n) \in Paths
      BY Ranges
    <2>2. fs'[Request(n)] \in {fs[Request(n)], new} /\ fs'[Response(n)] \in {fs[Response(n)], new}
      BY <1>1, <2>1
    <2> QED BY <1>1, <2>2 DEF PairInv, KindInv
  <1>5. HoldInv'
    <2> SUFFICES ASSUME NEW c \in Clients
                 PROVE  /\ pc'[c] \in Holding <=> res'[c] # Absent
                        /\ res'[c] # Absent => c \in rd'[res'[c]]
                        /\ pc'[c] \in Late => fs'[Response(Name[c])] \in {Absent, res'[c]}
                        /\ pc'[c] \in {"ack", "open"} => req'[c] # Absent /\ c \in wr'[req'[c]]
      BY DEF HoldInv, Response
    <2>1. /\ pc[c] \in Holding <=> res[c] # Absent
          /\ res[c] # Absent => c \in rd[res[c]]
          /\ pc[c] \in Late => fs[Response(Name[c])] \in {Absent, res[c]}
          /\ pc[c] \in {"ack", "open"} => req[c] # Absent /\ c \in wr[req[c]]
      BY DEF PairInv, HoldInv
    <2>2. pc[c] \in Late => fs'[Response(Name[c])] = fs[Response(Name[c])]
      BY <1>1, Ranges, Sorts
    <2> QED BY <2>1, <2>2 DEF Holding, Late
  <1>6. UserInv'
    <2>1. \A i \in Pipe : Users(i)' = Users(i)
      BY DEF Users
    <2>2. \A f \in Paths : fs'[f] # Absent => \A c \in Users(fs[f])' : Name[c] = f[2]
      <3>1. Users(new) = {}
        BY <1>1 DEF Users
      <3>2. SUFFICES ASSUME NEW f \in Paths, fs'[f] # Absent, NEW c \in Users(fs[f])'
                     PROVE  Name[c] = f[2]
        OBVIOUS
      <3>3. Users(fs[f])' = Users(fs'[f])
        BY DEF Users
      <3>4. f # g
        BY <1>1, <3>1, <3>2, <3>3
      <3> QED BY <1>1, <3>2, <3>3, <3>4 DEF PairInv, UserInv
    <2> QED BY <2>1, <2>2 DEF PairInv, UserInv
  <1>7. EchoInv'
    <2>0. Host' = Host /\ Request(Host)' = Request(Host) /\ Response(Host)' = Response(Host)
      BY DEF Host, Request, Response
    <2>1. /\ pc'[Master] \in Late <=> res'[Master] # Absent
          /\ pc'[Master] = "ack" <=> req'[Master] # Absent
      BY DEF PairInv, EchoInv, Late
    <2>2. ASSUME res[Master] # Absent
          PROVE  /\ \A c \in Clients : Name[c] = Host /\ res[c] \notin {Absent, res[Master]} =>
                      Elsewhere(c)'
                 /\ fs'[Response(Host)] \notin {Absent, res[Master]} =>
                      data[fs'[Response(Host)]] = << >>
      <3>1. ASSUME NEW c \in Clients, Name[c] = Host, res[c] \notin {Absent, res[Master]}
            PROVE  Elsewhere(c)'
        <4>1. Elsewhere(c) /\ pc'[c] = pc[c]
          BY <2>2, <3>1 DEF PairInv, EchoInv, Elsewhere, Holding
        <4>2. fs'[Request(Host)] \in {fs[Request(Host)], new}
          BY <1>1, <2>2, Ranges DEF PairInv, EchoInv, TypeInv, HostInv, Late, Known
        <4> QED BY <1>1, <2>0, <4>1, <4>2 DEF Elsewhere
      <3>2. Response(Host) \in Paths
        BY <2>2, Ranges DEF PairInv, EchoInv, TypeInv, HostInv, Late, Known
      <3>3. fs'[Response(Host)] \in {fs[Response(Host)], new}
        BY <1>1, <3>2
      <3> QED BY <1>1, <2>2, <3>1, <3>3 DEF PairInv, EchoInv
    <2>3. ASSUME req[Master] # Absent
          PROVE  /\ \A c \in Clients : c \in wr[req[Master]] => Name[c] = Host
                 /\ \A f \in Paths : fs'[f] = req[Master] => f = Request(Host)
      BY <1>1, <2>3, Sorts DEF PairInv, EchoInv
    <2> QED BY <2>0, <2>1, <2>2, <2>3 DEF EchoInv
  <1>8. WorkerInv'
    BY DEF PairInv, WorkerInv, Served, Holding
  <1> QED BY <1>3, <1>4, <1>5, <1>6, <1>7, <1>8 DEF PairInv

\* An end of a FIFO is opened; a client opens the FIFOs of its name, which no
\* other client has.
LEMMA OpenedPairs ==
  ASSUME TypeInv, PairInv, NEW p \in Procs, NEW n \in Names,
         NEW f \in {Request(n), Response(n)}, fs[f] # Absent,
         p \in Clients => Name[p] = n /\ Users(fs[f]) \subseteq {p},
         UNCHANGED <<fs, npipes, data>>,
         rd' = rd \/ rd' = [rd EXCEPT ![fs[f]] = @ \cup {p}],
         wr' = wr \/ wr' = [wr EXCEPT ![fs[f]] = @ \cup {p}],
         f = Response(n) => res' = [res EXCEPT ![p] = fs[f]] /\ req' = req,
         f = Request(n) => req' = [req EXCEPT ![p] = fs[f]] /\ res' = res,
         \A c \in Clients : pc'[c] = "open" => pc[c] = "open" /\ c # p,
         rd' = rd \/ \A c \in Clients : pc[c] = "open" => req[c] # fs[f]
  PROVE  FreshInv' /\ KindInv' /\ UserInv' /\ WorkerInv'
  <1> DEFINE i == fs[f]
  <1>1. /\ f \in Paths /\ i \in Pipe \ {In} /\ i <= npipes /\ npipes \in Nat /\ f[2] = n
        /\ Request(n) \in Paths /\ Response(n) \in Paths /\ Request(n) # Response(n)
    <2>1. f[2] = n
      BY DEF Request, Response
    <2> QED BY <2>1, Ranges
  <1>2. /\ \A j \in Pipe : j # i => rd'[j] = rd[j] /\ wr'[j] = wr[j]
        /\ \A j \in Pipe : rd'[j] \in {rd[j], rd[j] \cup {p}} /\ wr'[j] \in {wr[j], wr[j] \cup {p}}
    BY <1>1, Ranges
  <1>3. \A q \in Procs : /\ res'[q] = res[q] \/ (f = Response(n) /\ res'[q] = i)
                         /\ req'[q] = req[q] \/ (f = Request(n) /\ req'[q] = i)
    BY <1>1, Ranges
  <1>4. \A g \in Paths : fs[g] = i => g = f
    BY <1>1 DEF PairInv, FreshInv
  <1> HIDE DEF i
  <1>5. FreshInv'
    <2>1. \A j \in Pipe : j > npipes' => rd'[j] = {} /\ wr'[j] = {} /\ data'[j] = << >>
      <3>1. SUFFICES ASSUME NEW j \in Pipe, j > npipes
                     PROVE  rd'[j] = {} /\ wr'[j] = {} /\ data[j] = << >>
        OBVIOUS
      <3>2. j # i
        BY <1>1, <3>1, Sorts
      <3> QED BY <1>2, <3>1, <3>2 DEF PairInv, FreshInv
    <2> QED BY <2>1 DEF PairInv, FreshInv
  <1>6. KindInv'
    <2> SUFFICES ASSUME NEW o \in Procs, NEW q \in Procs, NEW m \in Names
                 PROVE  /\ res'[o] # Absent => res'[o] # req'[q] /\ res'[o] # fs[Request(m)]
                        /\ req'[o] # Absent => req'[o] # fs[Response(m)]
      BY DEF KindInv, Request, Response
    <2>1. /\ Request(m) \in Paths /\ Response(m) \in Paths
          /\ Request(m) # Response(n) /\ Response(m) # Request(n)
      BY Ranges
    <2>2. CASE f = Response(n)
      <3>1. /\ req' = req /\ res'[o] \in {res[o], i} /\ fs[Request(m)] # i
            /\ req[q] # Absent => req[q] # i
        <4>1. req[q] # Absent => req[q] # fs[Response(n)]
          BY DEF PairInv, KindInv
        <4> QED BY <1>1, <1>3, <1>4, <2>1, <2>2, <4>1 DEF i
      <3> QED BY <1>1, <3>1, Sorts DEF PairInv, KindInv
    <2>3. CASE f = Request(n)
      <3>1. /\ res' = res /\ \A r \in Procs : req'[r] \in {req[r], i}
            /\ fs[Response(m)] # i
            /\ res[o] # Absent => res[o] # i
        <4>1. res[o] # Absent => res[o] # fs[Request(n)]
          BY DEF PairInv, KindInv
        <4> QED BY <1>1, <1>3, <1>4, <2>1, <2>3, <4>1 DEF i
      <3> QED BY <1>1, <3>1, Sorts DEF PairInv, KindInv
    <2> QED BY <2>2, <2>3
  <1>7. UserInv'
    <2>1. Users(i) \subseteq {c \in Clients : Name[c] = n}
      <3>1. \A c \in Users(fs[f]) : Name[c] = f[2]
        BY <1>1 DEF PairInv, UserInv
      <3> QED BY <1>1, <3>1 DEF i, Users
    <2>2. Users(i)' \subseteq Users(i) \cup ({p} \cap Clients)
      BY <1>1, <1>2 DEF Users, i
    <2>3. \A c \in Users(i)' : c \in Clients /\ Name[c] = n
      BY <2>1, <2>2
    <2>4. \A j \in Pipe : j # i => (rd[j] \cup wr[j])' = rd[j] \cup wr[j]
      BY <1>2
    <2>5. \A j \in Pipe \ {In} : \A c \in Users(j)', d \in Users(j)' : c = d
      <3>1. SUFFICES ASSUME NEW j \in Pipe \ {In}, NEW c \in Users(j)', NEW d \in Users(j)'
                     PROVE  c = d
        OBVIOUS
      <3>2. CASE j = i
        <4>1. c \in Users(i)' /\ d \in Users(i)'
          BY <3>1, <3>2 DEF Users, i
        <4>2. CASE p \in Clients
          <5>1. Users(i) \subseteq {p}
            BY <4>2 DEF i
          <5> QED BY <2>2, <4>1, <5>1
        <4>3. CASE p \notin Clients
          <5>1. c \in Users(i) /\ d \in Users(i)
            BY <2>2, <4>1, <4>3
          <5> QED BY <1>1, <3>1, <3>2, <5>1 DEF PairInv, UserInv
        <4> QED BY <4>2, <4>3
      <3>3. CASE j # i
        <4>1. c \in Users(j) /\ d \in Users(j)
          BY <2>4, <3>1, <3>3 DEF Users
        <4> QED BY <3>1, <4>1 DEF PairInv, UserInv
      <3> QED BY <3>2, <3>3
    <2>6. \A g \in Paths : fs'[g] # Absent => \A c \in Users(fs[g])' : Name[c] = g[2]
      <3>1. SUFFICES ASSUME NEW g \in Paths, fs[g] # Absent, NEW c \in Users(fs[g])'
                     PROVE  Name[c] = g[2]
        OBVIOUS
      <3>2. CASE g = f
        <4>1. c \in Users(i)'
          BY <3>1, <3>2 DEF Users, i
        <4> QED BY <1>1, <2>3, <3>2, <4>1
      <3>3. CASE g # f
        <4>1. fs[g] # i /\ fs[g] \in Pipe
          BY <1>4, <3>1, <3>3, Ranges
        <4>2. c \in Users(fs[g])
          BY <2>4, <3>1, <4>1 DEF Users
        <4> QED BY <3>1, <4>2 DEF PairInv, UserInv
      <3> QED BY <3>2, <3>3
    <2> QED BY <2>5, <2>6 DEF UserInv
  <1>8. WorkerInv'
    <2> SUFFICES ASSUME NEW c \in Clients, pc'[c] = "open", data[req'[c]] = << >>
                 PROVE  Served(c)'
      BY DEF WorkerInv
    <2>1. /\ pc[c] = "open" /\ c # p /\ c \in Procs
      BY Sorts
    <2>2. res'[c] = res[c] /\ req'[c] = req[c]
      BY <2>1, Ranges
    <2>3. Served(c)
      BY <2>1, <2>2 DEF PairInv, WorkerInv
    <2>4. res[c] \in Pipe /\ req[c] \in Pipe
      BY <2>1, Ranges DEF PairInv, HoldInv, Holding
    <2>5. rd'[req[c]] = rd[req[c]]
      BY <1>2, <2>1, <2>4 DEF i
    <2> QED BY <1>2, <2>2, <2>3, <2>4, <2>5 DEF Served
  <1> QED BY <1>5, <1>6, <1>7, <1>8

\* What is left when p closes its ends.
LEMMA ClosePairs ==
  ASSUME TypeInv, NEW p \in Procs, NEW S, Close(p, S)
  PROVE  \A i \in Pipe :
           /\ rd'[i] \subseteq rd[i] /\ wr'[i] \subseteq wr[i]
           /\ \A q : q # p => (q \in rd[i] <=> q \in rd'[i]) /\ (q \in wr[i] <=> q \in wr'[i])
           /\ Forked \in rd[i] => Forked \in rd'[i]
           /\ Forked \in wr[i] => Forked \in wr'[i]
           /\ i \notin S => rd'[i] = rd[i] /\ wr'[i] = wr[i]
           /\ \/ data'[i] = data[i]
              \/ data'[i] = << >> /\ rd'[i] = {} /\ wr'[i] = {}
  <1>1. p # Forked
    BY Sorts
  <1>2. \A i \in Pipe : /\ rd'[i] = IF i \in S THEN rd[i] \ {p} ELSE rd[i]
                        /\ wr'[i] = IF i \in S THEN wr[i] \ {p} ELSE wr[i]
                        /\ data'[i] = IF rd'[i] \cup wr'[i] = {} THEN << >> ELSE data[i]
    BY DEF Close
  <1> QED BY <1>1, <1>2

\* The end of a process; paths may go, too.
LEMMA EndsPairs ==
  ASSUME TypeInv, PairInv, NEW p \in Procs, Ends(p), npipes' = npipes, url' = url,
         \A f \in Paths : fs'[f] \in {Absent, fs[f]}
  PROVE  PairInv'
  <1>1. /\ Close(p, Held(p))
        /\ \A q \in Procs : pc'[q] = IF q = p THEN "exited" ELSE pc[q]
        /\ \A q \in Procs : res'[q] = IF q = p THEN Absent ELSE res[q]
        /\ \A q \in Procs : req'[q] = IF q = p THEN Absent ELSE req[q]
    BY DEF Ends, Goto, TypeInv, TypeOK
  <1>2. \A i \in Pipe \ {In} :
          /\ rd'[i] \subseteq rd[i] /\ wr'[i] \subseteq wr[i]
          /\ \A q : q # p => (q \in rd[i] <=> q \in rd'[i]) /\ (q \in wr[i] <=> q \in wr'[i])
          /\ Forked \in rd[i] => Forked \in rd'[i]
          /\ Forked \in wr[i] => Forked \in wr'[i]
          /\ \/ data'[i] = data[i]
             \/ data'[i] = << >> /\ rd'[i] = {} /\ wr'[i] = {}
    BY <1>1, ClosePairs
  <1>3. \A c \in Clients : ClientGoesOn(c)
    <2> SUFFICES ASSUME NEW c \in Clients PROVE ClientGoesOn(c)
      OBVIOUS
    <2>1. CASE c = p
      BY <1>1, <2>1, Sorts DEF ClientGoesOn, Holding
    <2>2. CASE c # p
      BY <1>1, <1>2, <2>2, Sorts DEF ClientGoesOn
    <2> QED BY <2>1, <2>2
  <1>4. \/ /\ pc'[Master] = pc[Master] /\ res'[Master] = res[Master]
           /\ req'[Master] = req[Master] /\ (res[Master] # Absent => Host' = Host)
        \/ pc'[Master] \notin Late /\ res'[Master] = Absent /\ req'[Master] = Absent
    <2>1. Host' = Host
      BY DEF Host
    <2> QED BY <1>1, <2>1, Sorts DEF Late
  <1>5. \A q \in Procs : res'[q] \in {Absent, res[q]} /\ req'[q] \in {Absent, req[q]}
    BY <1>1
  <1>6. \A i \in Pipe \ {In} :
          /\ rd'[i] \subseteq rd[i] /\ wr'[i] \subseteq wr[i]
          /\ Forked \in rd[i] => Forked \in rd'[i]
          /\ Forked \in wr[i] => Forked \in wr'[i]
          /\ \/ data'[i] = data[i]
             \/ data'[i] = << >> /\ rd'[i] = {} /\ wr'[i] = {}
    BY <1>2
  <1> QED BY <1>3, <1>4, <1>5, <1>6, PairsKept

\* A step of one that has nothing but the server's FIFO open.
LEMMA EarlyPairs ==
  ASSUME TypeInv, PairInv, NEW p \in Procs, NEW s, pc' = [pc EXCEPT ![p] = s],
         UNCHANGED <<res, req, npipes, fs>>, p = Master \/ url' = url,
         \A i \in Pipe \ {In} :
           /\ rd'[i] = rd[i] /\ wr'[i] = wr[i]
           /\ data'[i] = data[i] \/ (data'[i] = << >> /\ rd'[i] = {} /\ wr'[i] = {}),
         p \in Clients => pc[p] \notin Holding /\ s \notin Holding,
         p = Master => pc[p] \notin Late /\ s \notin Late
  PROVE  PairInv'
  <1>1. \A q \in Procs : pc'[q] = IF q = p THEN s ELSE pc[q]
    BY DEF TypeInv, TypeOK
  <1>2. \A c \in Clients : ClientGoesOn(c)
    <2> SUFFICES ASSUME NEW c \in Clients PROVE ClientGoesOn(c)
      OBVIOUS
    <2>1. CASE c = p
      <3>1. pc'[c] = s /\ res[c] = Absent
        BY <1>1, <2>1 DEF PairInv, HoldInv
      <3> QED BY <2>1, <3>1 DEF ClientGoesOn
    <2>2. CASE c # p
      BY <1>1, <2>2, Sorts DEF ClientGoesOn
    <2> QED BY <2>1, <2>2
  <1>3. \/ /\ pc'[Master] = pc[Master] /\ res'[Master] = res[Master]
           /\ req'[Master] = req[Master] /\ (res[Master] # Absent => Host' = Host)
        \/ pc'[Master] \notin Late /\ res'[Master] = Absent /\ req'[Master] = Absent
    <2>1. CASE p = Master
      BY <1>1, <2>1 DEF PairInv, EchoInv, Late
    <2>2. CASE p # Master
      BY <1>1, <2>2, Sorts DEF Host
    <2> QED BY <2>1, <2>2
  <1>4. /\ \A f \in Paths : fs'[f] \in {Absent, fs[f]}
        /\ \A q \in Procs : res'[q] \in {Absent, res[q]} /\ req'[q] \in {Absent, req[q]}
        /\ \A i \in Pipe \ {In} :
             /\ rd'[i] \subseteq rd[i] /\ wr'[i] \subseteq wr[i]
             /\ Forked \in rd[i] => Forked \in rd'[i]
             /\ Forked \in wr[i] => Forked \in wr'[i]
             /\ \/ data'[i] = data[i]
                \/ data'[i] = << >> /\ rd'[i] = {} /\ wr'[i] = {}
    OBVIOUS
  <1> QED BY <1>2, <1>3, <1>4, PairsKept

\* A write or a read on a pipe.
LEMMA DataPairs ==
  ASSUME TypeInv, PairInv, NEW i \in Pipe \ {In}, i <= npipes,
         UNCHANGED <<res, req, rd, wr, fs, npipes>>,
         \A j \in Pipe : j # i => data'[j] = data[j],
         \A c \in Clients : /\ pc'[c] \in Holding <=> pc[c] \in Holding
                            /\ pc'[c] \in Late => pc[c] \in Late
                            /\ pc'[c] \in {"ack", "open"} => pc[c] \in {"ack", "open"}
  PROVE  FreshInv' /\ KindInv' /\ HoldInv' /\ UserInv'
  <1>1. FreshInv'
    <2>1. \A j \in Pipe : j > npipes => j # i
      BY Ranges, Sorts
    <2>2. \A j \in Pipe : j > npipes' => rd'[j] = {} /\ wr'[j] = {} /\ data'[j] = << >>
      BY <2>1 DEF PairInv, FreshInv
    <2> QED BY <2>2 DEF PairInv, FreshInv
  <1>2. KindInv'
    BY DEF PairInv, KindInv, Request, Response
  <1>3. HoldInv'
    BY DEF PairInv, HoldInv, Response
  <1>4. UserInv'
    BY DEF PairInv, UserInv, Users
  <1> QED BY <1>1, <1>2, <1>3, <1>4

\* A client is alone with the FIFOs that it opens.
LEMMA AloneThere ==
  ASSUME PairInv, NamesInv, NEW c \in Clients, Name[c] \in Names
  PROVE  /\ pc[c] \in Early /\ Resp(c) # Absent => Users(Resp(c)) \subseteq {c}
         /\ Echoed(c) /\ Reqs(c) # Absent => Users(Reqs(c)) \subseteq {c}
  <1>1. /\ Resp(c) # Absent => \A d \in Users(Resp(c)) : Name[d] = Name[c]
        /\ Reqs(c) # Absent => \A d \in Users(Reqs(c)) : Name[d] = Name[c]
    <2>1. /\ Response(Name[c]) \in Paths /\ Response(Name[c])[2] = Name[c]
          /\ Request(Name[c]) \in Paths /\ Request(Name[c])[2] = Name[c]
      BY DEF Paths, Request, Response
    <2> QED BY <2>1 DEF PairInv, UserInv, Resp, Reqs
  <1>2. ASSUME NEW d \in Clients, d # c, Name[d] = Name[c]
        PROVE  /\ pc[c] \in Early /\ Resp(c) # Absent => d \notin Users(Resp(c))
               /\ Echoed(c) /\ Reqs(c) # Absent => d \notin Users(Reqs(c))
    BY <1>2 DEF NamesInv, Namesakes
  <1>3. Users(Resp(c)) \subseteq Clients /\ Users(Reqs(c)) \subseteq Clients
    BY DEF Users
  <1> QED BY <1>1, <1>2, <1>3

\* The client opens its response FIFO.
LEMMA OpenResponsePairs ==
  ASSUME TypeInv, PairInv, NamesInv, NEW c \in Clients, OpenResponse(c)
  PROVE  PairInv'
  <1> DEFINE f == Response(Name[c])
             i == fs[f]
  <1>1. c \in Procs /\ Name[c] \in Names /\ f \in Paths
    BY Sorts, Ranges
  <1>2. CASE i = Absent
    <2>1. Ends(c) /\ npipes' = npipes /\ url' = url /\ fs' = fs
      BY <1>2 DEF OpenResponse, files
    <2> QED BY <1>1, <2>1, EndsPairs
  <1>3. CASE i # Absent
    <2>1. /\ pc[c] = "response" /\ OpenRead(c, i) /\ Goto(c, "echo")
          /\ res' = [res EXCEPT ![c] = i] /\ req' = req
          /\ UNCHANGED <<fs, npipes, url>>
      BY <1>3 DEF OpenResponse, Runs, files
    <2>2. /\ rd' = [rd EXCEPT ![i] = @ \cup {c}] /\ wr' = wr /\ data' = data
          /\ \A q \in Procs : pc'[q] = IF q = c THEN "echo" ELSE pc[q]
      BY <2>1 DEF OpenRead, Goto, TypeInv, TypeOK
    <2>3. FreshInv' /\ KindInv' /\ UserInv' /\ WorkerInv'
      <3>1. \A d \in Clients : pc'[d] = "open" => pc[d] = "open" /\ d # c
        BY <2>2, Sorts
      <3>2. f # Request(Name[c])
        BY <1>1, Ranges
      <3>3. Users(i) \subseteq {c}
        BY <1>1, <1>3, <2>1, AloneThere DEF Early, Resp
      <3>4. \A d \in Clients : pc[d] = "open" => req[d] # i
        BY <1>1, Sorts DEF PairInv, HoldInv, KindInv
      <3> QED BY <1>1, <1>3, <2>1, <2>2, <3>1, <3>2, <3>3, <3>4, OpenedPairs
    <2>4. /\ i \in Pipe \ {In} /\ rd'[i] = rd[i] \cup {c}
          /\ \A j \in Pipe : rd[j] \subseteq rd'[j]
      BY <1>1, <1>3, <2>2, Ranges
    <2>5. \A q \in Procs : res'[q] = IF q = c THEN i ELSE res[q]
      BY <2>1, Ranges
    <2>6. HoldInv'
      <3> SUFFICES ASSUME NEW d \in Clients
                   PROVE  /\ pc'[d] \in Holding <=> res'[d] # Absent
                          /\ res'[d] # Absent => d \in rd'[res'[d]]
                          /\ pc'[d] \in Late => fs[Response(Name[d])] \in {Absent, res'[d]}
                          /\ pc'[d] \in {"ack", "open"} => req'[d] # Absent /\ d \in wr'[req'[d]]
        BY <2>1 DEF HoldInv, Response
      <3>1. CASE d = c
        BY <1>1, <1>3, <2>2, <2>4, <2>5, <3>1 DEF Holding
      <3>2. CASE d # c
        <4>1. /\ pc'[d] = pc[d] /\ res'[d] = res[d] /\ req'[d] = req[d] /\ wr' = wr
              /\ res[d] # Absent => res[d] \in Pipe
          BY <2>1, <2>2, <2>5, <3>2, Sorts, Ranges
        <4> QED BY <2>4, <4>1 DEF PairInv, HoldInv
      <3> QED BY <3>1, <3>2
    <2>7. EchoInv'
      <3>1. /\ pc'[Master] = pc[Master] /\ res'[Master] = res[Master] /\ req'[Master] = req[Master]
            /\ Host' = Host /\ Response(Host)' = Response(Host) /\ Request(Host)' = Request(Host)
        BY <2>1, <2>2, <2>5, Sorts DEF Host, Response, Request
      <3>2. ASSUME res[Master] # Absent, NEW d \in Clients, Name[d] = Host,
                   res'[d] \notin {Absent, res[Master]}
            PROVE  Elsewhere(d)'
        <4>1. CASE d = c
          BY <1>1, <2>2, <2>5, <3>2, <4>1 DEF PairInv, EchoInv, Elsewhere
        <4>2. CASE d # c
          <5>1. Elsewhere(d) /\ pc'[d] = pc[d] /\ res'[d] = res[d]
            BY <2>2, <2>5, <3>2, <4>2, Sorts DEF PairInv, EchoInv
          <5> QED BY <2>1, <2>2, <3>1, <5>1 DEF Elsewhere
        <4> QED BY <4>1, <4>2
      <3> QED BY <2>1, <2>2, <3>1, <3>2 DEF PairInv, EchoInv
    <2> QED BY <2>3, <2>6, <2>7 DEF PairInv
  <1> QED BY <1>2, <1>3

\* The client opens its request FIFO.
LEMMA OpenRequestPairs ==
  ASSUME TypeInv, PairInv, NamesInv, NEW c \in Clients, OpenRequest(c)
  PROVE  PairInv'
  <1> DEFINE f == Request(Name[c])
             i == fs[f]
  <1>1. c \in Procs /\ Name[c] \in Names /\ f \in Paths
    BY Sorts, Ranges
  <1>2. CASE i = Absent
    <2>1. Ends(c) /\ npipes' = npipes /\ url' = url /\ fs' = fs
      BY <1>2 DEF OpenRequest, files
    <2> QED BY <1>1, <2>1, EndsPairs
  <1>3. CASE i # Absent
    <2>1. /\ pc[c] = "request" /\ OpenWrite(c, i) /\ Goto(c, "ack")
          /\ req' = [req EXCEPT ![c] = i] /\ res' = res
          /\ UNCHANGED <<fs, npipes, url>>
      BY <1>3 DEF OpenRequest, Runs, files
    <2>2. /\ wr' = [wr EXCEPT ![i] = @ \cup {c}] /\ rd' = rd /\ data' = data
          /\ \A q \in Procs : pc'[q] = IF q = c THEN "ack" ELSE pc[q]
      BY <2>1 DEF OpenWrite, Goto, TypeInv, TypeOK
    <2>3. FreshInv' /\ KindInv' /\ UserInv' /\ WorkerInv'
      <3>1. \A d \in Clients : pc'[d] = "open" => pc[d] = "open" /\ d # c
        BY <2>2, Sorts
      <3>2. f # Response(Name[c])
        BY <1>1, Ranges
      <3>3. Users(i) \subseteq {c}
        BY <1>1, <1>3, <2>1, AloneThere DEF Echoed, Reqs
      <3> QED BY <1>1, <1>3, <2>1, <2>2, <3>1, <3>2, <3>3, OpenedPairs
    <2>4. /\ i \in Pipe \ {In} /\ wr'[i] = wr[i] \cup {c}
          /\ \A j \in Pipe : j # i => wr'[j] = wr[j]
      BY <1>1, <1>3, <2>2, Ranges
    <2>5. \A q \in Procs : req'[q] = IF q = c THEN i ELSE req[q]
      BY <2>1, Ranges
    <2>6. HoldInv'
      <3> SUFFICES ASSUME NEW d \in Clients
                   PROVE  /\ pc'[d] \in Holding <=> res[d] # Absent
                          /\ res[d] # Absent => d \in rd[res[d]]
                          /\ pc'[d] \in Late => fs[Response(Name[d])] \in {Absent, res[d]}
                          /\ pc'[d] \in {"ack", "open"} => req'[d] # Absent /\ d \in wr'[req'[d]]
        BY <2>1, <2>2 DEF HoldInv, Response
      <3>1. CASE d = c
        BY <1>1, <1>3, <2>1, <2>2, <2>4, <2>5, <3>1 DEF PairInv, HoldInv, Holding, Late
      <3>2. CASE d # c
        <4>1. /\ pc'[d] = pc[d] /\ req'[d] = req[d]
              /\ req[d] # Absent => req[d] \in Pipe
          BY <2>2, <2>5, <3>2, Sorts, Ranges
        <4> QED BY <2>4, <4>1 DEF PairInv, HoldInv
      <3> QED BY <3>1, <3>2
    <2>7. EchoInv'
      <3>1. /\ pc'[Master] = pc[Master] /\ res'[Master] = res[Master] /\ req'[Master] = req[Master]
            /\ Host' = Host /\ Response(Host)' = Response(Host) /\ Request(Host)' = Request(Host)
        BY <2>1, <2>2, <2>5, Sorts DEF Host, Response, Request
      <3>2. ASSUME res[Master] # Absent, NEW d \in Clients, Name[d] = Host,
                   res[d] \notin {Absent, res[Master]}
            PROVE  Elsewhere(d)'
        <4>1. Elsewhere(d)
          BY <3>2 DEF PairInv, EchoInv
        <4>2. CASE pc[d] = "echo" /\ data[res[d]] = << >>
          BY <2>1, <2>2, <4>2, Sorts DEF Elsewhere
        <4>3. CASE /\ pc[d] \in {"open", "unlink"}
                   /\ \A j \in {req[Master], fs[Request(Host)]} \ {Absent} : d \notin wr[j]
          <5>1. d # c /\ pc'[d] = pc[d]
            BY <2>1, <2>2, <4>3, Sorts
          <5>2. \A j \in {req[Master], fs[Request(Host)]} \ {Absent} : j \in Pipe
            BY <3>2, Sorts, Ranges DEF PairInv, EchoInv, TypeInv, HostInv, Late, Known
          <5>3. \A j \in Pipe : d \in wr'[j] => d \in wr[j]
            BY <2>4, <5>1
          <5>4. \A j \in {req[Master], fs[Request(Host)]} \ {Absent} : d \notin wr'[j]
            BY <4>3, <5>2, <5>3
          <5> QED BY <2>1, <3>1, <4>3, <5>1, <5>4 DEF Elsewhere
        <4> QED BY <4>1, <4>2, <4>3 DEF Elsewhere
      <3>3. ASSUME req[Master] # Absent, NEW d \in Clients, d \in wr'[req[Master]]
            PROVE  Name[d] = Host
        <4>1. CASE i = req[Master]
          <5>1. f = Request(Host) /\ Host \in Names
            BY <1>1, <3>3, <4>1 DEF PairInv, EchoInv, TypeInv, HostInv, Known
          <5>2. Name[c] = Host
            BY <1>1, <5>1, Ranges
          <5> QED BY <2>4, <3>3, <4>1, <5>2 DEF PairInv, EchoInv
        <4>2. CASE i # req[Master]
          <5>1. req[Master] \in Pipe
            BY <3>3, Ranges, Sorts
          <5> QED BY <2>4, <3>3, <4>2, <5>1 DEF PairInv, EchoInv
        <4> QED BY <4>1, <4>2
      <3> QED BY <2>1, <2>2, <3>1, <3>2, <3>3 DEF PairInv, EchoInv
    <2> QED BY <2>3, <2>6, <2>7 DEF PairInv
  <1> QED BY <1>2, <1>3

\* The client reads the echo of its url.
LEMMA ReadEchoPairs ==
  ASSUME TypeInv, PairInv, NEW c \in Clients, ReadEcho(c)
  PROVE  PairInv'
  <1> DEFINE i == res[c]
  <1>1. c \in Procs /\ Name[c] \in Names /\ Name[c] # Zero
    BY Sorts
  <1>2. CASE Next1(i) # Name[c]
    <2>1. Ends(c) /\ npipes' = npipes /\ url' = url /\ fs' = fs
      BY <1>2 DEF ReadEcho, files
    <2> QED BY <1>1, <2>1, EndsPairs
  <1>3. CASE Next1(i) = Name[c]
    <2>1. /\ pc[c] = "echo" /\ data[i] # << >>
          /\ pc' = [pc EXCEPT ![c] = "request"]
          /\ UNCHANGED <<res, req, rd, wr, fs, npipes, url>>
      BY <1>1, <1>3 DEF ReadEcho, Runs, Goto, Take, files, fds, Next1
    <2>2. \A q \in Procs : pc'[q] = IF q = c THEN "request" ELSE pc[q]
      BY <2>1 DEF TypeInv, TypeOK
    <2>3. i \in Pipe \ {In} /\ i <= npipes /\ i # Absent
      BY <1>1, <2>1, Ranges DEF PairInv, HoldInv, Holding
    <2>4. \A j \in Pipe : j # i => data'[j] = data[j]
      BY <1>3, <2>3 DEF ReadEcho, Take, TypeInv, TypeOK
    <2>5. \A d \in Clients : /\ pc'[d] \in Holding <=> pc[d] \in Holding
                             /\ pc'[d] \in Late => pc[d] \in Late
                             /\ pc'[d] \in {"ack", "open"} => pc[d] \in {"ack", "open"}
      BY <2>1, <2>2, Sorts DEF Holding, Late
    <2>6. FreshInv' /\ KindInv' /\ HoldInv' /\ UserInv'
      BY <2>1, <2>3, <2>4, <2>5, DataPairs
    <2>7. EchoInv'
      <3>1. /\ pc'[Master] = pc[Master]
            /\ Host' = Host /\ Response(Host)' = Response(Host) /\ Request(Host)' = Request(Host)
        BY <2>1, <2>2, Sorts DEF Host, Response, Request
      <3>2. \A j \in Pipe : data[j] = << >> => data'[j] = << >>
        BY <2>1, <2>4
      <3>3. ASSUME res[Master] # Absent, NEW d \in Clients, Name[d] = Host,
                   res[d] \notin {Absent, res[Master]}
            PROVE  Elsewhere(d)'
        <4>1. Elsewhere(d)
          BY <3>3 DEF PairInv, EchoInv
        <4>2. d # c /\ d \in Procs /\ res[d] \in Pipe
          BY <2>1, <3>3, <4>1, Sorts, Ranges DEF Elsewhere
        <4> QED BY <2>1, <2>2, <3>1, <3>2, <4>1, <4>2 DEF Elsewhere
      <3>4. ASSUME res[Master] # Absent, fs[Response(Host)] \notin {Absent, res[Master]}
            PROVE  data'[fs[Response(Host)]] = << >>
        <4>1. Response(Host) \in Paths
          BY <3>4, Ranges DEF PairInv, EchoInv, TypeInv, HostInv, Late, Known
        <4>2. fs[Response(Host)] \in Pipe
          BY <3>4, <4>1, Ranges
        <4> QED BY <3>2, <3>4, <4>2 DEF PairInv, EchoInv
      <3>5. /\ pc'[Master] \in Late <=> res[Master] # Absent
            /\ pc'[Master] = "ack" <=> req[Master] # Absent
            /\ req[Master] # Absent =>
                 /\ \A d \in Clients : d \in wr[req[Master]] => Name[d] = Host
                 /\ \A f \in Paths : fs[f] = req[Master] => f = Request(Host)
        BY <3>1 DEF PairInv, EchoInv
      <3> QED BY <2>1, <3>1, <3>3, <3>4, <3>5 DEF EchoInv
    <2>8. WorkerInv'
      <3> SUFFICES ASSUME NEW d \in Clients, pc'[d] = "open", data'[req[d]] = << >>
                   PROVE  Served(d)
        BY <2>1 DEF WorkerInv, Served
      <3>1. pc[d] = "open" /\ d \in Procs
        BY <2>1, <2>2, Sorts
      <3>2. req[d] # i /\ req[d] \in Pipe
        BY <1>1, <2>3, <3>1, Ranges DEF PairInv, HoldInv, KindInv
      <3> QED BY <2>4, <3>1, <3>2 DEF PairInv, WorkerInv
    <2> QED BY <2>6, <2>7, <2>8 DEF PairInv
  <1> QED BY <1>2, <1>3

\* The client acknowledges; its connection is open before anybody reads that.
LEMMA WriteAckPairs ==
  ASSUME TypeInv, PairInv, NEW c \in Clients, WriteAck(c)
  PROVE  PairInv'
  <1> DEFINE i == req[c]
  <1>1. c \in Procs /\ pc[c] = "ack" /\ UNCHANGED <<fs, npipes, url>>
    BY Sorts DEF WriteAck, Runs, files
  <1>2. CASE Ends(c)
    BY <1>1, <1>2, EndsPairs
  <1>3. CASE ~Ends(c)
    <2>1. /\ Write(i, Name[c]) /\ pc' = [pc EXCEPT ![c] = "open"]
          /\ UNCHANGED <<res, req, rd, wr>>
      BY <1>3 DEF WriteAck, Send, Goto, Write, fds
    <2>2. \A q \in Procs : pc'[q] = IF q = c THEN "open" ELSE pc[q]
      BY <2>1 DEF TypeInv, TypeOK
    <2>3. i \in Pipe \ {In} /\ i <= npipes /\ i # Absent
      BY <1>1, Ranges DEF PairInv, HoldInv
    <2>4. /\ data'[i] # << >>
          /\ \A j \in Pipe : j # i => data'[j] = data[j]
      <3>1. data'[i] = Append(data[i], Name[c]) /\ \A j \in Pipe : j # i => data'[j] = data[j]
        BY <2>1, <2>3 DEF Write, TypeInv, TypeOK
      <3>2. data[i] \in Seq(Token)
        BY <2>3 DEF TypeInv, TypeOK, Token
      <3>3. Append(data[i], Name[c]) # << >>
        BY <3>2
      <3> QED BY <3>1, <3>3
    <2>5. \A d \in Clients : /\ pc'[d] \in Holding <=> pc[d] \in Holding
                             /\ pc'[d] \in Late => pc[d] \in Late
                             /\ pc'[d] \in {"ack", "open"} => pc[d] \in {"ack", "open"}
      BY <1>1, <2>2, Sorts DEF Holding, Late
    <2>6. FreshInv' /\ KindInv' /\ HoldInv' /\ UserInv'
      BY <1>1, <2>1, <2>3, <2>4, <2>5, DataPairs
    <2>7. EchoInv'
      <3>1. /\ pc'[Master] = pc[Master]
            /\ Host' = Host /\ Response(Host)' = Response(Host) /\ Request(Host)' = Request(Host)
        BY <1>1, <2>2, Sorts DEF Host, Response, Request
      <3>2. ASSUME res[Master] # Absent, NEW d \in Clients, Name[d] = Host,
                   res[d] \notin {Absent, res[Master]}
            PROVE  Elsewhere(d)'
        <4>1. Elsewhere(d)
          BY <3>2 DEF PairInv, EchoInv
        <4>2. d # c /\ d \in Procs /\ res[d] \in Pipe /\ res[d] # i
          BY <1>1, <3>2, <4>1, Sorts, Ranges DEF PairInv, KindInv, Elsewhere
        <4> QED BY <1>1, <2>1, <2>2, <2>4, <3>1, <4>1, <4>2 DEF Elsewhere
      <3>3. ASSUME res[Master] # Absent, fs[Response(Host)] \notin {Absent, res[Master]}
            PROVE  data'[fs[Response(Host)]] = << >>
        <4>1. Host \in Names /\ Response(Host) \in Paths
          BY <3>3, Ranges DEF PairInv, EchoInv, TypeInv, HostInv, Late, Known
        <4>2. fs[Response(Host)] \in Pipe /\ fs[Response(Host)] # i
          BY <1>1, <2>3, <3>3, <4>1, Ranges DEF PairInv, KindInv
        <4> QED BY <2>4, <3>3, <4>2 DEF PairInv, EchoInv
      <3>4. /\ pc'[Master] \in Late <=> res[Master] # Absent
            /\ pc'[Master] = "ack" <=> req[Master] # Absent
            /\ req[Master] # Absent =>
                 /\ \A d \in Clients : d \in wr[req[Master]] => Name[d] = Host
                 /\ \A f \in Paths : fs[f] = req[Master] => f = Request(Host)
        BY <3>1 DEF PairInv, EchoInv
      <3> QED BY <1>1, <2>1, <3>1, <3>2, <3>3, <3>4 DEF EchoInv
    <2>8. WorkerInv'
      <3> SUFFICES ASSUME NEW d \in Clients, pc'[d] = "open", data'[req[d]] = << >>
                   PROVE  Served(d)
        BY <2>1 DEF WorkerInv, Served
      <3>1. req[d] # i /\ d # c /\ d \in Procs
        BY <2>4, Sorts
      <3>2. pc[d] = "open"
        BY <2>2, <3>1
      <3>3. req[d] \in Pipe
        BY <3>1, <3>2, Ranges DEF PairInv, HoldInv
      <3> QED BY <2>4, <3>1, <3>2, <3>3 DEF PairInv, WorkerInv
    <2> QED BY <2>6, <2>7, <2>8 DEF PairInv
  <1> QED BY <1>2, <1>3

\* The steps of a client.
LEMMA ClientPairs ==
  ASSUME TypeInv, TypeInv', PairInv, NamesInv, NEW c \in Clients,
         CreateResponse(c) \/ connection_open(c) \/ ClientCloses(c) \/ ClientUnlinks(c)
  PROVE  PairInv'
  <1>1. c \in Procs /\ c # Master /\ Name[c] \in Names /\ Response(Name[c]) \in Paths
    BY Sorts, Ranges
  <1>2. ASSUME Ends(c), UNCHANGED <<files, url>>
        PROVE  PairInv'
    BY <1>1, <1>2, EndsPairs DEF files
  <1>3. CASE CreateResponse(c)
    <2>1. CASE /\ mkfifo(Response(Name[c])) /\ Goto(c, "connect")
               /\ UNCHANGED <<blocked, fds, listening, ends, url>>
      <3>1. /\ pc[c] = "prompt"
            /\ \A q \in Procs : pc'[q] = IF q = c THEN "connect" ELSE pc[q]
            /\ fs' = [fs EXCEPT ![Response(Name[c])] = npipes + 1] /\ npipes' = npipes + 1
            /\ UNCHANGED <<res, req, rd, wr, data, url>>
        BY <1>3, <2>1 DEF CreateResponse, Runs, mkfifo, Goto, fds, ends, TypeInv, TypeOK
      <3>2. \A d \in Clients : pc'[d] = pc[d] \/ (pc[d] \notin Holding /\ pc'[d] \notin Holding)
        BY <3>1, Sorts DEF Holding
      <3>3. \A d \in Clients : pc[d] \in Late => Response(Name[d]) # Response(Name[c])
        <4>1. SUFFICES ASSUME NEW d \in Clients, pc[d] \in Late, Name[d] = Name[c]
                       PROVE  FALSE
          BY <1>1, Ranges, Sorts
        <4>2. d # c
          BY <3>1, <4>1 DEF Late
        <4>3. Resp(d) # Absent
          BY <3>1, <4>1, <4>2 DEF NamesInv, Namesakes, Active
        <4> QED BY <2>1, <4>1, <4>3 DEF mkfifo, Resp
      <3>4. pc'[Master] = pc[Master]
        BY <1>1, <3>1, Sorts
      <3> QED BY <1>1, <3>1, <3>2, <3>3, <3>4, MadePairs
    <2>2. CASE Ends(c) /\ UNCHANGED <<files, url>>
      BY <1>2, <2>2
    <2> QED BY <1>3, <2>1, <2>2 DEF CreateResponse
  <1>4. CASE Connect(c)
    <2>1. CASE OpenWrite(c, In) /\ Goto(c, "text") /\ UNCHANGED fds
      <3>1. /\ pc' = [pc EXCEPT ![c] = "text"] /\ pc[c] = "connect"
            /\ UNCHANGED <<res, req, npipes, fs, url>>
            /\ \A i \in Pipe \ {In} : rd'[i] = rd[i] /\ wr'[i] = wr[i] /\ data'[i] = data[i]
        BY <1>4, <2>1 DEF Connect, Runs, Goto, OpenWrite, fds, files, TypeInv, TypeOK
      <3> QED BY <1>1, <3>1, EarlyPairs DEF Holding
    <2>2. CASE Ends(c)
      BY <1>2, <1>4, <2>2 DEF Connect
    <2> QED BY <1>4, <2>1, <2>2 DEF Connect
  <1>5. CASE WriteUrl(c)
    <2>1. CASE Ends(c)
      BY <1>2, <1>5, <2>1 DEF WriteUrl
    <2>2. CASE ~Ends(c)
      <3>1. PICK s \in {"zero", "hangup"}, token \in Names \cup {Zero} :
              /\ pc' = [pc EXCEPT ![c] = s] /\ pc[c] \in {"text", "zero"}
              /\ Write(In, token) /\ UNCHANGED <<res, req>>
        BY <1>1, <1>5, <2>2 DEF WriteUrl, Send, Runs, Goto, fds
      <3>2. /\ UNCHANGED <<npipes, fs, url>>
            /\ \A i \in Pipe \ {In} : rd'[i] = rd[i] /\ wr'[i] = wr[i] /\ data'[i] = data[i]
        BY <1>5, <3>1 DEF WriteUrl, Write, files, TypeInv, TypeOK
      <3> QED BY <1>1, <3>1, <3>2, EarlyPairs DEF Holding
    <2> QED BY <2>1, <2>2
  <1>6. CASE HangUp(c)
    <2>1. /\ pc' = [pc EXCEPT ![c] = "response"] /\ pc[c] = "hangup" /\ Close(c, {In})
          /\ UNCHANGED <<res, req, npipes, fs, url>>
      BY <1>6 DEF HangUp, Runs, Goto, fds, files
    <2>2. \A i \in Pipe \ {In} :
            /\ rd'[i] = rd[i] /\ wr'[i] = wr[i]
            /\ data'[i] = data[i] \/ (data'[i] = << >> /\ rd'[i] = {} /\ wr'[i] = {})
      BY <1>1, <2>1, ClosePairs
    <2> QED BY <1>1, <2>1, <2>2, EarlyPairs DEF Holding
  <1>7. CASE ClientCloses(c)
    <2>1. /\ pc[c] = "open" /\ Close(c, {req[c]})
          /\ \A q \in Procs : pc'[q] = IF q = c THEN "unlink" ELSE pc[q]
          /\ fs' = [fs EXCEPT ![Request(Name[c])] = Absent]
          /\ UNCHANGED <<res, req, npipes, url>>
      BY <1>7 DEF ClientCloses, Runs, Goto, unlink, fds, TypeInv, TypeOK
    <2>2. \A i \in Pipe \ {In} :
            /\ rd'[i] \subseteq rd[i] /\ wr'[i] \subseteq wr[i]
            /\ \A q : q # c => (q \in rd[i] <=> q \in rd'[i]) /\ (q \in wr[i] <=> q \in wr'[i])
            /\ Forked \in rd[i] => Forked \in rd'[i]
            /\ Forked \in wr[i] => Forked \in wr'[i]
            /\ i # req[c] => rd'[i] = rd[i]
            /\ \/ data'[i] = data[i]
               \/ data'[i] = << >> /\ rd'[i] = {} /\ wr'[i] = {}
      BY <1>1, <2>1, ClosePairs
    <2>3. \A d \in Clients : ClientGoesOn(d)
      <3> SUFFICES ASSUME NEW d \in Clients PROVE ClientGoesOn(d)
        OBVIOUS
      <3>1. CASE d = c
        <4>1. res[c] \in Pipe \ {In} /\ res[c] # req[c]
          BY <1>1, <2>1, Ranges DEF PairInv, HoldInv, KindInv, Holding
        <4> QED BY <1>1, <2>1, <2>2, <3>1, <4>1 DEF ClientGoesOn
      <3>2. CASE d # c
        BY <2>1, <2>2, <3>2, Sorts DEF ClientGoesOn
      <3> QED BY <3>1, <3>2
    <2>4. /\ pc'[Master] = pc[Master] /\ res'[Master] = res[Master]
          /\ req'[Master] = req[Master] /\ Host' = Host
      BY <1>1, <2>1, Sorts DEF Host
    <2>5. /\ \A f \in Paths : fs'[f] \in {Absent, fs[f]}
          /\ \A q \in Procs : res'[q] \in {Absent, res[q]} /\ req'[q] \in {Absent, req[q]}
      BY <2>1, Ranges
    <2>6. \A i \in Pipe \ {In} :
            /\ rd'[i] \subseteq rd[i] /\ wr'[i] \subseteq wr[i]
            /\ Forked \in rd[i] => Forked \in rd'[i]
            /\ Forked \in wr[i] => Forked \in wr'[i]
            /\ \/ data'[i] = data[i]
               \/ data'[i] = << >> /\ rd'[i] = {} /\ wr'[i] = {}
      BY <2>2
    <2> QED BY <2>1, <2>3, <2>4, <2>5, <2>6, PairsKept
  <1>8. CASE ClientUnlinks(c)
    <2>1. /\ Ends(c) /\ npipes' = npipes /\ url' = url
          /\ \A f \in Paths : fs'[f] \in {Absent, fs[f]}
      BY <1>8, Ranges DEF ClientUnlinks, unlink
    <2> QED BY <1>1, <2>1, EndsPairs
  <1> QED BY <1>3, <1>4, <1>5, <1>6, <1>7, <1>8, OpenResponsePairs, ReadEchoPairs, OpenRequestPairs,
             WriteAckPairs DEF connection_open

\* The master opens the response FIFO of the name that it has read.
LEMMA OpenForEchoPairs ==
  ASSUME TypeInv, PairInv, QuietInv, OpenForEcho
  PROVE  PairInv'
  <1> DEFINE f == Response(Host)
             i == fs[f]
  <1>1. /\ Master \in Procs /\ Master \notin Clients /\ pc[Master] = "response"
        /\ Host \in Names /\ f \in Paths /\ UNCHANGED <<fs, npipes, url>>
    BY Sorts, Ranges DEF OpenForEcho, Runs, TypeInv, HostInv, Known, files
  <1>2. CASE i = Absent \/ ~MayHave(1)
    <2>1. Ends(Master)
      BY <1>2 DEF OpenForEcho
    <2> QED BY <1>1, <2>1, EndsPairs
  <1>3. CASE i # Absent /\ MayHave(1)
    <2>1. /\ wr' = [wr EXCEPT ![i] = @ \cup {Master}] /\ rd' = rd /\ data' = data
          /\ \A q \in Procs : pc'[q] = IF q = Master THEN "echo" ELSE pc[q]
          /\ res' = [res EXCEPT ![Master] = i] /\ req' = req
      BY <1>3 DEF OpenForEcho, OpenWrite, Goto, TypeInv, TypeOK
    <2>2. FreshInv' /\ KindInv' /\ UserInv' /\ WorkerInv'
      <3>1. \A d \in Clients : pc'[d] = "open" => pc[d] = "open" /\ d # Master
        BY <1>1, <2>1, Sorts
      <3>2. f # Request(Host)
        BY <1>1, Ranges
      <3> QED BY <1>1, <1>3, <2>1, <3>1, <3>2, OpenedPairs
    <2>3. \A q \in Procs : res'[q] = IF q = Master THEN i ELSE res[q]
      BY <2>1, Ranges
    <2>4. \A j \in Pipe : wr[j] \subseteq wr'[j]
      BY <2>1, Ranges
    <2>5. HoldInv'
      <3> SUFFICES ASSUME NEW d \in Clients
                   PROVE  /\ pc'[d] \in Holding <=> res'[d] # Absent
                          /\ res'[d] # Absent => d \in rd[res'[d]]
                          /\ pc'[d] \in Late => fs[Response(Name[d])] \in {Absent, res'[d]}
                          /\ pc'[d] \in {"ack", "open"} => req[d] # Absent /\ d \in wr'[req[d]]
        BY <1>1, <2>1 DEF HoldInv, Response
      <3>1. pc'[d] = pc[d] /\ res'[d] = res[d] /\ (req[d] # Absent => req[d] \in Pipe)
        BY <1>1, <2>1, <2>3, Sorts, Ranges
      <3> QED BY <2>4, <3>1 DEF PairInv, HoldInv
    <2>6. EchoInv'
      <3>1. /\ pc'[Master] = "echo" /\ res'[Master] = i /\ req[Master] = Absent
            /\ Host' = Host /\ Response(Host)' = Response(Host) /\ Request(Host)' = Request(Host)
            /\ req'[Master] = Absent
        BY <1>1, <2>1, <2>3 DEF PairInv, EchoInv, Host, Response, Request
      <3>2. ASSUME NEW d \in Clients, Name[d] = Host, res'[d] \notin {Absent, i}
            PROVE  Elsewhere(d)'
        <4>1. res'[d] = res[d] /\ pc'[d] = pc[d]
          BY <1>1, <2>1, <2>3, Sorts
        <4>2. pc[d] \in {"open", "unlink"}
          BY <1>3, <3>2, <4>1 DEF PairInv, HoldInv, Holding, Late
        <4>3. fs[Request(Host)] # Absent => d \notin wr[fs[Request(Host)]]
          BY <1>1, <4>2 DEF QuietInv, Offers, Users
        <4>4. fs[Request(Host)] # Absent => fs[Request(Host)] \in Pipe /\ fs[Request(Host)] # i
          BY <1>1, <1>3, Ranges DEF PairInv, FreshInv
        <4>5. fs[Request(Host)] # Absent => d \notin wr'[fs[Request(Host)]]
          BY <2>1, <4>3, <4>4
        <4> QED BY <1>1, <3>1, <4>1, <4>2, <4>5 DEF Elsewhere
      <3> QED BY <1>1, <1>3, <2>1, <3>1, <3>2 DEF EchoInv, Late
    <2> QED BY <2>2, <2>5, <2>6 DEF PairInv
  <1> QED BY <1>2, <1>3

\* The master echoes the name.
LEMMA WriteEchoPairs ==
  ASSUME TypeInv, PairInv, WriteEcho
  PROVE  PairInv'
  <1> DEFINE i == res[Master]
  <1>1. /\ Master \in Procs /\ Master \notin Clients /\ pc[Master] = "echo"
        /\ Host \in Names /\ UNCHANGED <<fs, npipes, url>>
    BY Sorts DEF WriteEcho, Runs, TypeInv, HostInv, Known, files
  <1>2. CASE Ends(Master)
    BY <1>1, <1>2, EndsPairs
  <1>3. CASE ~Ends(Master)
    <2>1. /\ Write(i, Text) /\ pc' = [pc EXCEPT ![Master] = "request"]
          /\ UNCHANGED <<res, req, rd, wr>>
      BY <1>3 DEF WriteEcho, Send, Goto, Write, fds
    <2>2. \A q \in Procs : pc'[q] = IF q = Master THEN "request" ELSE pc[q]
      BY <2>1 DEF TypeInv, TypeOK
    <2>3. i \in Pipe \ {In} /\ i <= npipes /\ i # Absent
      BY <1>1, Ranges DEF PairInv, EchoInv, Late
    <2>4. \A j \in Pipe : j # i => data'[j] = data[j]
      BY <2>1, <2>3 DEF Write, TypeInv, TypeOK
    <2>5. \A d \in Clients : pc'[d] = pc[d]
      BY <1>1, <2>2, Sorts
    <2>6. FreshInv' /\ KindInv' /\ HoldInv' /\ UserInv'
      BY <1>1, <2>1, <2>3, <2>4, <2>5, DataPairs
    <2>7. EchoInv'
      <3>1. /\ pc'[Master] = "request"
            /\ Host' = Host /\ Response(Host)' = Response(Host) /\ Request(Host)' = Request(Host)
        BY <1>1, <2>2 DEF Host, Response, Request
      <3>2. ASSUME NEW d \in Clients, Name[d] = Host, res[d] \notin {Absent, i}
            PROVE  Elsewhere(d)'
        <4>1. d \in Procs /\ res[d] \in Pipe
          BY <3>2, Sorts, Ranges
        <4>2. Elsewhere(d)
          BY <2>3, <3>2 DEF PairInv, EchoInv
        <4> QED BY <1>1, <2>1, <2>4, <2>5, <3>1, <3>2, <4>1, <4>2 DEF Elsewhere
      <3>3. ASSUME fs[Response(Host)] \notin {Absent, i}
            PROVE  data'[fs[Response(Host)]] = << >>
        <4>1. fs[Response(Host)] \in Pipe
          BY <1>1, <3>3, Ranges
        <4> QED BY <2>3, <2>4, <3>3, <4>1 DEF PairInv, EchoInv
      <3>4. req[Master] = Absent
        BY <1>1 DEF PairInv, EchoInv
      <3> QED BY <1>1, <2>1, <2>3, <3>1, <3>2, <3>3, <3>4 DEF EchoInv, Late
    <2>8. WorkerInv'
      <3> SUFFICES ASSUME NEW d \in Clients, pc'[d] = "open", data'[req[d]] = << >>
                   PROVE  Served(d)
        BY <2>1 DEF WorkerInv, Served
      <3>1. pc[d] = "open" /\ d \in Procs
        BY <2>5, Sorts
      <3>2. req[d] # i /\ req[d] \in Pipe
        BY <1>1, <2>3, <3>1, Ranges DEF PairInv, HoldInv, KindInv
      <3> QED BY <2>4, <3>1, <3>2 DEF PairInv, WorkerInv
    <2> QED BY <2>6, <2>7, <2>8 DEF PairInv
  <1> QED BY <1>2, <1>3

\* The master opens the request FIFO that it has made.
LEMMA OpenForAckPairs ==
  ASSUME TypeInv, PairInv, QuietInv, OpenForAck
  PROVE  PairInv'
  <1> DEFINE f == Request(Host)
             i == fs[f]
  <1>1. /\ Master \in Procs /\ Master \notin Clients /\ pc[Master] = "request"
        /\ Host \in Names /\ f \in Paths /\ f[2] = Host /\ UNCHANGED <<fs, npipes, url>>
    BY Sorts, Ranges DEF OpenForAck, Runs, TypeInv, HostInv, Known, files, Request
  <1>2. CASE i = Absent \/ ~MayHave(2)
    <2>1. Ends(Master)
      BY <1>2 DEF OpenForAck
    <2> QED BY <1>1, <2>1, EndsPairs
  <1>3. CASE i # Absent /\ MayHave(2)
    <2>1. /\ rd' = [rd EXCEPT ![i] = @ \cup {Master}] /\ wr' = wr /\ data' = data
          /\ \A q \in Procs : pc'[q] = IF q = Master THEN "ack" ELSE pc[q]
          /\ req' = [req EXCEPT ![Master] = i] /\ res' = res
      BY <1>3 DEF OpenForAck, OpenRead, Goto, TypeInv, TypeOK
    <2>2. FreshInv' /\ KindInv' /\ UserInv' /\ WorkerInv'
      <3>1. \A d \in Clients : pc'[d] = "open" => pc[d] = "open" /\ d # Master
        BY <1>1, <2>1, Sorts
      <3>2. f # Response(Host)
        BY <1>1, Ranges
      <3>3. \A d \in Clients : pc[d] = "open" => req[d] # i
        <4>1. \A d \in Users(i) : pc[d] = "ack"
          BY <1>1, <1>3 DEF QuietInv, Offers
        <4>2. \A d \in Clients : pc[d] = "open" => d \in wr[req[d]]
          BY DEF PairInv, HoldInv
        <4> QED BY <4>1, <4>2 DEF Users
      <3> QED BY <1>1, <1>3, <2>1, <3>1, <3>2, <3>3, OpenedPairs
    <2>3. \A q \in Procs : req'[q] = IF q = Master THEN i ELSE req[q]
      BY <2>1, Ranges
    <2>4. \A j \in Pipe : rd[j] \subseteq rd'[j]
      BY <2>1, Ranges
    <2>5. HoldInv'
      <3> SUFFICES ASSUME NEW d \in Clients
                   PROVE  /\ pc'[d] \in Holding <=> res[d] # Absent
                          /\ res[d] # Absent => d \in rd'[res[d]]
                          /\ pc'[d] \in Late => fs[Response(Name[d])] \in {Absent, res[d]}
                          /\ pc'[d] \in {"ack", "open"} => req'[d] # Absent /\ d \in wr[req'[d]]
        BY <1>1, <2>1 DEF HoldInv, Response
      <3>1. pc'[d] = pc[d] /\ req'[d] = req[d] /\ (res[d] # Absent => res[d] \in Pipe)
        BY <1>1, <2>1, <2>3, Sorts, Ranges
      <3> QED BY <2>4, <3>1 DEF PairInv, HoldInv
    <2>6. EchoInv'
      <3>1. /\ pc'[Master] = "ack" /\ req'[Master] = i /\ res[Master] # Absent
            /\ Host' = Host /\ Response(Host)' = Response(Host) /\ Request(Host)' = Request(Host)
        BY <1>1, <2>1, <2>3 DEF PairInv, EchoInv, Late, Host, Response, Request
      <3>2. \A d \in Clients : pc'[d] = pc[d]
        BY <1>1, <2>1, Sorts
      <3>3. \A d \in Clients : d \in wr[i] => Name[d] = Host
        <4>1. \A d \in Users(fs[f]) : Name[d] = f[2]
          BY <1>1, <1>3 DEF PairInv, UserInv
        <4> QED BY <1>1, <4>1 DEF Users
      <3>4. \A g \in Paths : fs[g] = i => g = f
        BY <1>1, <1>3 DEF PairInv, FreshInv
      <3>5. \A d \in Clients : Name[d] = Host /\ res[d] \notin {Absent, res[Master]} => Elsewhere(d)'
        <4>1. \A d \in Clients : Name[d] = Host /\ res[d] \notin {Absent, res[Master]} => Elsewhere(d)
          BY <3>1 DEF PairInv, EchoInv
        <4> QED BY <1>1, <2>1, <3>1, <3>2, <4>1 DEF Elsewhere
      <3>6. fs[Response(Host)] \notin {Absent, res[Master]} => data[fs[Response(Host)]] = << >>
        BY <3>1 DEF PairInv, EchoInv
      <3> QED BY <1>1, <1>3, <2>1, <3>1, <3>3, <3>4, <3>5, <3>6 DEF EchoInv, Late
    <2> QED BY <2>2, <2>5, <2>6 DEF PairInv
  <1> QED BY <1>2, <1>3

\* The master reads the acknowledgement: the writer is the client whose
\* response FIFO the master has open, and the worker has both.
LEMMA ReadAckPairs ==
  ASSUME TypeInv, PairInv, ReaderInv, ReadAck
  PROVE  PairInv'
  <1> DEFINE i == req[Master]
             k == res[Master]
  <1>1. /\ Master \in Procs /\ Master \notin Clients /\ Forked \notin Clients /\ pc[Master] = "ack"
        /\ Host \in Names /\ UNCHANGED <<fs, npipes, url>>
    BY Sorts DEF ReadAck, Runs, TypeInv, HostInv, Known, files
  <1>2. CASE Next1(i) # Text
    <2>1. Ends(Master)
      BY <1>2 DEF ReadAck
    <2> QED BY <1>1, <2>1, EndsPairs
  <1>3. CASE Next1(i) = Text
    <2>1. /\ Fork
          /\ \A q \in Procs : /\ q # Master => pc'[q] = pc[q]
                              /\ res'[q] = IF q = Master THEN Absent ELSE res[q]
                              /\ req'[q] = IF q = Master THEN Absent ELSE req[q]
          /\ pc'[Master] \notin Late
      BY <1>1, <1>3 DEF ReadAck, Fork, Goto, Late, TypeInv, TypeOK
    <2>2. /\ i \in Pipe /\ i <= npipes /\ i # Absent
          /\ k \in Pipe /\ k <= npipes /\ k # Absent
      BY <1>1, Ranges DEF PairInv, EchoInv, Late
    <2>3. /\ \A j \in Pipe : j # i => rd'[j] = rd[j]
          /\ \A j \in Pipe : j # k => wr'[j] = wr[j]
          /\ \/ /\ rd'[i] = (rd[i] \ {Master}) \cup {Forked}
                /\ wr'[k] = (wr[k] \ {Master}) \cup {Forked}
             \/ /\ ForkMayBeMissing
                /\ rd'[i] = rd[i] \ {Master} /\ wr'[k] = wr[k] \ {Master}
          /\ \A j \in Pipe : j # i => data'[j] = data[j] \/ (data'[j] = << >> /\ rd'[j] \cup wr'[j] = {})
      <3>1. data \in [Pipe -> Seq(Token)]
        BY DEF TypeInv, TypeOK, Token
      <3>2. rd \in [Pipe -> SUBSET Holders] /\ wr \in [Pipe -> SUBSET Holders]
        BY Ranges
      <3> QED BY <2>1, <2>2, <3>1, <3>2 DEF Fork
    <2>4. \A j \in Pipe : \A c \in Clients : (c \in rd'[j] <=> c \in rd[j]) /\ (c \in wr'[j] <=> c \in wr[j])
      BY <1>1, <2>3
    <2>5. \A j \in Pipe : /\ Forked \in rd[j] => Forked \in rd'[j]
                          /\ Forked \in wr[j] => Forked \in wr'[j]
      BY <1>1, <2>3, Sorts
    <2>6. \A c \in Clients : pc'[c] = pc[c] /\ res'[c] = res[c] /\ req'[c] = req[c]
      BY <1>1, <2>1, Sorts
    <2>7. pc'[Master] \notin Late /\ res'[Master] = Absent /\ req'[Master] = Absent
      BY <1>1, <2>1
    <2>8. FreshInv'
      <3>1. \A j \in Pipe : j > npipes => j # i /\ j # k
        BY <2>2, Ranges, Sorts
      <3>2. \A j \in Pipe : j > npipes' => rd'[j] = {} /\ wr'[j] = {} /\ data'[j] = << >>
        BY <1>1, <2>3, <3>1 DEF PairInv, FreshInv
      <3> QED BY <1>1, <3>2 DEF PairInv, FreshInv
    <2>9. KindInv'
      <3> SUFFICES ASSUME NEW o \in Procs, NEW q \in Procs, NEW m \in Names
                   PROVE  /\ res'[o] # Absent => res'[o] # req'[q] /\ res'[o] # fs[Request(m)]
                          /\ req'[o] # Absent => req'[o] # fs[Response(m)]
        BY <1>1 DEF KindInv, Request, Response
      <3> QED BY <2>1 DEF PairInv, KindInv
    <2>10. HoldInv'
      <3> SUFFICES ASSUME NEW d \in Clients
                   PROVE  /\ pc[d] \in Holding <=> res[d] # Absent
                          /\ res[d] # Absent => d \in rd'[res[d]]
                          /\ pc[d] \in Late => fs[Response(Name[d])] \in {Absent, res[d]}
                          /\ pc[d] \in {"ack", "open"} => req[d] # Absent /\ d \in wr'[req[d]]
        BY <1>1, <2>6 DEF HoldInv, Response
      <3>1. (res[d] # Absent => res[d] \in Pipe) /\ (req[d] # Absent => req[d] \in Pipe)
        BY Sorts, Ranges
      <3> QED BY <2>4, <3>1 DEF PairInv, HoldInv
    <2>11. UserInv'
      <3>1. \A j \in Pipe : Users(j)' = Users(j)
        BY <2>4 DEF Users
      <3>2. \A j \in Pipe \ {In} : \A c \in Users(j)', d \in Users(j)' : c = d
        BY <3>1 DEF PairInv, UserInv
      <3>3. \A g \in Paths : fs'[g] # Absent => \A c \in Users(fs[g])' : Name[c] = g[2]
        <4>1. SUFFICES ASSUME NEW g \in Paths, fs[g] # Absent, NEW c \in Users(fs[g])'
                       PROVE  Name[c] = g[2]
          BY <1>1
        <4>2. fs[g] \in Pipe /\ fs' = fs
          BY <1>1, <4>1, Ranges
        <4>3. c \in Users(fs[g])
          BY <2>4, <4>1, <4>2 DEF Users
        <4> QED BY <4>1, <4>3 DEF PairInv, UserInv
      <3> QED BY <3>2, <3>3 DEF UserInv
    <2>12. EchoInv'
      BY <2>7 DEF EchoInv, Late
    <2>13. WorkerInv'
      <3> SUFFICES ASSUME NEW d \in Clients, pc[d] = "open", data'[req[d]] = << >>
                   PROVE  \/ Forked \in rd'[req[d]] /\ Forked \in wr'[res[d]]
                          \/ ForkMayBeMissing /\ rd'[req[d]] = {}
        BY <2>6 DEF WorkerInv, Served
      <3>1. /\ res[d] # Absent /\ res[d] \in Pipe
            /\ req[d] \in Pipe /\ d \in wr[req[d]]
        BY Sorts, Ranges DEF PairInv, HoldInv, Holding
      <3>2. CASE req[d] = i
        <4>1. Name[d] = Host
          BY <2>2, <3>1, <3>2 DEF PairInv, EchoInv
        <4>2. res[d] = k
          BY <2>2, <3>1, <3>2, <4>1 DEF PairInv, EchoInv, Elsewhere
        <4> QED BY <2>2, <2>3, <3>2, <4>2 DEF ReaderInv
      <3>3. CASE req[d] # i
        <4>1. d \in wr'[req[d]]
          BY <2>4, <3>1
        <4>2. Served(d)
          BY <2>3, <3>1, <3>3, <4>1 DEF PairInv, WorkerInv
        <4> QED BY <2>3, <2>5, <3>1, <3>3, <4>2 DEF Served
      <3> QED BY <3>2, <3>3
    <2> QED BY <2>8, <2>9, <2>10, <2>11, <2>12, <2>13 DEF PairInv
  <1> QED BY <1>2, <1>3

\* The steps of the master.
LEMMA MasterPairs ==
  ASSUME TypeInv, TypeInv', PairInv, QuietInv, ReaderInv, MasterSteps
  PROVE  PairInv'
  <1>1. Master \in Procs /\ Master \notin Clients
    BY Sorts
  <1>2. CASE comm_listen
    <2>1. /\ pc' = [pc EXCEPT ![Master] = "accept"] /\ pc[Master] = "listen"
          /\ UNCHANGED <<res, req, npipes, fs, rd, wr, data>>
      BY <1>2 DEF comm_listen, Runs, Goto, fds, ends
    <2> QED BY <1>1, <2>1, EarlyPairs DEF Late
  <1>3. CASE OpenConnectionFile /\ MayHave(1)
    <2>1. /\ pc' = [pc EXCEPT ![Master] = "url"] /\ pc[Master] = "accept"
          /\ UNCHANGED <<res, req, npipes, fs>>
          /\ \A i \in Pipe \ {In} : rd'[i] = rd[i] /\ wr'[i] = wr[i] /\ data'[i] = data[i]
      BY <1>3 DEF OpenConnectionFile, OpenRead, Runs, Goto, fds, files, TypeInv, TypeOK
    <2> QED BY <1>1, <2>1, EarlyPairs DEF Late
  <1>7. CASE (OpenConnectionFile /\ ~MayHave(1)) \/ WriteRest
    <2>1. Ends(Master) /\ npipes' = npipes /\ url' = url /\ fs' = fs
      BY <1>7 DEF OpenConnectionFile, WriteRest, files
    <2> QED BY <1>1, <2>1, EndsPairs
  <1>4. CASE ReadUrl
    <2>1. PICK s \in {"hangup", "url"} : pc' = [pc EXCEPT ![Master] = s] /\ pc[Master] = "url"
      BY <1>1, <1>4 DEF ReadUrl, Runs, Goto, TypeInv, TypeOK
    <2>2. /\ UNCHANGED <<res, req, npipes, fs>>
          /\ \A i \in Pipe \ {In} : rd'[i] = rd[i] /\ wr'[i] = wr[i] /\ data'[i] = data[i]
      BY <1>4 DEF ReadUrl, Take, fds, files, TypeInv, TypeOK
    <2> QED BY <1>1, <2>1, <2>2, EarlyPairs DEF Late
  <1>5. CASE MasterHangsUp
    <2>1. /\ pc' = [pc EXCEPT ![Master] = "create"] /\ pc[Master] = "hangup" /\ Close(Master, {In})
          /\ UNCHANGED <<res, req, npipes, fs>>
      BY <1>5 DEF MasterHangsUp, Runs, Goto, fds, files
    <2>2. \A i \in Pipe \ {In} :
            /\ rd'[i] = rd[i] /\ wr'[i] = wr[i]
            /\ data'[i] = data[i] \/ (data'[i] = << >> /\ rd'[i] = {} /\ wr'[i] = {})
      BY <1>1, <2>1, ClosePairs
    <2> QED BY <1>1, <2>1, <2>2, EarlyPairs DEF Late
  <1>6. CASE CreateRequest
    <2>1. CASE Ends(Master) /\ UNCHANGED files
      BY <1>1, <1>6, <2>1, EndsPairs DEF CreateRequest, files
    <2>2. CASE /\ Host \in Names /\ mkfifo(Request(Host)) /\ Goto(Master, "response")
               /\ UNCHANGED <<blocked, fds, listening, ends>>
      <3>1. /\ pc[Master] = "create"
            /\ \A q \in Procs : pc'[q] = IF q = Master THEN "response" ELSE pc[q]
            /\ fs' = [fs EXCEPT ![Request(Host)] = npipes + 1] /\ npipes' = npipes + 1
            /\ UNCHANGED <<res, req, rd, wr, data, url>>
        BY <1>6, <2>2 DEF CreateRequest, Runs, mkfifo, Goto, fds, ends, TypeInv, TypeOK
      <3>2. \A d \in Clients : pc'[d] = pc[d]
        BY <1>1, <3>1, Sorts
      <3>3. pc[Master] \notin Late /\ pc'[Master] \notin Late
        BY <1>1, <3>1 DEF Late
      <3>4. /\ Request(Host) \in Paths
            /\ \A d \in Clients : Response(Name[d]) # Request(Host)
        BY <2>2, Ranges, Sorts
      <3> QED BY <3>1, <3>2, <3>3, <3>4, MadePairs
    <2> QED BY <1>6, <2>1, <2>2 DEF CreateRequest
  <1> QED BY <1>2, <1>3, <1>4, <1>5, <1>6, <1>7, OpenForEchoPairs, WriteEchoPairs, OpenForAckPairs,
             ReadAckPairs DEF MasterSteps, comm_accept

\* A worker removes paths; programs are killed and started again.
LEMMA WorkerPairs ==
  ASSUME TypeInv, PairInv, NEW n \in Names, WorkerCloses(n) \/ WorkerUnlinks(n)
  PROVE  PairInv'
  <1>1. UNCHANGED <<pc, res, req, npipes, rd, wr, data, url>>
    BY DEF WorkerCloses, WorkerUnlinks, fds, ends
  <1>2. \A f \in Paths : fs'[f] \in {Absent, fs[f]}
    BY Ranges DEF WorkerCloses, WorkerUnlinks, unlink
  <1>3. (\A c \in Clients : ClientGoesOn(c)) /\ Host' = Host
    BY <1>1 DEF ClientGoesOn, Host
  <1> QED BY <1>1, <1>2, <1>3, PairsKept

LEMMA KilledPairs ==
  ASSUME TypeInv, PairInv, NEW p \in Procs, Killed(p)
  PROVE  PairInv'
  BY EndsPairs DEF Killed, files

LEMMA RestartPairs ==
  ASSUME TypeInv, PairInv, NEW p \in Procs, Restart(p)
  PROVE  PairInv'
  <1>1. PICK s \in {"listen", "prompt"} : pc' = [pc EXCEPT ![p] = s]
    BY DEF Restart, Goto
  <1>2. pc[p] = "exited" /\ UNCHANGED <<res, req, npipes, fs, rd, wr, data, url>>
    BY DEF Restart, fds, files, ends
  <1> QED BY <1>1, <1>2, EarlyPairs DEF Late, Holding

LEMMA InitPairs == Init => PairInv
  <1> SUFFICES ASSUME Init PROVE PairInv
    OBVIOUS
  <1>1. /\ \A f \in Paths : fs[f] = Absent
        /\ \A p \in Procs : res[p] = Absent /\ req[p] = Absent
        /\ \A i \in Pipe : rd[i] = {} /\ wr[i] = {} /\ data[i] = << >>
        /\ \A c \in Clients : pc[c] = "prompt"
        /\ pc[Master] = "listen"
    BY Sorts DEF Init
  <1>2. FreshInv /\ KindInv /\ UserInv /\ WorkerInv
    BY <1>1 DEF FreshInv, KindInv, UserInv, WorkerInv, Users
  <1>3. HoldInv /\ EchoInv
    BY <1>1, Sorts DEF HoldInv, EchoInv, Holding, Late
  <1> QED BY <1>2, <1>3 DEF PairInv

\* What each part of ShareInv needs of a step.
LEMMA QuietKept ==
  ASSUME QuietInv, NEW i, i = fs[Request(Host)],
         pc'[Master] \in Offers =>
           /\ pc[Master] \in Offers /\ Host' = Host /\ fs'[Request(Host)] \in {Absent, i}
           /\ i # Absent =>
                /\ rd'[i] \subseteq rd[i] /\ data'[i] \in {data[i], << >>}
                /\ \A c \in Users(i)' :
                     /\ c \in Users(i)
                     /\ pc[c] = "ack" /\ blocked[c] = i => pc'[c] = "ack" /\ blocked'[c] = i
  PROVE  QuietInv'
  <1> SUFFICES ASSUME pc'[Master] \in Offers, fs'[Request(Host)'] # Absent
               PROVE  /\ rd'[fs'[Request(Host)']] = {} /\ data'[fs'[Request(Host)']] = << >>
                      /\ \A c \in Users(fs[Request(Host)])' :
                           pc'[c] = "ack" /\ blocked'[c] = fs'[Request(Host)']
    BY DEF QuietInv, Offers
  <1>1. Request(Host)' = Request(Host) /\ fs'[Request(Host)] = i /\ i # Absent
    BY DEF Request
  <1>2. rd[i] = {} /\ data[i] = << >> /\ \A c \in Users(i) : pc[c] = "ack" /\ blocked[c] = i
    BY <1>1 DEF QuietInv
  <1>3. Users(fs[Request(Host)])' = Users(i)'
    BY <1>1 DEF Users
  <1> QED BY <1>1, <1>2, <1>3

LEMMA CalledKept ==
  ASSUME CalledInv,
         res'[Master] # Absent => res'[Master] = res[Master] /\ Host' = Host,
         \A c \in Clients : res[Master] # Absent /\ res'[c] = res[Master] =>
           res[c] = res[Master] \/ Name[c] = Host,
         \A f \in Paths : res[Master] # Absent /\ fs'[f] = res[Master] => fs[f] = res[Master]
  PROVE  CalledInv'
  <1> SUFFICES ASSUME res'[Master] # Absent
               PROVE  /\ \A c \in Clients : res'[c] = res'[Master] => Name[c] = Host'
                      /\ \A f \in Paths : fs'[f] = res'[Master] => f = Response(Host)'
    BY DEF CalledInv
  <1>1. Response(Host)' = Response(Host)
    BY DEF Response
  <1> QED BY <1>1 DEF CalledInv

LEMMA NamesKept ==
  ASSUME TypeInv, NEW c \in Clients, NEW d \in Clients, Namesakes(c, d),
         pc'[c] \in Active => pc[c] \in Active,
         pc'[c] \in Early => pc[c] \in Early,
         pc'[d] \in Active => pc[d] \in Active,
         pc'[c] = "prompt" => pc[c] = "prompt",
         pc'[d] = "prompt" => pc[d] = "prompt",
         pc'[c] \in Active /\ pc'[d] = "prompt" /\ Resp(c) # Absent => Resp(c)' # Absent,
         pc'[c] \in Active => \A i \in Pipe \ {In} : d \in Users(i)' => d \in Users(i),
         pc'[c] \in Early => Resp(c)' \in {Absent, Resp(c)},
         pc'[c] \in Active => Reqs(c)' \in {Absent, Reqs(c)} \/ d \notin Users(Reqs(c))',
         Echoed(c)' => Echoed(c) \/ (Reqs(c)' # Absent => d \notin Users(Reqs(c))'),
         pc'[c] \in Active \cup {"prompt"} /\ pc'[d] = "prompt" =>
           /\ workers[Name[c]] = 0 /\ closing[Name[c]] = 0 =>
                workers'[Name[c]] = 0 /\ closing'[Name[c]] = 0
           /\ req'[Master] # Absent /\ Host' = Name[c] =>
                \/ data'[req'[Master]] = << >>
                \/ /\ req'[Master] = req[Master] /\ Host = Name[c]
                   /\ data'[req[Master]] \in {data[req[Master]], << >>}
  PROVE  Namesakes(c, d)'
  <1>1. /\ Resp(c) # Absent => Resp(c) \in Pipe \ {In}
        /\ Reqs(c) # Absent => Reqs(c) \in Pipe \ {In}
    BY Sorts, Ranges DEF Resp, Reqs
  <1>2. pc'[c] \in Active => pc'[d] \notin Active
    BY DEF Namesakes
  <1>3. pc'[c] \in Active /\ pc'[d] = "prompt" => Resp(c)' # Absent
    BY DEF Namesakes
  <1>4. pc'[c] \in Early /\ Resp(c)' # Absent => d \notin Users(Resp(c))'
    <2> SUFFICES ASSUME pc'[c] \in Early, Resp(c)' # Absent
                 PROVE  d \notin Users(Resp(c))'
      OBVIOUS
    <2>1. Resp(c)' = Resp(c) /\ Resp(c) # Absent /\ d \notin Users(Resp(c))
      BY DEF Namesakes
    <2>2. Users(Resp(c))' = (rd'[Resp(c)] \cup wr'[Resp(c)]) \cap Clients
      BY <2>1 DEF Users
    <2>3. pc'[c] \in Active
      BY DEF Active
    <2> QED BY <1>1, <2>1, <2>2, <2>3 DEF Users
  <1>5. Echoed(c)' /\ Reqs(c)' # Absent => d \notin Users(Reqs(c))'
    <2> SUFFICES ASSUME Echoed(c)', Reqs(c)' # Absent, d \in Users(Reqs(c))'
                 PROVE  FALSE
      OBVIOUS
    <2>1. pc'[c] \in Active
      BY DEF Echoed, Active, Late
    <2>2. Reqs(c)' = Reqs(c) /\ Reqs(c) # Absent /\ d \notin Users(Reqs(c))
      BY <2>1 DEF Namesakes
    <2>3. Users(Reqs(c))' = (rd'[Reqs(c)] \cup wr'[Reqs(c)]) \cap Clients
      BY <2>2 DEF Users
    <2> QED BY <1>1, <2>1, <2>2, <2>3 DEF Users
  <1>6. pc'[c] \in Active \cup {"prompt"} /\ pc'[d] = "prompt" =>
          /\ workers'[Name[c]] = 0 /\ closing'[Name[c]] = 0
          /\ req'[Master] # Absent /\ Host' = Name[c] => data'[req'[Master]] = << >>
    BY DEF Namesakes
  <1> QED BY <1>2, <1>3, <1>4, <1>5, <1>6 DEF Namesakes

\* Client c makes no step that the others of its name have to know of.
GoesQuietly(c) ==
  /\ pc'[c] \in Late \cup {"prompt"} => pc'[c] = pc[c] /\ res'[c] = res[c]
  /\ pc'[c] \in Early => pc[c] \in Early
  /\ res'[c] \in {Absent, res[c]}
  /\ \A i \in Pipe \ {In} :
       c \in Users(i)' /\ pc[c] = "ack" /\ blocked[c] = i => pc'[c] = "ack" /\ blocked'[c] = i

\* A step that closes or removes, or uses the server's FIFO only.
LEMMA ShareKept ==
  ASSUME TypeInv, PairInv, ShareInv,
         \A f \in Paths : fs'[f] \in {Absent, fs[f]},
         \A c \in Clients, d \in Clients :
           c # d /\ Name[c] = Name[d] /\ pc'[c] \in Active /\ pc'[d] = "prompt" =>
             Resp(c)' = Resp(c),
         \A i \in Pipe \ {In} :
           rd'[i] \subseteq rd[i] /\ wr'[i] \subseteq wr[i] /\ data'[i] \in {data[i], << >>},
         \A c \in Clients : GoesQuietly(c),
         pc'[Master] \in Offers => pc[Master] \in Offers /\ Host' = Host,
         res'[Master] # Absent => res'[Master] = res[Master] /\ Host' = Host,
         req'[Master] # Absent => req'[Master] = req[Master] /\ Host' = Host,
         \A n \in Names : workers[n] = 0 /\ closing[n] = 0 => workers'[n] = 0 /\ closing'[n] = 0
  PROVE  ShareInv'
  <1>1. /\ \A f \in Paths : fs[f] # Absent => fs[f] \in Pipe \ {In}
        /\ \A p \in Procs : res[p] # Absent => res[p] \in Pipe \ {In}
        /\ \A p \in Procs : req[p] # Absent => req[p] \in Pipe \ {In}
        /\ \A n \in Names : Request(n) \in Paths /\ Response(n) \in Paths
        /\ Master \in Procs /\ \A c \in Clients : c \in Procs /\ Name[c] \in Names
    BY Ranges, Sorts
  <1>2. QuietInv'
    <2>1. pc'[Master] \in Offers => Host \in Names
      BY DEF Offers, TypeInv, HostInv, Known
    <2>2. ASSUME pc'[Master] \in Offers, fs[Request(Host)] # Absent
          PROVE  /\ rd'[fs[Request(Host)]] \subseteq rd[fs[Request(Host)]]
                 /\ data'[fs[Request(Host)]] \in {data[fs[Request(Host)]], << >>}
                 /\ \A c \in (rd'[fs[Request(Host)]] \cup wr'[fs[Request(Host)]]) \cap Clients :
                      /\ c \in Users(fs[Request(Host)])
                      /\ pc[c] = "ack" /\ blocked[c] = fs[Request(Host)] =>
                           pc'[c] = "ack" /\ blocked'[c] = fs[Request(Host)]
      <3> DEFINE i == fs[Request(Host)]
      <3>1. i \in Pipe \ {In}
        BY <1>1, <2>1, <2>2
      <3> HIDE DEF i
      <3>2. rd'[i] \subseteq rd[i] /\ wr'[i] \subseteq wr[i] /\ data'[i] \in {data[i], << >>}
        BY <3>1
      <3>3. \A c \in (rd'[i] \cup wr'[i]) \cap Clients :
              /\ c \in Users(i)
              /\ pc[c] = "ack" /\ blocked[c] = i => pc'[c] = "ack" /\ blocked'[c] = i
        BY <3>1, <3>2 DEF GoesQuietly, Users
      <3> QED BY <3>2, <3>3 DEF i
    <2>3. PICK i : i = fs[Request(Host)]
      OBVIOUS
    <2>4. pc'[Master] \in Offers =>
            /\ pc[Master] \in Offers /\ Host' = Host /\ fs'[Request(Host)] \in {Absent, i}
            /\ i # Absent =>
                 /\ rd'[i] \subseteq rd[i] /\ data'[i] \in {data[i], << >>}
                 /\ \A c \in Users(i)' :
                      /\ c \in Users(i)
                      /\ pc[c] = "ack" /\ blocked[c] = i => pc'[c] = "ack" /\ blocked'[c] = i
      BY <1>1, <2>1, <2>2, <2>3 DEF Users
    <2> QED BY <2>3, <2>4, QuietKept DEF ShareInv
  <1>3. CalledInv'
    <2>1. \A c \in Clients : res[Master] # Absent /\ res'[c] = res[Master] =>
            res[c] = res[Master] \/ Name[c] = Host
      BY DEF GoesQuietly
    <2>2. \A f \in Paths : res[Master] # Absent /\ fs'[f] = res[Master] => fs[f] = res[Master]
      OBVIOUS
    <2> QED BY <2>1, <2>2, CalledKept DEF ShareInv
  <1>4. NamesInv'
    <2> SUFFICES ASSUME NEW c \in Clients, NEW d \in Clients, c # d, Name[c] = Name[d]
                 PROVE  Namesakes(c, d)'
      BY DEF NamesInv
    <2>1. Namesakes(c, d)
      BY DEF ShareInv, NamesInv
    <2>2. GoesQuietly(c) /\ GoesQuietly(d)
      OBVIOUS
    <2>3. /\ pc'[c] \in Active => pc[c] \in Active
          /\ pc'[c] \in Early => pc[c] \in Early
          /\ pc'[d] \in Active => pc[d] \in Active
          /\ pc'[c] = "prompt" => pc[c] = "prompt"
          /\ pc'[d] = "prompt" => pc[d] = "prompt"
      BY <2>2 DEF GoesQuietly, Active
    <2>4. /\ Resp(c)' \in {Absent, Resp(c)} /\ Reqs(c)' \in {Absent, Reqs(c)}
          /\ pc'[c] \in Active /\ pc'[d] = "prompt" /\ Resp(c) # Absent => Resp(c)' # Absent
      <3>1. Resp(c)' = fs'[Response(Name[c])] /\ Reqs(c)' = fs'[Request(Name[c])]
        BY DEF Resp, Reqs, Response, Request
      <3> QED BY <1>1, <3>1 DEF Resp, Reqs
    <2>5. \A i \in Pipe \ {In} : d \in Users(i)' => d \in Users(i)
      BY DEF Users
    <2>6. Echoed(c)' => Echoed(c)
      <3>1. pc'[c] = "echo" => data'[res'[c]] \in {data[res[c]], << >>}
        <4>1. pc'[c] = "echo" => pc[c] = "echo" /\ res'[c] = res[c]
          BY <2>2 DEF GoesQuietly, Late
        <4>2. pc[c] = "echo" => res[c] \in Pipe \ {In}
          BY <1>1 DEF PairInv, HoldInv, Holding
        <4> QED BY <4>1, <4>2
      <3>2. Resp(c)' # Absent => data'[Resp(c)'] \in {data[Resp(c)], << >>} /\ Resp(c)' = Resp(c)
        BY <1>1, <2>4 DEF Resp
      <3>3. pc'[c] \in {"request", "echo"} => pc'[c] = pc[c] /\ res'[c] = res[c]
        BY <2>2 DEF GoesQuietly, Late
      <3>4. CASE pc'[c] = "request"
        BY <3>3, <3>4 DEF Echoed
      <3>5. CASE pc'[c] = "echo" /\ data'[res'[c]] # << >>
        BY <3>1, <3>3, <3>5 DEF Echoed
      <3>6. CASE pc'[c] \in Early /\ Resp(c)' # Absent /\ data'[Resp(c)'] # << >>
        BY <2>3, <3>2, <3>6 DEF Echoed
      <3> QED BY <3>4, <3>5, <3>6 DEF Echoed
    <2>7. /\ workers[Name[c]] = 0 /\ closing[Name[c]] = 0 =>
               workers'[Name[c]] = 0 /\ closing'[Name[c]] = 0
          /\ req'[Master] # Absent /\ Host' = Name[c] =>
               /\ req'[Master] = req[Master] /\ Host = Name[c]
               /\ data'[req[Master]] \in {data[req[Master]], << >>}
      BY <1>1
    <2> QED BY <2>1, <2>3, <2>4, <2>5, <2>6, <2>7, NamesKept
  <1> QED BY <1>2, <1>3, <1>4 DEF ShareInv

\* The end of a process.
LEMMA EndsShare ==
  ASSUME TypeInv, PairInv, ShareInv, NEW p \in Procs, Ends(p), UNCHANGED <<url, children>>,
         \A f \in Paths : fs'[f] \in {Absent, fs[f]},
         \A c \in Clients, d \in Clients :
           c # d /\ Name[c] = Name[d] /\ pc'[c] \in Active /\ pc'[d] = "prompt" =>
             Resp(c)' = Resp(c)
  PROVE  ShareInv'
  <1>1. /\ Close(p, Held(p)) /\ UNCHANGED <<workers, closing>>
        /\ \A q \in Procs : pc'[q] = IF q = p THEN "exited" ELSE pc[q]
        /\ \A q \in Procs : blocked'[q] = IF q = p THEN Absent ELSE blocked[q]
        /\ \A q \in Procs : res'[q] = IF q = p THEN Absent ELSE res[q]
        /\ \A q \in Procs : req'[q] = IF q = p THEN Absent ELSE req[q]
    BY DEF Ends, Goto, children, TypeInv, TypeOK
  <1>2. \A i \in Pipe \ {In} :
          rd'[i] \subseteq rd[i] /\ wr'[i] \subseteq wr[i] /\ data'[i] \in {data[i], << >>}
    BY <1>1, ClosePairs
  <1>3. \A c \in Clients : GoesQuietly(c)
    <2> SUFFICES ASSUME NEW c \in Clients PROVE GoesQuietly(c)
      OBVIOUS
    <2>1. CASE c = p
      <3>1. \A i \in Pipe : c \notin Users(i)'
        BY <1>1, <2>1, Sorts DEF Users, Close, Held
      <3> QED BY <1>1, <2>1, <3>1 DEF GoesQuietly, Late, Early
    <2>2. CASE c # p
      BY <1>1, <2>2, Sorts DEF GoesQuietly
    <2> QED BY <2>1, <2>2
  <1>4. Host' = Host
    BY DEF Host
  <1>5. /\ pc'[Master] \in Offers => pc[Master] \in Offers
        /\ res'[Master] # Absent => res'[Master] = res[Master]
        /\ req'[Master] # Absent => req'[Master] = req[Master]
    BY <1>1, Sorts DEF Offers
  <1>6. \A n \in Names : workers[n] = 0 /\ closing[n] = 0 => workers'[n] = 0 /\ closing'[n] = 0
    BY <1>1
  <1> QED BY <1>2, <1>3, <1>4, <1>5, <1>6, ShareKept

\* A step with the server's FIFO.
LEMMA EarlyShare ==
  ASSUME TypeInv, PairInv, ShareInv, NEW p \in Procs, NEW s, pc' = [pc EXCEPT ![p] = s],
         UNCHANGED <<res, req, fs, workers, closing>>, p = Master \/ url' = url,
         \A i \in Pipe \ {In} :
           rd'[i] = rd[i] /\ wr'[i] = wr[i] /\ data'[i] \in {data[i], << >>},
         \A q \in Clients : q # p /\ blocked[q] # In => blocked'[q] = blocked[q],
         p \in Clients => pc[p] \in Early /\ s \in Early,
         p = Master => pc[p] \notin Late /\ s \notin Late \cup Offers
  PROVE  ShareInv'
  <1>1. \A q \in Procs : pc'[q] = IF q = p THEN s ELSE pc[q]
    BY DEF TypeInv, TypeOK
  <1>2. \A c \in Clients : GoesQuietly(c)
    <2> SUFFICES ASSUME NEW c \in Clients PROVE GoesQuietly(c)
      OBVIOUS
    <2>1. CASE c = p
      BY <1>1, <2>1, Sorts DEF GoesQuietly, Late, Early
    <2>2. CASE c # p
      BY <1>1, <2>2, Sorts DEF GoesQuietly
    <2> QED BY <2>1, <2>2
  <1>3. /\ pc'[Master] \in Offers => pc[Master] \in Offers /\ Host' = Host
        /\ res'[Master] # Absent => res'[Master] = res[Master] /\ Host' = Host
        /\ req'[Master] # Absent => req'[Master] = req[Master] /\ Host' = Host
    <2>1. CASE p = Master
      BY <1>1, <2>1 DEF PairInv, EchoInv, Late
    <2>2. CASE p # Master
      BY <1>1, <2>2, Sorts DEF Host
    <2> QED BY <2>1, <2>2
  <1>4. /\ \A f \in Paths : fs'[f] \in {Absent, fs[f]}
        /\ \A c \in Clients : Resp(c)' = Resp(c)
        /\ \A i \in Pipe \ {In} :
             rd'[i] \subseteq rd[i] /\ wr'[i] \subseteq wr[i] /\ data'[i] \in {data[i], << >>}
        /\ \A n \in Names : workers[n] = 0 /\ closing[n] = 0 => workers'[n] = 0 /\ closing'[n] = 0
    BY DEF Resp, Response
  <1> QED BY <1>2, <1>3, <1>4, ShareKept

\* Each step in turn.
LEMMA CreateResponseShare ==
  ASSUME AtMostTwo, TypeInv, TypeInv', PairInv, ShareInv, NEW e \in Clients, CreateResponse(e)
  PROVE  ShareInv'
  <1>1. e \in Procs /\ Response(Name[e]) \in Paths
    BY Sorts, Ranges
  <1>2. CASE Ends(e) /\ UNCHANGED files
    <2>1. UNCHANGED <<url, children>> /\ fs' = fs
      BY <1>2 DEF CreateResponse, files
    <2> QED BY <1>1, <1>2, <2>1, EndsShare DEF Resp, Response
  <1>3. CASE mkfifo(Response(Name[e])) /\ Goto(e, "connect") /\ UNCHANGED <<blocked, fds, listening, ends>>
    <2> DEFINE new == npipes + 1
    <2>1. /\ pc[e] = "prompt" /\ Resp(e) = Absent
          /\ \A q \in Procs : pc'[q] = IF q = e THEN "connect" ELSE pc[q]
          /\ fs' = [fs EXCEPT ![Response(Name[e])] = new] /\ npipes' = new
          /\ UNCHANGED <<blocked, res, req, rd, wr, data, url, workers, closing>>
      BY <1>3 DEF CreateResponse, Runs, mkfifo, Goto, fds, ends, children, TypeInv, TypeOK, Resp
    <2>2. /\ fs'[Response(Name[e])] = new /\ \A f \in Paths : f # Response(Name[e]) => fs'[f] = fs[f]
          /\ new # Absent /\ rd[new] = {} /\ wr[new] = {} /\ data[new] = << >>
          /\ \A p \in Procs : res[p] # new
      BY <1>1, <2>1, NewPipe
    <2> HIDE DEF new
    <2>3. QuietInv'
      <3>1. PICK i : i = fs[Request(Host)]
        OBVIOUS
      <3>2. Host' = Host /\ pc'[Master] = pc[Master]
        BY <2>1, Sorts DEF Host
      <3>3. pc[Master] \in Offers => fs'[Request(Host)] = i
        BY <2>2, <3>1, Ranges, Sorts DEF Offers, TypeInv, HostInv, Known
      <3>4. \A c \in Users(i)' : c \in Users(i) /\ (pc[c] = "ack" => pc'[c] = "ack")
        BY <2>1, Sorts DEF Users
      <3> QED BY <2>1, <3>1, <3>2, <3>3, <3>4, QuietKept DEF ShareInv
    <2>4. CalledInv'
      <3>1. Host' = Host
        BY <2>1 DEF Host
      <3>2. \A f \in Paths : fs'[f] = res[Master] => fs[f] = res[Master]
        BY <2>2, Sorts
      <3> QED BY <2>1, <3>1, <3>2, CalledKept DEF ShareInv
    <2>5. NamesInv'
      <3> SUFFICES ASSUME NEW c \in Clients, NEW d \in Clients, c # d, Name[c] = Name[d]
                   PROVE  Namesakes(c, d)'
        BY DEF NamesInv
      <3>1. Namesakes(c, d) /\ Namesakes(d, c)
        BY DEF ShareInv, NamesInv
      <3>2. c \in Procs /\ d \in Procs /\ Name[c] \in Names
            /\ Request(Name[c]) \in Paths /\ Response(Name[c]) \in Paths
            /\ Request(Name[c]) # Response(Name[e])
        BY Sorts, Ranges
      <3>3. Resp(c)' = fs'[Response(Name[c])] /\ Reqs(c)' = fs'[Request(Name[c])]
        BY DEF Resp, Reqs, Response, Request
      <3>4. Reqs(c)' = Reqs(c)
        BY <2>2, <3>2, <3>3 DEF Reqs
      <3>5. CASE e = c
        <4>1. pc'[c] = "connect" /\ pc'[d] = pc[d] /\ Resp(c)' = new
          BY <2>1, <2>2, <3>2, <3>3, <3>5
        <4>2. pc[d] \notin Active
          <5>1. Resp(d) = Absent
            BY <2>1, <3>5 DEF Resp
          <5> QED BY <2>1, <3>1, <3>5, <5>1 DEF Namesakes
        <4>3. d \notin Users(Resp(c))'
          BY <2>1, <2>2, <4>1 DEF Users
        <4>4. ~Echoed(c)'
          BY <2>1, <2>2, <4>1 DEF Echoed
        <4>5. pc[d] = "prompt" =>
                /\ workers'[Name[c]] = 0 /\ closing'[Name[c]] = 0
                /\ req'[Master] # Absent /\ Host' = Name[c] => data'[req'[Master]] = << >>
          BY <2>1, <3>1, <3>5 DEF Namesakes, Host
        <4> QED BY <2>2, <4>1, <4>2, <4>3, <4>4, <4>5 DEF Namesakes
      <3>6. CASE e = d
        <4>1. pc'[d] = "connect" /\ pc'[c] = pc[c]
          BY <2>1, <3>2, <3>6
        <4>2. pc[c] \notin Active
          <5>1. Resp(c) = Absent
            BY <2>1, <3>6 DEF Resp
          <5> QED BY <2>1, <3>1, <3>6, <5>1 DEF Namesakes
        <4>3. ~Echoed(c)' /\ pc'[c] \notin Early
          BY <4>1, <4>2 DEF Echoed, Active, Late
        <4> QED BY <4>1, <4>2, <4>3 DEF Namesakes
      <3>7. CASE e # c /\ e # d
        <4>1. pc'[c] = pc[c] /\ pc'[d] = pc[d]
          BY <2>1, <3>2, <3>7
        <4>2. Response(Name[c]) # Response(Name[e])
          BY <3>2, <3>7, Ranges, Sorts DEF AtMostTwo
        <4>3. Resp(c)' = Resp(c)
          BY <2>2, <3>2, <3>3, <4>2 DEF Resp
        <4>4. \A i \in Pipe \ {In} : d \in Users(i)' => d \in Users(i)
          BY <2>1 DEF Users
        <4>5. Echoed(c)' => Echoed(c)
          BY <2>1, <4>1, <4>3 DEF Echoed
        <4>6. Host' = Host
          BY <2>1 DEF Host
        <4> QED BY <2>1, <3>1, <3>4, <4>1, <4>3, <4>4, <4>5, <4>6, NamesKept
      <3> QED BY <3>5, <3>6, <3>7
    <2> QED BY <2>3, <2>4, <2>5 DEF ShareInv
  <1> QED BY <1>2, <1>3 DEF CreateResponse

\* An end of pipe i is opened: nobody else is woken but who waits there.
LEMMA OpenedShare ==
  ASSUME TypeInv, NEW p \in Procs, NEW i \in Pipe \ {In}, OpenRead(p, i) \/ OpenWrite(p, i)
  PROVE  /\ data' = data
         /\ \A j \in Pipe : j # i => rd'[j] = rd[j] /\ wr'[j] = wr[j]
         /\ \A j \in Pipe : \A q : q # p => (q \in rd'[j] <=> q \in rd[j]) /\ (q \in wr'[j] <=> q \in wr[j])
         /\ \A q \in Procs : q # p /\ blocked[q] # i => blocked'[q] = blocked[q]
  BY Ranges DEF OpenRead, OpenWrite, Open

\* The client that opens a FIFO goes on; whoever shares its name does not connect.
LEMMA OpenerNames ==
  ASSUME TypeInv, PairInv, ShareInv, NEW e \in Clients, NEW i \in Pipe \ {In},
         OpenRead(e, i) \/ OpenWrite(e, i), pc[e] \in {"response", "request"},
         \A q \in Procs : pc'[q] = IF q = e THEN (IF pc[e] = "response" THEN "echo" ELSE "ack") ELSE pc[q],
         pc[e] = "response" => i = Resp(e) /\ res'[e] = i,
         \A q \in Procs : q # e => res'[q] = res[q] /\ req'[q] = req[q],
         UNCHANGED <<fs, url, workers, closing>>
  PROVE  NamesInv'
  <1>1. /\ e \in Procs /\ Master \in Procs /\ e # Master
        /\ data' = data
        /\ \A j \in Pipe : \A q : q # e => (q \in rd'[j] <=> q \in rd[j]) /\ (q \in wr'[j] <=> q \in wr[j])
    BY Sorts, OpenedShare
  <1> SUFFICES ASSUME NEW c \in Clients, NEW d \in Clients, c # d, Name[c] = Name[d]
               PROVE  Namesakes(c, d)'
    BY DEF NamesInv
  <1>2. Namesakes(c, d) /\ Namesakes(d, c)
    BY DEF ShareInv, NamesInv
  <1>3. /\ c \in Procs /\ d \in Procs /\ Resp(c)' = Resp(c) /\ Reqs(c)' = Reqs(c) /\ Host' = Host
        /\ req'[Master] = req[Master]
    BY <1>1, Sorts DEF Resp, Reqs, Response, Request, Host
  <1>4. CASE e = d
    <2>1. pc[c] \notin Active /\ pc'[c] = pc[c] /\ pc'[d] # "prompt"
      BY <1>1, <1>2, <1>3, <1>4 DEF Namesakes, Active, Early, Late
    <2>2. ~Echoed(c)' /\ pc'[c] \notin Early
      BY <2>1 DEF Echoed, Active, Late
    <2> QED BY <2>1, <2>2 DEF Namesakes
  <1>5. CASE e # d
    <2>1. /\ pc'[d] = pc[d]
          /\ pc'[c] \in Active => pc[c] \in Active
          /\ pc'[c] \in Early => pc[c] \in Early
          /\ pc'[c] = "prompt" => pc[c] = "prompt"
      BY <1>3, <1>5 DEF Active, Early, Late
    <2>2. \A j \in Pipe \ {In} : d \in Users(j)' => d \in Users(j)
      BY <1>1, <1>5 DEF Users
    <2>3. Echoed(c)' => Echoed(c)
      <3>1. CASE e = c
        BY <1>1, <1>3, <3>1, Sorts DEF Echoed, Early
      <3>2. CASE e # c
        BY <1>1, <1>3, <3>2 DEF Echoed
      <3> QED BY <3>1, <3>2
    <2> QED BY <1>1, <1>2, <1>3, <2>1, <2>2, <2>3, NamesKept
  <1> QED BY <1>4, <1>5

LEMMA OpenResponseShare ==
  ASSUME TypeInv, PairInv, ShareInv, NEW e \in Clients, OpenResponse(e)
  PROVE  ShareInv'
  <1> DEFINE i == fs[Response(Name[e])]
  <1>1. e \in Procs /\ e # Master /\ Master \in Procs /\ Name[e] \in Names /\ Response(Name[e]) \in Paths
    BY Sorts, Ranges
  <1>2. CASE i = Absent
    <2>1. Ends(e) /\ UNCHANGED <<url, children>> /\ fs' = fs
      BY <1>2 DEF OpenResponse, files
    <2> QED BY <1>1, <2>1, EndsShare DEF Resp, Response
  <1>3. CASE i # Absent
    <2>1. /\ pc[e] = "response" /\ OpenRead(e, i) /\ Goto(e, "echo")
          /\ res' = [res EXCEPT ![e] = i] /\ req' = req
          /\ UNCHANGED <<fs, url, workers, closing>>
      BY <1>3 DEF OpenResponse, Runs, files, children
    <2>2. /\ i \in Pipe \ {In}
          /\ \A q \in Procs : pc'[q] = IF q = e THEN "echo" ELSE pc[q]
          /\ \A q \in Procs : res'[q] = IF q = e THEN i ELSE res[q]
      BY <1>1, <1>3, <2>1, Ranges DEF Goto, TypeInv, TypeOK
    <2>3. Host' = Host /\ pc'[Master] = pc[Master]
      BY <1>1, <2>1, <2>2 DEF Host
    <2>4. QuietInv'
      <3>1. PICK k : k = fs[Request(Host)]
        OBVIOUS
      <3>2. pc[Master] \in Offers /\ k # Absent => k \in Pipe /\ k # i
        BY <1>1, <1>3, <3>1, Ranges DEF Offers, TypeInv, HostInv, Known, PairInv, FreshInv
      <3>3. ASSUME pc[Master] \in Offers, k # Absent
            PROVE  /\ rd'[k] \subseteq rd[k] /\ data'[k] \in {data[k], << >>}
                   /\ \A c \in Users(k)' :
                        /\ c \in Users(k)
                        /\ pc[c] = "ack" /\ blocked[c] = k => pc'[c] = "ack" /\ blocked'[c] = k
        <4>1. rd'[k] = rd[k] /\ wr'[k] = wr[k] /\ data' = data
          BY <1>1, <2>1, <2>2, <3>2, <3>3, OpenedShare
        <4>2. \A c \in Procs : c # e /\ blocked[c] = k => blocked'[c] = k
          BY <1>1, <2>1, <2>2, <3>2, <3>3, OpenedShare
        <4> QED BY <2>1, <2>2, <4>1, <4>2, Sorts DEF Users
      <3> QED BY <2>1, <2>3, <3>1, <3>3, QuietKept DEF ShareInv
    <2>5. CalledInv'
      <3>1. res[Master] # Absent /\ i = res[Master] => Name[e] = Host
        <4>1. res[Master] # Absent => Host \in Names
          BY DEF PairInv, EchoInv, Late, TypeInv, HostInv, Known
        <4>2. res[Master] # Absent /\ i = res[Master] => Response(Name[e]) = Response(Host)
          BY <1>1 DEF ShareInv, CalledInv
        <4> QED BY <1>1, <4>1, <4>2, Ranges
      <3>2. \A c \in Clients : res[Master] # Absent /\ res'[c] = res[Master] =>
              res[c] = res[Master] \/ Name[c] = Host
        BY <2>2, <3>1, Sorts
      <3> QED BY <1>1, <2>1, <2>2, <2>3, <3>2, CalledKept DEF ShareInv
    <2>6. NamesInv'
      BY <1>1, <2>1, <2>2, OpenerNames DEF Resp
    <2> QED BY <2>4, <2>5, <2>6 DEF ShareInv
  <1> QED BY <1>2, <1>3

LEMMA OpenRequestShare ==
  ASSUME TypeInv, PairInv, ShareInv, NEW e \in Clients, OpenRequest(e)
  PROVE  ShareInv'
  <1> DEFINE i == fs[Request(Name[e])]
  <1>1. e \in Procs /\ e # Master /\ Master \in Procs /\ Name[e] \in Names /\ Request(Name[e]) \in Paths
    BY Sorts, Ranges
  <1>2. CASE i = Absent
    <2>1. Ends(e) /\ UNCHANGED <<url, children>> /\ fs' = fs
      BY <1>2 DEF OpenRequest, files
    <2> QED BY <1>1, <2>1, EndsShare DEF Resp, Response
  <1>3. CASE i # Absent
    <2>1. /\ pc[e] = "request" /\ OpenWrite(e, i) /\ Goto(e, "ack")
          /\ req' = [req EXCEPT ![e] = i] /\ res' = res
          /\ UNCHANGED <<fs, url, workers, closing>>
      BY <1>3 DEF OpenRequest, Runs, files, children
    <2>2. /\ i \in Pipe \ {In}
          /\ \A q \in Procs : pc'[q] = IF q = e THEN "ack" ELSE pc[q]
          /\ \A q \in Procs : req'[q] = IF q = e THEN i ELSE req[q]
      BY <1>1, <1>3, <2>1, Ranges DEF Goto, TypeInv, TypeOK
    <2>3. Host' = Host /\ pc'[Master] = pc[Master]
      BY <1>1, <2>1, <2>2 DEF Host
    <2>4. QuietInv'
      <3> DEFINE k == fs[Request(Host)]
      <3> SUFFICES ASSUME pc[Master] \in Offers, k # Absent
                   PROVE  /\ rd'[k] = {} /\ data'[k] = << >>
                          /\ \A c \in (rd'[k] \cup wr'[k]) \cap Clients : pc'[c] = "ack" /\ blocked'[c] = k
        <4>1. Request(Host)' = Request(Host)
          BY <2>3 DEF Request
        <4> QED BY <2>1, <2>3, <4>1 DEF QuietInv, Users
      <3>1. k \in Pipe /\ rd[k] = {} /\ data[k] = << >> /\ \A c \in Users(k) : pc[c] = "ack" /\ blocked[c] = k
        BY Ranges DEF Offers, TypeInv, HostInv, Known, ShareInv, QuietInv
      <3> HIDE DEF k
      <3>2. /\ rd' = rd /\ data' = data /\ \A j \in Pipe : j # i => wr'[j] = wr[j]
            /\ wr'[i] = wr[i] \cup {e}
            /\ \A q \in Procs : q # e /\ (blocked[q] # i \/ rd[i] = {}) => blocked'[q] = blocked[q]
            /\ rd[i] = {} => blocked'[e] = i
        BY <1>1, <2>1, <2>2, Ranges DEF OpenWrite, Open
      <3>3. \A c \in (rd'[k] \cup wr'[k]) \cap Clients : c \in Users(k) \/ (c = e /\ k = i)
        BY <2>2, <3>1, <3>2 DEF Users
      <3>4. \A c \in Users(k) : c # e /\ c \in Procs
        BY <2>1, <3>1, Sorts DEF Users
      <3>5. \A c \in Users(k) : pc'[c] = "ack" /\ blocked'[c] = k
        BY <2>2, <3>1, <3>2, <3>4
      <3> QED BY <1>1, <2>2, <3>1, <3>2, <3>3, <3>5
    <2>5. CalledInv'
      BY <2>1, <2>3, CalledKept DEF ShareInv
    <2>6. NamesInv'
      BY <1>1, <2>1, <2>2, OpenerNames
    <2> QED BY <2>4, <2>5, <2>6 DEF ShareInv
  <1> QED BY <1>2, <1>3

\* A write or a read on a pipe that is not the one the master has made.
LEMMA DataShare ==
  ASSUME TypeInv, PairInv, ShareInv, NEW i \in Pipe \ {In},
         UNCHANGED <<blocked, res, req, rd, wr, fs, url, workers, closing>>,
         \A j \in Pipe : j # i => data'[j] = data[j],
         pc[Master] \in Offers /\ fs[Request(Host)] = i => FALSE,
         pc'[Master] \in Offers => pc[Master] \in Offers,
         \A c \in Clients : /\ pc[c] = "ack" /\ blocked[c] # Absent => pc'[c] = "ack"
                            /\ pc'[c] \in Active => pc[c] \in Active
                            /\ pc'[c] \in Early => pc[c] \in Early
                            /\ pc'[c] = "prompt" => pc[c] = "prompt",
         \A c \in Clients, d \in Clients : c # d /\ Name[c] = Name[d] =>
           /\ Echoed(c)' => Echoed(c) \/ (Reqs(c)' # Absent => d \notin Users(Reqs(c))')
           /\ pc'[c] \in Active \cup {"prompt"} /\ pc'[d] = "prompt" /\ Host = Name[c] => req[Master] # i
  PROVE  ShareInv'
  <1>1. Host' = Host
    BY DEF Host
  <1>2. QuietInv'
    <2>1. PICK k : k = fs[Request(Host)]
      OBVIOUS
    <2>2. pc[Master] \in Offers /\ k # Absent => k \in Pipe /\ k # i
      BY <2>1, Ranges DEF Offers, TypeInv, HostInv, Known
    <2>3. \A c \in Users(k)' :
            /\ c \in Users(k)
            /\ pc[c] = "ack" /\ blocked[c] = k /\ k # Absent => pc'[c] = "ack" /\ blocked'[c] = k
      BY DEF Users
    <2> QED BY <1>1, <2>1, <2>2, <2>3, QuietKept DEF ShareInv
  <1>3. CalledInv'
    BY <1>1, CalledKept DEF ShareInv
  <1>4. NamesInv'
    <2> SUFFICES ASSUME NEW c \in Clients, NEW d \in Clients, c # d, Name[c] = Name[d]
                 PROVE  Namesakes(c, d)'
      BY DEF NamesInv
    <2>1. Namesakes(c, d)
      BY DEF ShareInv, NamesInv
    <2>2. Resp(c)' = Resp(c) /\ Reqs(c)' = Reqs(c)
      BY DEF Resp, Reqs, Response, Request
    <2>3. \A j \in Pipe : d \in Users(j)' => d \in Users(j)
      BY DEF Users
    <2>4. req[Master] # Absent => req[Master] \in Pipe
      BY Ranges, Sorts
    <2> QED BY <1>1, <2>1, <2>2, <2>3, <2>4, NamesKept
  <1> QED BY <1>2, <1>3, <1>4 DEF ShareInv

LEMMA ReadEchoShare ==
  ASSUME TypeInv, PairInv, ShareInv, NEW e \in Clients, ReadEcho(e)
  PROVE  ShareInv'
  <1> DEFINE i == res[e]
  <1>1. e \in Procs /\ Master \in Procs /\ e # Master /\ Name[e] \in Names /\ Name[e] # Zero
    BY Sorts
  <1>2. CASE Next1(i) # Name[e]
    <2>1. Ends(e) /\ UNCHANGED <<url, children>> /\ fs' = fs
      BY <1>2 DEF ReadEcho, files
    <2> QED BY <1>1, <2>1, EndsShare DEF Resp, Response
  <1>3. CASE Next1(i) = Name[e]
    <2>1. /\ pc[e] = "echo" /\ data[i] # << >>
          /\ UNCHANGED <<blocked, res, req, rd, wr, fs, url, workers, closing>>
      BY <1>1, <1>3 DEF ReadEcho, Runs, Take, files, fds, children, Next1
    <2>2. \A q \in Procs : pc'[q] = IF q = e THEN "request" ELSE pc[q]
      BY <1>3 DEF ReadEcho, Goto, TypeInv, TypeOK
    <2>3. i \in Pipe \ {In} /\ i # Absent
      BY <1>1, <2>1, Ranges DEF PairInv, HoldInv, Holding
    <2>4. \A j \in Pipe : j # i => data'[j] = data[j]
      BY <1>3, <2>3 DEF ReadEcho, Take, TypeInv, TypeOK
    <2>5. /\ req[Master] # i
          /\ pc[Master] \in Offers /\ fs[Request(Host)] = i => FALSE
      BY <1>1, <2>3 DEF PairInv, KindInv, Offers, TypeInv, HostInv, Known
    <2>6. \A c \in Clients : /\ pc[c] = "ack" /\ blocked[c] # Absent => pc'[c] = "ack"
                             /\ pc'[c] \in Active => pc[c] \in Active
                             /\ pc'[c] \in Early => pc[c] \in Early
                             /\ pc'[c] = "prompt" => pc[c] = "prompt"
      BY <2>1, <2>2, Sorts DEF Active, Early, Late
    <2>7. ASSUME NEW c \in Clients, Echoed(c)'
          PROVE  Echoed(c)
      <3>1. CASE c = e
        BY <2>1, <3>1 DEF Echoed
      <3>2. CASE c # e
        <4>1. /\ pc'[c] = pc[c] /\ Resp(c)' = Resp(c) /\ res'[c] = res[c]
              /\ Resp(c) # Absent => Resp(c) \in Pipe
              /\ pc[c] = "echo" => res[c] \in Pipe
          BY <2>1, <2>2, <3>2, Sorts, Ranges DEF Resp, Response, PairInv, HoldInv, Holding
        <4> QED BY <2>1, <2>4, <2>7, <4>1 DEF Echoed
      <3> QED BY <3>1, <3>2
    <2>8. pc'[Master] = pc[Master]
      BY <1>1, <2>2
    <2> QED BY <2>1, <2>3, <2>4, <2>5, <2>6, <2>7, <2>8, DataShare
  <1> QED BY <1>2, <1>3

\* The client's name is the only other one's, who has begun long ago.
LEMMA WriteAckShare ==
  ASSUME AtMostTwo, TypeInv, PairInv, ShareInv, NEW e \in Clients, WriteAck(e)
  PROVE  ShareInv'
  <1> DEFINE i == req[e]
  <1>1. /\ e \in Procs /\ Master \in Procs /\ e # Master /\ Name[e] \in Names
        /\ pc[e] = "ack" /\ blocked[e] = Absent
        /\ UNCHANGED <<fs, url, children, workers, closing>>
    BY Sorts DEF WriteAck, Runs, files, children
  <1>2. CASE Ends(e)
    BY <1>1, <1>2, EndsShare DEF Resp, Response
  <1>3. CASE ~Ends(e)
    <2>1. Write(i, Name[e]) /\ UNCHANGED <<blocked, res, req, rd, wr>>
      BY <1>3 DEF WriteAck, Send, Write, fds
    <2>2. \A q \in Procs : pc'[q] = IF q = e THEN "open" ELSE pc[q]
      BY <1>3 DEF WriteAck, Send, Goto, TypeInv, TypeOK
    <2>3. i \in Pipe \ {In} /\ i # Absent /\ e \in wr[i]
      BY <1>1, Ranges DEF PairInv, HoldInv
    <2>4. \A j \in Pipe : j # i => data'[j] = data[j]
      BY <2>1, <2>3 DEF Write, TypeInv, TypeOK
    <2>5. pc[Master] \in Offers /\ fs[Request(Host)] = i => FALSE
      BY <1>1, <2>3 DEF ShareInv, QuietInv, Users
    <2>6. \A c \in Clients : /\ pc[c] = "ack" /\ blocked[c] # Absent => pc'[c] = "ack"
                             /\ pc'[c] \in Active => pc[c] \in Active
                             /\ pc'[c] \in Early => pc[c] \in Early
                             /\ pc'[c] = "prompt" => pc[c] = "prompt"
      BY <1>1, <2>2, Sorts DEF Active, Early, Late
    <2>7. ASSUME NEW c \in Clients, Echoed(c)'
          PROVE  Echoed(c)
      <3>1. c # e
        BY <1>1, <2>2, <2>7 DEF Echoed, Early
      <3>2. /\ pc'[c] = pc[c] /\ Resp(c)' = Resp(c) /\ res'[c] = res[c]
            /\ Resp(c) # Absent => Resp(c) \in Pipe /\ Resp(c) # i
            /\ pc[c] = "echo" => res[c] \in Pipe /\ res[c] # i
        <4>1. Resp(c)' = Resp(c)
          BY <1>1 DEF Resp, Response
        <4>2. c \in Procs /\ Name[c] \in Names
          BY Sorts
        <4> QED BY <1>1, <2>1, <2>2, <2>3, <3>1, <4>1, <4>2, Sorts, Ranges
                DEF Resp, PairInv, HoldInv, KindInv, Holding
      <3> QED BY <2>4, <2>7, <3>2 DEF Echoed
    <2>8. ASSUME NEW c \in Clients, NEW d \in Clients, c # d, Name[c] = Name[d],
                 pc'[c] \in Active \cup {"prompt"}, pc'[d] = "prompt", Host = Name[c],
                 req[Master] = i
          PROVE  FALSE
      <3>1. c # e /\ d # e
        BY <1>1, <2>2, <2>8 DEF Active, Early, Late
      <3>2. Name[e] = Host
        BY <2>3, <2>8 DEF PairInv, EchoInv
      <3> QED BY <2>8, <3>1, <3>2 DEF AtMostTwo
    <2>9. pc'[Master] = pc[Master]
      BY <1>1, <2>2
    <2> QED BY <1>1, <2>1, <2>3, <2>4, <2>5, <2>6, <2>7, <2>8, <2>9, DataShare
  <1> QED BY <1>2, <1>3

LEMMA ClientShare ==
  ASSUME AtMostTwo, TypeInv, TypeInv', PairInv, ShareInv, NEW c \in Clients,
         CreateResponse(c) \/ connection_open(c) \/ ClientCloses(c) \/ ClientUnlinks(c)
  PROVE  ShareInv'
  <1>1. c \in Procs /\ c # Master /\ Name[c] \in Names /\ Response(Name[c]) \in Paths
    BY Sorts, Ranges
  <1>2. ASSUME Ends(c), UNCHANGED <<files, url, children>>
        PROVE  ShareInv'
    BY <1>1, <1>2, EndsShare DEF files, Resp, Response
  <1>3. CASE Connect(c)
    <2>1. CASE OpenWrite(c, In) /\ Goto(c, "text") /\ UNCHANGED fds
      <3>1. /\ pc' = [pc EXCEPT ![c] = "text"] /\ pc[c] = "connect"
            /\ UNCHANGED <<res, req, fs, url, workers, closing>>
            /\ \A i \in Pipe \ {In} : rd'[i] = rd[i] /\ wr'[i] = wr[i] /\ data'[i] = data[i]
        BY <1>3, <2>1 DEF Connect, Runs, Goto, OpenWrite, fds, files, children, TypeInv, TypeOK
      <3>2. \A q \in Clients : q # c /\ blocked[q] # In => blocked'[q] = blocked[q]
        BY <2>1, Sorts DEF OpenWrite, Open
      <3> QED BY <1>1, <3>1, <3>2, EarlyShare DEF Early
    <2>2. CASE Ends(c)
      BY <1>2, <1>3, <2>2 DEF Connect
    <2> QED BY <1>3, <2>1, <2>2 DEF Connect
  <1>4. CASE WriteUrl(c)
    <2>1. CASE Ends(c)
      BY <1>2, <1>4, <2>1 DEF WriteUrl
    <2>2. CASE ~Ends(c)
      <3>1. PICK s \in {"zero", "hangup"}, token \in Names \cup {Zero} :
              /\ pc' = [pc EXCEPT ![c] = s] /\ pc[c] \in {"text", "zero"}
              /\ Write(In, token) /\ UNCHANGED <<blocked, res, req>>
        BY <1>1, <1>4, <2>2 DEF WriteUrl, Send, Runs, Goto, fds
      <3>2. /\ UNCHANGED <<fs, url, workers, closing>>
            /\ \A i \in Pipe \ {In} : rd'[i] = rd[i] /\ wr'[i] = wr[i] /\ data'[i] = data[i]
        BY <1>4, <3>1 DEF WriteUrl, Write, files, children, TypeInv, TypeOK
      <3> QED BY <1>1, <3>1, <3>2, EarlyShare DEF Early
    <2> QED BY <2>1, <2>2
  <1>5. CASE HangUp(c)
    <2>1. /\ pc' = [pc EXCEPT ![c] = "response"] /\ pc[c] = "hangup" /\ Close(c, {In})
          /\ UNCHANGED <<blocked, res, req, fs, url, workers, closing>>
      BY <1>5 DEF HangUp, Runs, Goto, fds, files, children
    <2>2. \A i \in Pipe \ {In} :
            rd'[i] = rd[i] /\ wr'[i] = wr[i] /\ data'[i] \in {data[i], << >>}
      BY <1>1, <2>1, ClosePairs
    <2> QED BY <1>1, <2>1, <2>2, EarlyShare DEF Early
  <1>6. CASE ClientCloses(c)
    <2>1. /\ pc[c] = "open" /\ Close(c, {req[c]})
          /\ \A q \in Procs : pc'[q] = IF q = c THEN "unlink" ELSE pc[q]
          /\ fs' = [fs EXCEPT ![Request(Name[c])] = Absent]
          /\ UNCHANGED <<blocked, res, req, url, workers, closing>>
      BY <1>6 DEF ClientCloses, Runs, Goto, unlink, fds, children, TypeInv, TypeOK
    <2>2. \A i \in Pipe \ {In} :
            rd'[i] \subseteq rd[i] /\ wr'[i] \subseteq wr[i] /\ data'[i] \in {data[i], << >>}
      BY <1>1, <2>1, ClosePairs
    <2>3. \A d \in Clients : GoesQuietly(d)
      BY <2>1, Sorts DEF GoesQuietly, Early, Late
    <2>4. \A f \in Paths : fs'[f] \in {Absent, fs[f]}
      BY <2>1, Ranges
    <2>5. \A d \in Clients : Resp(d)' = Resp(d)
      <3>1. \A d \in Clients : Response(Name[d]) \in Paths /\ Response(Name[d]) # Request(Name[c])
        BY <1>1, Sorts, Ranges
      <3> QED BY <2>1, <3>1, Ranges DEF Resp, Response
    <2>6. Host' = Host /\ pc'[Master] = pc[Master]
      BY <1>1, <2>1, Sorts DEF Host
    <2> QED BY <2>1, <2>2, <2>3, <2>4, <2>5, <2>6, ShareKept
  <1>7. CASE ClientUnlinks(c)
    <2>1. /\ pc[c] = "unlink" /\ Ends(c) /\ UNCHANGED <<url, children>>
          /\ fs' = [fs EXCEPT ![Response(Name[c])] = Absent]
          /\ \A f \in Paths : fs'[f] \in {Absent, fs[f]}
      BY <1>7, Ranges DEF ClientUnlinks, unlink, Runs
    <2>2. ASSUME NEW d \in Clients, NEW e \in Clients, d # e, Name[d] = Name[e],
                 pc'[d] \in Active, pc'[e] = "prompt"
          PROVE  Resp(d)' = Resp(d)
      <3>1. pc'[c] = "exited"
        BY <1>1, <2>1 DEF Ends, Goto, TypeInv, TypeOK
      <3>2. c # d /\ c # e
        BY <2>2, <3>1 DEF Active, Early, Late
      <3>3. Name[d] # Name[c]
        BY <2>2, <3>2 DEF AtMostTwo
      <3>4. Response(Name[d]) \in Paths /\ Response(Name[d]) # Response(Name[c])
        BY <1>1, <3>3, Sorts, Ranges
      <3>5. Resp(d)' = fs'[Response(Name[d])]
        BY DEF Resp, Response
      <3> QED BY <2>1, <3>4, <3>5, Ranges DEF Resp
    <2> QED BY <1>1, <2>1, <2>2, EndsShare
  <1> QED BY <1>3, <1>4, <1>5, <1>6, <1>7, CreateResponseShare, OpenResponseShare, ReadEchoShare,
             OpenRequestShare, WriteAckShare DEF connection_open

LEMMA OpenForEchoShare ==
  ASSUME TypeInv, PairInv, ShareInv, OpenForEcho
  PROVE  ShareInv'
  <1> DEFINE f == Response(Host)
             i == fs[f]
  <1>1. /\ Master \in Procs /\ Master \notin Clients /\ pc[Master] = "response"
        /\ Host \in Names /\ f \in Paths /\ f[2] = Host /\ UNCHANGED <<fs, url, children, workers, closing>>
    BY Sorts, Ranges DEF OpenForEcho, Runs, TypeInv, HostInv, Known, files, children, Response
  <1>2. CASE i = Absent \/ ~MayHave(1)
    <2>1. Ends(Master)
      BY <1>2 DEF OpenForEcho
    <2> QED BY <1>1, <2>1, EndsShare DEF Resp, Response
  <1>3. CASE i # Absent /\ MayHave(1)
    <2>1. /\ OpenWrite(Master, i) /\ Goto(Master, "echo")
          /\ res' = [res EXCEPT ![Master] = i] /\ req' = req
      BY <1>3 DEF OpenForEcho
    <2>2. /\ i \in Pipe \ {In}
          /\ \A q \in Procs : pc'[q] = IF q = Master THEN "echo" ELSE pc[q]
          /\ \A q \in Procs : res'[q] = IF q = Master THEN i ELSE res[q]
      BY <1>1, <1>3, <2>1, Ranges DEF Goto, TypeInv, TypeOK
    <2>3. /\ data' = data
          /\ \A j \in Pipe : j # i => rd'[j] = rd[j] /\ wr'[j] = wr[j]
          /\ \A j \in Pipe : \A q : q # Master => (q \in rd'[j] <=> q \in rd[j]) /\ (q \in wr'[j] <=> q \in wr[j])
          /\ \A q \in Procs : q # Master /\ blocked[q] # i => blocked'[q] = blocked[q]
      BY <1>1, <2>1, <2>2, OpenedShare
    <2>4. Host' = Host /\ Request(Host)' = Request(Host) /\ Response(Host)' = Response(Host)
      BY <1>1 DEF Host, Request, Response
    <2>5. QuietInv'
      <3>1. PICK k : k = fs[Request(Host)]
        OBVIOUS
      <3>2. k # Absent => k \in Pipe /\ k # i
        BY <1>1, <1>3, <3>1, Ranges DEF PairInv, FreshInv
      <3>3. ASSUME k # Absent
            PROVE  /\ rd'[k] \subseteq rd[k] /\ data'[k] \in {data[k], << >>}
                   /\ \A c \in Users(k)' :
                        /\ c \in Users(k)
                        /\ pc[c] = "ack" /\ blocked[c] = k => pc'[c] = "ack" /\ blocked'[c] = k
        BY <1>1, <2>2, <2>3, <3>2, <3>3, Sorts DEF Users
      <3> QED BY <1>1, <2>4, <3>1, <3>3, QuietKept DEF ShareInv, Offers
    <2>6. CalledInv'
      <3>1. ASSUME NEW c \in Clients, res[c] = i
            PROVE  Name[c] = Host
        <4>1. c \in Users(i)
          BY <1>3, <3>1 DEF PairInv, HoldInv, Users
        <4>2. \A d \in Users(fs[f]) : Name[d] = f[2]
          BY <1>1, <1>3 DEF PairInv, UserInv
        <4> QED BY <1>1, <4>1, <4>2
      <3>2. \A g \in Paths : fs[g] = i => g = f
        BY <1>1, <1>3 DEF PairInv, FreshInv
      <3>3. res'[Master] = i /\ \A c \in Clients : res'[c] = res[c]
        BY <1>1, <2>2, Sorts
      <3> QED BY <1>1, <2>4, <3>1, <3>2, <3>3 DEF CalledInv
    <2>7. NamesInv'
      <3> SUFFICES ASSUME NEW c \in Clients, NEW d \in Clients, c # d, Name[c] = Name[d]
                   PROVE  Namesakes(c, d)'
        BY DEF NamesInv
      <3>1. Namesakes(c, d)
        BY DEF ShareInv, NamesInv
      <3>2. /\ pc'[c] = pc[c] /\ pc'[d] = pc[d] /\ res'[c] = res[c]
            /\ Resp(c)' = Resp(c) /\ Reqs(c)' = Reqs(c)
        BY <1>1, <2>2, Sorts DEF Resp, Reqs, Response, Request
      <3>3. \A j \in Pipe \ {In} : d \in Users(j)' => d \in Users(j)
        BY <1>1, <2>3 DEF Users
      <3>4. Echoed(c)' => Echoed(c)
        BY <2>3, <3>2 DEF Echoed
      <3> QED BY <1>1, <2>1, <2>3, <2>4, <3>1, <3>2, <3>3, <3>4, NamesKept
    <2> QED BY <2>5, <2>6, <2>7 DEF ShareInv
  <1> QED BY <1>2, <1>3

\* Only the client whose echo this is has it.
LEMMA WriteEchoShare ==
  ASSUME TypeInv, PairInv, ShareInv, WriteEcho
  PROVE  ShareInv'
  <1> DEFINE i == res[Master]
  <1>1. /\ Master \in Procs /\ Master \notin Clients /\ pc[Master] = "echo"
        /\ Host \in Names /\ UNCHANGED <<fs, url, children, workers, closing>>
    BY Sorts DEF WriteEcho, Runs, TypeInv, HostInv, Known, files, children
  <1>2. CASE Ends(Master)
    BY <1>1, <1>2, EndsShare DEF Resp, Response
  <1>3. CASE ~Ends(Master)
    <2>1. Write(i, Text) /\ UNCHANGED <<blocked, res, req, rd, wr>>
      BY <1>3 DEF WriteEcho, Send, Write, fds
    <2>2. \A q \in Procs : pc'[q] = IF q = Master THEN "request" ELSE pc[q]
      BY <1>3 DEF WriteEcho, Send, Goto, TypeInv, TypeOK
    <2>3. i \in Pipe \ {In} /\ i # Absent /\ req[Master] = Absent
      BY <1>1, Ranges DEF PairInv, EchoInv, Late
    <2>4. \A j \in Pipe : j # i => data'[j] = data[j]
      BY <2>1, <2>3 DEF Write, TypeInv, TypeOK
    <2>5. fs[Request(Host)] # i
      BY <1>1, <2>3 DEF PairInv, KindInv
    <2>6. \A c \in Clients : pc'[c] = pc[c]
      BY <1>1, <2>2, Sorts
    <2>7. ASSUME NEW c \in Clients, NEW d \in Clients, c # d, Name[c] = Name[d], Echoed(c)',
                 ~Echoed(c), Reqs(c)' # Absent, d \in Users(Reqs(c))'
          PROVE  FALSE
      <3>1. /\ Resp(c)' = Resp(c) /\ Reqs(c)' = Reqs(c) /\ Users(Reqs(c))' = Users(Reqs(c))
            /\ c \in Procs /\ Name[c] \in Names /\ Response(Name[c]) \in Paths
        BY <1>1, <2>1, Sorts, Ranges DEF Resp, Reqs, Response, Request, Users
      <3>2. \/ pc[c] = "echo" /\ res[c] = i
            \/ pc[c] \in Early /\ Resp(c) = i
        <4>1. /\ Resp(c) # Absent => Resp(c) \in Pipe
              /\ pc[c] = "echo" => res[c] \in Pipe
          BY <3>1, Ranges DEF Resp, PairInv, HoldInv, Holding
        <4> QED BY <2>1, <2>4, <2>6, <2>7, <3>1, <4>1 DEF Echoed
      <3>3. Name[c] = Host
        <4>1. CASE pc[c] = "echo" /\ res[c] = i
          BY <2>3, <4>1 DEF ShareInv, CalledInv
        <4>2. CASE pc[c] \in Early /\ Resp(c) = i
          <5>1. Response(Name[c]) = Response(Host)
            BY <2>3, <3>1, <4>2 DEF ShareInv, CalledInv, Resp
          <5> QED BY <1>1, <3>1, <5>1, Ranges
        <4> QED BY <3>2, <4>1, <4>2
      <3>4. pc[d] = "ack"
        BY <1>1, <2>7, <3>1, <3>3 DEF ShareInv, QuietInv, Offers, Reqs
      <3>5. pc[c] \in Active /\ pc[d] \in Active
        BY <3>2, <3>4 DEF Active, Early, Late
      <3> QED BY <2>7, <3>5 DEF ShareInv, NamesInv, Namesakes
    <2>8. \A c \in Clients, d \in Clients : c # d /\ Name[c] = Name[d] /\ Echoed(c)' =>
            Echoed(c) \/ (Reqs(c)' # Absent => d \notin Users(Reqs(c))')
      BY <2>7
    <2>9. pc[Master] \in Offers
      BY <1>1 DEF Offers
    <2> QED BY <1>1, <2>1, <2>3, <2>4, <2>5, <2>6, <2>8, <2>9, DataShare
  <1> QED BY <1>2, <1>3

LEMMA OpenForAckShare ==
  ASSUME TypeInv, PairInv, ShareInv, OpenForAck
  PROVE  ShareInv'
  <1> DEFINE i == fs[Request(Host)]
  <1>1. /\ Master \in Procs /\ Master \notin Clients /\ pc[Master] = "request"
        /\ Host \in Names /\ Request(Host) \in Paths /\ UNCHANGED <<fs, url, children, workers, closing>>
    BY Sorts, Ranges DEF OpenForAck, Runs, TypeInv, HostInv, Known, files, children
  <1>2. CASE i = Absent \/ ~MayHave(2)
    <2>1. Ends(Master)
      BY <1>2 DEF OpenForAck
    <2> QED BY <1>1, <2>1, EndsShare DEF Resp, Response
  <1>3. CASE i # Absent /\ MayHave(2)
    <2>1. /\ OpenRead(Master, i) /\ Goto(Master, "ack")
          /\ req' = [req EXCEPT ![Master] = i] /\ res' = res
      BY <1>3 DEF OpenForAck
    <2>2. /\ i \in Pipe \ {In} /\ data[i] = << >>
          /\ \A q \in Procs : pc'[q] = IF q = Master THEN "ack" ELSE pc[q]
          /\ \A q \in Procs : req'[q] = IF q = Master THEN i ELSE req[q]
      BY <1>1, <1>3, <2>1, Ranges DEF Goto, TypeInv, TypeOK, ShareInv, QuietInv, Offers
    <2>3. /\ data' = data
          /\ \A j \in Pipe : \A q : q # Master => (q \in rd'[j] <=> q \in rd[j]) /\ (q \in wr'[j] <=> q \in wr[j])
      BY <1>1, <2>1, <2>2, OpenedShare
    <2>4. Host' = Host
      BY <1>1 DEF Host
    <2>5. QuietInv'
      BY <1>1, <2>2 DEF QuietInv, Offers
    <2>6. CalledInv'
      BY <1>1, <2>1, <2>4, CalledKept DEF ShareInv
    <2>7. NamesInv'
      <3> SUFFICES ASSUME NEW c \in Clients, NEW d \in Clients, c # d, Name[c] = Name[d]
                   PROVE  Namesakes(c, d)'
        BY DEF NamesInv
      <3>1. Namesakes(c, d)
        BY DEF ShareInv, NamesInv
      <3>2. /\ pc'[c] = pc[c] /\ pc'[d] = pc[d] /\ Resp(c)' = Resp(c) /\ Reqs(c)' = Reqs(c)
        BY <1>1, <2>2, Sorts DEF Resp, Reqs, Response, Request
      <3>3. \A j \in Pipe \ {In} : d \in Users(j)' => d \in Users(j)
        BY <1>1, <2>3 DEF Users
      <3>4. Echoed(c)' => Echoed(c)
        BY <2>1, <2>3, <3>2 DEF Echoed
      <3>5. data'[req'[Master]] = << >>
        BY <1>1, <2>2, <2>3
      <3> QED BY <1>1, <3>1, <3>2, <3>3, <3>4, <3>5, NamesKept
    <2> QED BY <2>5, <2>6, <2>7 DEF ShareInv
  <1> QED BY <1>2, <1>3

\* A worker comes only when somebody of its name has acknowledged.
LEMMA ReadAckShare ==
  ASSUME TypeInv, PairInv, ShareInv, ReadAck
  PROVE  ShareInv'
  <1> DEFINE i == req[Master]
             k == res[Master]
  <1>1. /\ Master \in Procs /\ Master \notin Clients /\ Forked \notin Clients /\ pc[Master] = "ack"
        /\ Host \in Names /\ Text # Zero /\ UNCHANGED <<fs, url, closing>>
    BY Sorts DEF ReadAck, Runs, TypeInv, HostInv, Known, files, Text, Host
  <1>2. CASE Next1(i) # Text
    <2>1. Ends(Master) /\ UNCHANGED children
      BY <1>2 DEF ReadAck, children
    <2> QED BY <1>1, <2>1, EndsShare DEF Resp, Response
  <1>3. CASE Next1(i) = Text
    <2>1. /\ Fork
          /\ workers' \in {workers, [workers EXCEPT ![Host] = @ + 1]}
          /\ \A q \in Procs : /\ q # Master => pc'[q] = pc[q]
                              /\ res'[q] = IF q = Master THEN Absent ELSE res[q]
                              /\ req'[q] = IF q = Master THEN Absent ELSE req[q]
          /\ pc'[Master] \notin Offers
      BY <1>1, <1>3 DEF ReadAck, Fork, Goto, Offers, TypeInv, TypeOK
    <2>2. i \in Pipe /\ i # Absent /\ k \in Pipe /\ k # Absent /\ data[i] # << >>
      BY <1>1, <1>3, Ranges DEF PairInv, EchoInv, Late, Next1
    <2>3. /\ \A j \in Pipe : j # i => rd'[j] = rd[j] /\ data'[j] \in {data[j], << >>}
          /\ \A j \in Pipe : j # k => wr'[j] = wr[j]
          /\ \/ /\ rd'[i] = (rd[i] \ {Master}) \cup {Forked}
                /\ wr'[k] = (wr[k] \ {Master}) \cup {Forked}
             \/ rd'[i] = rd[i] \ {Master} /\ wr'[k] = wr[k] \ {Master}
      <3>1. data \in [Pipe -> Seq(Token)]
        BY DEF TypeInv, TypeOK, Token
      <3>2. rd \in [Pipe -> SUBSET Holders] /\ wr \in [Pipe -> SUBSET Holders]
        BY Ranges
      <3> QED BY <2>1, <2>2, <3>1, <3>2 DEF Fork
    <2>4. \A j \in Pipe : \A c \in Clients : (c \in rd'[j] <=> c \in rd[j]) /\ (c \in wr'[j] <=> c \in wr[j])
      BY <1>1, <2>3
    <2>5. pc'[Master] \notin Offers /\ res'[Master] = Absent /\ req'[Master] = Absent
      BY <1>1, <2>1
    <2>6. QuietInv' /\ CalledInv'
      BY <2>5 DEF QuietInv, CalledInv
    <2>7. NamesInv'
      <3> SUFFICES ASSUME NEW c \in Clients, NEW d \in Clients, c # d, Name[c] = Name[d]
                   PROVE  Namesakes(c, d)'
        BY DEF NamesInv
      <3>1. Namesakes(c, d)
        BY DEF ShareInv, NamesInv
      <3>2. /\ pc'[c] = pc[c] /\ pc'[d] = pc[d] /\ res'[c] = res[c]
            /\ Resp(c)' = Resp(c) /\ Reqs(c)' = Reqs(c) /\ c \in Procs /\ Name[c] \in Names
        BY <1>1, <2>1, Sorts DEF Resp, Reqs, Response, Request
      <3>3. \A j \in Pipe \ {In} : d \in Users(j)' => d \in Users(j)
        BY <2>4 DEF Users
      <3>4. Echoed(c)' => Echoed(c)
        <4>1. /\ Resp(c) # Absent => Resp(c) \in Pipe /\ Resp(c) # i
              /\ pc[c] = "echo" => res[c] \in Pipe /\ res[c] # i
          BY <1>1, <2>2, <3>2, Ranges DEF Resp, PairInv, HoldInv, KindInv, Holding
        <4> QED BY <2>3, <3>2, <4>1 DEF Echoed
      <3>5. pc'[c] \in Active \cup {"prompt"} /\ pc'[d] = "prompt" => Host # Name[c]
        BY <2>2, <3>1, <3>2 DEF Namesakes
      <3>6. Host # Name[c] => workers'[Name[c]] = workers[Name[c]]
        BY <2>1, <3>2 DEF TypeInv, TypeOK
      <3> QED BY <1>1, <2>5, <3>1, <3>2, <3>3, <3>4, <3>5, <3>6, NamesKept
    <2> QED BY <2>6, <2>7 DEF ShareInv
  <1> QED BY <1>2, <1>3

LEMMA CreateRequestShare ==
  ASSUME TypeInv, TypeInv', PairInv, ShareInv, CreateRequest
  PROVE  ShareInv'
  <1>1. Master \in Procs /\ Master \notin Clients
    BY Sorts
  <1>2. CASE Ends(Master) /\ UNCHANGED files
    BY <1>1, <1>2, EndsShare DEF CreateRequest, files, Resp, Response
  <1>3. CASE /\ Host \in Names /\ mkfifo(Request(Host)) /\ Goto(Master, "response")
             /\ UNCHANGED <<blocked, fds, listening, ends>>
    <2> DEFINE new == npipes + 1
    <2>1. /\ pc[Master] = "create"
          /\ \A q \in Procs : pc'[q] = IF q = Master THEN "response" ELSE pc[q]
          /\ fs' = [fs EXCEPT ![Request(Host)] = new] /\ npipes' = new
          /\ UNCHANGED <<blocked, res, req, rd, wr, data, url, workers, closing>>
      BY <1>3 DEF CreateRequest, Runs, mkfifo, Goto, fds, ends, children, TypeInv, TypeOK
    <2>2. Request(Host) \in Paths /\ Host' = Host /\ Request(Host)' = Request(Host)
      BY <1>3, <2>1, Ranges DEF Host, Request
    <2>3. /\ fs'[Request(Host)] = new /\ \A f \in Paths : f # Request(Host) => fs'[f] = fs[f]
          /\ new # Absent /\ rd[new] = {} /\ wr[new] = {} /\ data[new] = << >>
      BY <2>1, <2>2, NewPipe
    <2> HIDE DEF new
    <2>4. QuietInv'
      BY <2>1, <2>2, <2>3 DEF QuietInv, Users
    <2>5. CalledInv'
      BY <1>1, <2>1 DEF CalledInv, PairInv, EchoInv, Late
    <2>6. NamesInv'
      <3> SUFFICES ASSUME NEW c \in Clients, NEW d \in Clients, c # d, Name[c] = Name[d]
                   PROVE  Namesakes(c, d)'
        BY DEF NamesInv
      <3>1. Namesakes(c, d)
        BY DEF ShareInv, NamesInv
      <3>2. /\ pc'[c] = pc[c] /\ pc'[d] = pc[d] /\ Name[c] \in Names
            /\ Resp(c)' = fs'[Response(Name[c])] /\ Reqs(c)' = fs'[Request(Name[c])]
        BY <1>1, <2>1, Sorts DEF Resp, Reqs, Response, Request
      <3>3. /\ Response(Name[c]) \in Paths /\ Request(Name[c]) \in Paths
            /\ Response(Name[c]) # Request(Host)
        BY <1>3, <3>2, Ranges
      <3>4. Resp(c)' = Resp(c) /\ Reqs(c)' \in {new, Reqs(c)}
        BY <2>3, <3>2, <3>3 DEF Resp, Reqs
      <3>5. Reqs(c)' = new => d \notin Users(Reqs(c))'
        BY <2>1, <2>3 DEF Users
      <3>6. \A j \in Pipe \ {In} : d \in Users(j)' => d \in Users(j)
        BY <2>1 DEF Users
      <3>7. Echoed(c)' => Echoed(c)
        BY <2>1, <3>2, <3>4 DEF Echoed
      <3> QED BY <2>1, <2>2, <3>1, <3>2, <3>4, <3>5, <3>6, <3>7, NamesKept
    <2> QED BY <2>4, <2>5, <2>6 DEF ShareInv
  <1> QED BY <1>2, <1>3 DEF CreateRequest

LEMMA MasterShare ==
  ASSUME TypeInv, TypeInv', PairInv, ShareInv, MasterSteps
  PROVE  ShareInv'
  <1>1. Master \in Procs /\ Master \notin Clients
    BY Sorts
  <1>2. CASE comm_listen
    <2>1. /\ pc' = [pc EXCEPT ![Master] = "accept"] /\ pc[Master] = "listen"
          /\ UNCHANGED <<blocked, res, req, fs, rd, wr, data, workers, closing>>
      BY <1>2 DEF comm_listen, Runs, Goto, fds, ends, children
    <2> QED BY <1>1, <2>1, EarlyShare DEF Late, Offers
  <1>3. CASE OpenConnectionFile /\ MayHave(1)
    <2>1. /\ pc' = [pc EXCEPT ![Master] = "url"] /\ pc[Master] = "accept"
          /\ UNCHANGED <<res, req, fs, workers, closing>>
          /\ \A i \in Pipe \ {In} : rd'[i] = rd[i] /\ wr'[i] = wr[i] /\ data'[i] = data[i]
      BY <1>3 DEF OpenConnectionFile, OpenRead, Runs, Goto, fds, files, children, TypeInv, TypeOK
    <2>2. \A q \in Clients : q # Master /\ blocked[q] # In => blocked'[q] = blocked[q]
      BY <1>3, Sorts DEF OpenConnectionFile, OpenRead, Open
    <2> QED BY <1>1, <2>1, <2>2, EarlyShare DEF Late, Offers
  <1>4. CASE ReadUrl
    <2>1. PICK s \in {"hangup", "url"} : pc' = [pc EXCEPT ![Master] = s] /\ pc[Master] = "url"
      BY <1>1, <1>4 DEF ReadUrl, Runs, Goto, TypeInv, TypeOK
    <2>2. /\ UNCHANGED <<blocked, res, req, fs, workers, closing>>
          /\ \A i \in Pipe \ {In} : rd'[i] = rd[i] /\ wr'[i] = wr[i] /\ data'[i] = data[i]
      BY <1>4 DEF ReadUrl, Take, fds, files, children, TypeInv, TypeOK
    <2> QED BY <1>1, <2>1, <2>2, EarlyShare DEF Late, Offers
  <1>5. CASE MasterHangsUp
    <2>1. /\ pc' = [pc EXCEPT ![Master] = "create"] /\ pc[Master] = "hangup" /\ Close(Master, {In})
          /\ UNCHANGED <<blocked, res, req, fs, workers, closing>>
      BY <1>5 DEF MasterHangsUp, Runs, Goto, fds, files, children
    <2>2. \A i \in Pipe \ {In} :
            rd'[i] = rd[i] /\ wr'[i] = wr[i] /\ data'[i] \in {data[i], << >>}
      BY <1>1, <2>1, ClosePairs
    <2> QED BY <1>1, <2>1, <2>2, EarlyShare DEF Late, Offers
  <1>6. CASE (OpenConnectionFile /\ ~MayHave(1)) \/ WriteRest
    <2>1. Ends(Master) /\ UNCHANGED <<fs, url, children>>
      BY <1>6 DEF OpenConnectionFile, WriteRest, files
    <2> QED BY <1>1, <2>1, EndsShare DEF Resp, Response
  <1> QED BY <1>2, <1>3, <1>4, <1>5, <1>6, CreateRequestShare, OpenForEchoShare, WriteEchoShare,
             OpenForAckShare, ReadAckShare DEF MasterSteps, comm_accept

LEMMA WorkerShare ==
  ASSUME TypeInv, PairInv, ShareInv, NEW n \in Names, WorkerCloses(n) \/ WorkerUnlinks(n)
  PROVE  ShareInv'
  <1>1. UNCHANGED <<pc, blocked, res, req, rd, wr, data, url>>
    BY DEF WorkerCloses, WorkerUnlinks, fds, ends
  <1>2. \A f \in Paths : fs'[f] \in {Absent, fs[f]}
    BY Ranges DEF WorkerCloses, WorkerUnlinks, unlink
  <1>3. (\A c \in Clients : GoesQuietly(c)) /\ Host' = Host
    BY <1>1 DEF GoesQuietly, Host, Users, Early
  <1>4. \A m \in Names : workers[m] = 0 /\ closing[m] = 0 => workers'[m] = 0 /\ closing'[m] = 0
    BY DEF WorkerCloses, WorkerUnlinks, TypeInv, TypeOK
  <1>5. ASSUME NEW c \in Clients, NEW d \in Clients, c # d, Name[c] = Name[d],
               pc'[c] \in Active, pc'[d] = "prompt"
        PROVE  Resp(c)' = Resp(c)
    <2>1. /\ Name[c] \in Names /\ Response(Name[c]) \in Paths /\ Response(Name[c]) # Request(n)
          /\ Resp(c)' = fs'[Response(Name[c])]
      BY Sorts, Ranges DEF Resp, Response
    <2>2. CASE WorkerCloses(n)
      BY <2>1, <2>2, Ranges DEF WorkerCloses, unlink, Resp
    <2>3. CASE WorkerUnlinks(n)
      <3>1. closing[n] > 0 /\ fs' = [fs EXCEPT ![Response(n)] = Absent]
        BY <2>3 DEF WorkerUnlinks, unlink
      <3>2. closing[Name[c]] = 0
        BY <1>1, <1>5 DEF ShareInv, NamesInv, Namesakes
      <3>3. Response(Name[c]) # Response(n)
        BY <2>1, <3>1, <3>2, Ranges
      <3> QED BY <2>1, <3>1, <3>3, Ranges DEF Resp
    <2> QED BY <2>2, <2>3
  <1>6. \A i \in Pipe \ {In} :
          rd'[i] \subseteq rd[i] /\ wr'[i] \subseteq wr[i] /\ data'[i] \in {data[i], << >>}
    BY <1>1
  <1> QED BY <1>1, <1>2, <1>3, <1>4, <1>5, <1>6, ShareKept

LEMMA KilledShare ==
  ASSUME TypeInv, PairInv, ShareInv, NEW p \in Procs, Killed(p)
  PROVE  ShareInv'
  BY EndsShare DEF Killed, files, Resp, Response

\* A client that shares its name is started once.
LEMMA RestartShare ==
  ASSUME FewNames, TypeInv, PairInv, ShareInv, NEW p \in Procs, Restart(p)
  PROVE  ShareInv'
  <1>1. /\ pc[p] = "exited" /\ starts[p] < MaxStarts
        /\ UNCHANGED <<blocked, res, req, fs, rd, wr, data, url, workers, closing>>
        /\ \A q \in Procs : pc'[q] = IF q = p THEN IF p = Master THEN "listen" ELSE "prompt" ELSE pc[q]
    BY DEF Restart, Goto, fds, files, ends, children, TypeInv, TypeOK
  <1>2. CASE p = Master
    <2>1. pc' = [pc EXCEPT ![p] = "listen"]
      BY <1>2 DEF Restart, Goto
    <2> QED BY <1>1, <1>2, <2>1, Sorts, EarlyShare DEF Late, Offers
  <1>3. CASE p # Master
    <2>1. OwnNames
      <3>1. starts[p] \in 1 .. MaxStarts
        BY DEF TypeInv, TypeOK
      <3> QED BY <1>1, <3>1, Sorts DEF FewNames
    <2>2. Host' = Host /\ pc'[Master] = pc[Master]
      BY <1>1, <1>3, Sorts DEF Host
    <2>3. QuietInv'
      <3>1. PICK i : i = fs[Request(Host)]
        OBVIOUS
      <3>2. \A c \in Users(i)' : c \in Users(i) /\ (pc[c] = "ack" => pc'[c] = "ack")
        BY <1>1, Sorts DEF Users
      <3> QED BY <1>1, <2>2, <3>1, <3>2, QuietKept DEF ShareInv
    <2>4. CalledInv'
      BY <1>1, <2>2, CalledKept DEF ShareInv
    <2>5. NamesInv'
      BY <2>1 DEF OwnNames, NamesInv
    <2> QED BY <2>3, <2>4, <2>5 DEF ShareInv
  <1> QED BY <1>2, <1>3

LEMMA InitShare == Init => ShareInv /\ ReaderInv
  <1> SUFFICES ASSUME Init PROVE ShareInv /\ ReaderInv
    OBVIOUS
  <1>1. /\ \A p \in Procs : res[p] = Absent /\ req[p] = Absent
        /\ \A i \in Pipe : rd[i] = {} /\ wr[i] = {} /\ data[i] = << >>
        /\ \A c \in Clients : pc[c] = "prompt"
        /\ pc[Master] = "listen"
        /\ \A n \in Names : workers[n] = 0 /\ closing[n] = 0
    BY Sorts DEF Init
  <1>2. QuietInv /\ CalledInv /\ ReaderInv
    BY <1>1, Sorts DEF QuietInv, CalledInv, Offers, ReaderInv
  <1>3. NamesInv
    BY <1>1, Sorts DEF NamesInv, Namesakes, Active, Early, Late, Echoed
  <1> QED BY <1>2, <1>3 DEF ShareInv

\* Clients read response FIFOs, and nobody reads a request FIFO that waits.
LEMMA NextReader ==
  ASSUME TypeInv, PairInv, QuietInv, ReaderInv, Next
  PROVE  ReaderInv'
  <1> DEFINE i == req[Master]
  <1>1. /\ Master \in Procs /\ Master \notin Clients
        /\ i # Absent => i \in Pipe \ {In} /\ pc[Master] = "ack"
    BY Sorts, Ranges DEF PairInv, EchoInv
  <1>2. SUFFICES \/ req'[Master] = Absent
                 \/ req'[Master] = i /\ (i # Absent => rd'[i] \subseteq rd[i])
                 \/ req'[Master] \in Pipe /\ rd'[req'[Master]] \subseteq {Master}
    BY DEF ReaderInv
  <1>3. ASSUME NEW p \in Procs, Ends(p)
        PROVE  req'[Master] \in {Absent, i} /\ (i # Absent => rd'[i] \subseteq rd[i])
    BY <1>1, <1>3, ClosePairs DEF Ends, TypeInv, TypeOK
  <1>4. CASE MasterSteps
    <2>1. CASE ReadAck
      BY <1>1, <1>3, <2>1 DEF ReadAck, TypeInv, TypeOK
    <2>2. CASE OpenForAck
      <3>1. CASE Ends(Master)
        BY <1>1, <1>3, <3>1
      <3>2. CASE /\ OpenRead(Master, fs[Request(Host)]) /\ fs[Request(Host)] # Absent
                 /\ req' = [req EXCEPT ![Master] = fs[Request(Host)]]
        <4>1. /\ Request(Host) \in Paths /\ fs[Request(Host)] \in Pipe /\ pc[Master] \in Offers
          BY <2>2, <3>2, Ranges DEF OpenForAck, Runs, TypeInv, HostInv, Known, Offers
        <4>2. rd[fs[Request(Host)]] = {} /\ req'[Master] = fs[Request(Host)]
          BY <1>1, <3>2, <4>1 DEF QuietInv, TypeInv, TypeOK
        <4> QED BY <3>2, <4>1, <4>2 DEF OpenRead, TypeInv, TypeOK
      <3> QED BY <2>2, <3>1, <3>2 DEF OpenForAck
    <2>3. CASE comm_listen \/ ReadUrl \/ MasterHangsUp
      BY <1>1, <2>3 DEF comm_listen, ReadUrl, MasterHangsUp, Runs, fds
    <2>4. CASE OpenConnectionFile \/ CreateRequest \/ OpenForEcho \/ WriteEcho \/ WriteRest
      <3>1. Ends(Master) \/ req' = req
        BY <2>4 DEF OpenConnectionFile, CreateRequest, OpenForEcho, WriteEcho, WriteRest, Send, fds
      <3>2. i = Absent
        BY <1>1, <2>4 DEF OpenConnectionFile, CreateRequest, OpenForEcho, WriteEcho, WriteRest, Runs
      <3> QED BY <1>1, <1>3, <3>1, <3>2
    <2> QED BY <1>4, <2>1, <2>2, <2>3, <2>4 DEF MasterSteps, comm_accept
  <1>5. ASSUME NEW c \in Clients,
               CreateResponse(c) \/ connection_open(c) \/ ClientCloses(c) \/ ClientUnlinks(c)
        PROVE  req'[Master] = i /\ (i # Absent => rd'[i] \subseteq rd[i])
    <2>1. c \in Procs /\ c # Master /\ Name[c] \in Names
      BY Sorts
    <2>2. CASE Ends(c)
      BY <1>1, <1>3, <2>1, <2>2 DEF Ends, TypeInv, TypeOK
    <2>3. CASE OpenResponse(c) /\ ~Ends(c)
      <3>1. OpenRead(c, Resp(c)) /\ req' = req
        BY <2>3 DEF OpenResponse, Resp
      <3>2. i # Absent => i # Resp(c)
        BY <1>1, <2>1 DEF PairInv, KindInv, Resp
      <3> QED BY <1>1, <3>1, <3>2 DEF OpenRead, TypeInv, TypeOK
    <2>4. CASE ~OpenResponse(c) /\ ~Ends(c)
      <3>1. \/ rd' = rd
            \/ \E S : Close(c, S)
        BY <1>5, <2>4 DEF CreateResponse, connection_open, Connect, WriteUrl, HangUp, ReadEcho,
             OpenRequest, WriteAck, ClientCloses, ClientUnlinks, OpenWrite, Send, Write, Take, ends
      <3>2. req'[Master] = i
        BY <1>1, <1>5, <2>1, <2>4 DEF CreateResponse, connection_open, Connect, WriteUrl, HangUp, ReadEcho,
             OpenRequest, WriteAck, ClientCloses, ClientUnlinks, Send, fds, TypeInv, TypeOK
      <3> QED BY <1>1, <3>1, <3>2 DEF Close
    <2> QED BY <2>2, <2>3, <2>4
  <1>6. CASE \E n \in Names : WorkerCloses(n) \/ WorkerUnlinks(n)
    BY <1>6 DEF WorkerCloses, WorkerUnlinks, fds, ends
  <1>7. CASE \E p \in Procs : Killed(p) \/ Restart(p)
    <2>1. PICK p \in Procs : Ends(p) \/ (req' = req /\ rd' = rd)
      BY <1>7 DEF Killed, Restart, fds, ends
    <2> QED BY <1>3, <2>1
  <1> QED BY <1>4, <1>5, <1>6, <1>7 DEF Next

LEMMA NextPairs ==
  FewNames /\ TypeInv /\ TypeInv' /\ PairInv /\ ShareInv /\ ReaderInv /\ [Next]_vars =>
    PairInv' /\ ShareInv' /\ ReaderInv'
  <1> SUFFICES ASSUME FewNames, TypeInv, TypeInv', PairInv, ShareInv, ReaderInv, [Next]_vars
               PROVE  PairInv' /\ ShareInv' /\ ReaderInv'
    OBVIOUS
  <1>1. AtMostTwo /\ NamesInv /\ QuietInv
    BY DEF FewNames, OwnNames, AtMostTwo, ShareInv
  <1>2. CASE Next
    <2>1. ReaderInv'
      BY <1>1, <1>2, NextReader
    <2>2. CASE MasterSteps
      BY <1>1, <2>2, <2>1, MasterPairs, MasterShare
    <2>3. CASE \E c \in Clients :
                 CreateResponse(c) \/ connection_open(c) \/ ClientCloses(c) \/ ClientUnlinks(c)
      BY <1>1, <2>3, <2>1, ClientPairs, ClientShare
    <2>4. CASE \E n \in Names : WorkerCloses(n) \/ WorkerUnlinks(n)
      BY <2>4, <2>1, WorkerPairs, WorkerShare
    <2>5. CASE \E p \in Procs : Killed(p) \/ Restart(p)
      BY <2>5, <2>1, KilledPairs, RestartPairs, KilledShare, RestartShare
    <2> QED BY <1>2, <2>2, <2>3, <2>4, <2>5 DEF Next
  <1>3. CASE UNCHANGED vars
    <2>1. UNCHANGED <<pc, blocked, res, req, npipes, fs, rd, wr, data, url, workers, closing>>
      BY <1>3 DEF vars, fds, files, ends, children
    <2>2. (\A c \in Clients : ClientGoesOn(c)) /\ Host' = Host
      BY <2>1 DEF ClientGoesOn, Host
    <2>3. \A f \in Paths : fs'[f] \in {Absent, fs[f]}
      BY <2>1
    <2>4. PairInv'
      BY <2>1, <2>2, <2>3, PairsKept
    <2>5. \A c \in Clients : GoesQuietly(c) /\ Resp(c)' = Resp(c)
      BY <2>1 DEF GoesQuietly, Users, Early, Resp, Response
    <2>6. ShareInv'
      BY <2>1, <2>2, <2>3, <2>5, ShareKept
    <2>7. ReaderInv'
      BY <2>1 DEF ReaderInv
    <2> QED BY <2>4, <2>6, <2>7
  <1> QED BY <1>2, <1>3

\* What connection_open establishes: whoever is killed, started again or late, an
\* open connection is no other client's, and has one worker at both ends once
\* its acknowledgement is read, or nobody there, if the master ended before it
\* could fork (comm.connection.fifo.c 37-112, comm.read.fifo.c 86-186, main.c
\* 202-211).  An echo of texts that are mixed opens nothing.  Each client has its name for itself, or two share one and are
\* started once: what mkfifo refuses to one of them the other has.
THEOREM ConnectionsArePaired ==
  ASSUME FewNames
  PROVE  Spec => []Paired
  <1>1. Init => PairInv /\ ShareInv /\ ReaderInv
    BY InitPairs, InitShare
  <1>2. TypeInv /\ TypeInv' /\ PairInv /\ ShareInv /\ ReaderInv /\ [Next]_vars =>
          PairInv' /\ ShareInv' /\ ReaderInv'
    BY NextPairs
  <1>3. TypeInv /\ PairInv => Paired
    <2> SUFFICES ASSUME TypeInv, PairInv, NEW c \in Clients, pc[c] = "open"
                 PROVE  /\ \A d \in Clients \ {c} : d \notin rd[res[c]] \cup wr[req[c]]
                        /\ data[req[c]] = << >> => Served(c)
      BY DEF Paired, Served
    <2>1. /\ res[c] \in Pipe \ {In} /\ c \in rd[res[c]]
          /\ req[c] \in Pipe \ {In} /\ c \in wr[req[c]]
      BY Sorts, Ranges DEF PairInv, HoldInv, Holding
    <2>2. \A i \in Pipe \ {In} : \A d \in Users(i), e \in Users(i) : d = e
      BY DEF PairInv, UserInv
    <2>3. \A d \in Clients \ {c} : d \notin rd[res[c]] \cup wr[req[c]]
      BY <2>1, <2>2 DEF Users
    <2> QED BY <2>3 DEF PairInv, WorkerInv
  <1> QED BY <1>1, <1>2, <1>3, AlwaysTypes, PTL DEF Spec

-----------------------------------------------------------------------------
(* Users who open one connection at a time.                                *)

Making == {"response", "echo", "request", "ack"}

\* Who has the server's FIFO open.
InInv ==
  /\ rd[In] = IF pc[Master] \in {"url", "hangup"} THEN {Master} ELSE {}
  /\ wr[In] = {c \in Clients : pc[c] \in {"text", "zero", "hangup"}}

\* One client connects at a time; the others wait for nobody.
OneInv ==
  /\ \A c \in Clients, d \in Clients : InHandshake(c) /\ InHandshake(d) => c = d
  /\ \A c \in Clients : ~InHandshake(c) => blocked[c] = Absent

\* A request FIFO is a worker's, or the master has just made it.
ServeInv ==
  /\ \A n \in Names : fs[Request(n)] # Absent =>
       workers[n] > 0 \/ (pc[Master] \in Making /\ Host = n)
  /\ pc[Master] = "listen" => ~listening

\* While nobody connects the master waits, or has an acknowledgement to read.
Idle ==
  /\ data[In] = << >>
  /\ pc[Master] \in {"listen", "accept", "url", "ack"}
  /\ blocked[Master] = IF pc[Master] = "url" THEN In ELSE Absent
  /\ pc[Master] = "url" => url = << >>
  /\ pc[Master] = "ack" =>
       data[req[Master]] = <<Text>> /\ Text = Host /\ Master \in rd[req[Master]]

\* The steps at which a client and the master can be together.
Meets(c) ==
  /\ pc[c] \in {"connect", "text", "zero", "hangup", "response", "echo", "request", "ack"}
  /\ pc[c] = "connect" => pc[Master] \in {"listen", "accept", "url"}
  /\ pc[c] = "text" => pc[Master] \in {"accept", "url"}
  /\ pc[c] = "zero" => pc[Master] = "url"
  /\ pc[c] \in {"hangup", "response"} =>
       pc[Master] \in {"url", "hangup", "create", "response", "echo"}
  /\ pc[c] = "echo" =>
       pc[Master] \in {"url", "hangup", "create", "response", "echo", "request", "ack"}
  /\ pc[c] \in {"request", "ack"} => pc[Master] \in {"request", "ack"}

\* Who comes first to a FIFO waits for the other.
Waits(c) ==
  /\ blocked[c] = IF pc[c] = "text" /\ pc[Master] = "accept" THEN In
                  ELSE IF pc[c] = "echo" /\ pc[Master] \notin Late THEN res[c]
                  ELSE IF pc[c] = "ack" /\ pc[Master] = "request" THEN req[c]
                  ELSE Absent
  /\ blocked[Master] = IF pc[Master] = "url" /\ pc[c] = "connect" THEN In
                       ELSE IF pc[Master] = "echo" /\ pc[c] # "echo" THEN res[Master]
                       ELSE IF pc[Master] = "ack" /\ pc[c] # "ack" THEN req[Master]
                       ELSE Absent

\* The url on its way.
Sends(c) ==
  /\ pc[Master] \in {"listen", "accept"} => data[In] = << >>
  /\ pc[Master] = "url" =>
       \/ pc[c] \in {"connect", "text"} /\ url = << >> /\ data[In] = << >>
       \/ pc[c] = "zero" /\ url = << >> /\ data[In] = <<Name[c]>>
       \/ pc[c] = "zero" /\ url = <<Name[c]>> /\ data[In] = << >>
       \/ pc[c] \in {"hangup", "response", "echo"} /\ url = << >> /\ data[In] = <<Name[c], Zero>>
       \/ pc[c] \in {"hangup", "response", "echo"} /\ url = <<Name[c]>> /\ data[In] = <<Zero>>
  /\ pc[Master] \in {"hangup", "create"} \cup Making => url = <<Name[c]>> /\ data[In] = << >>

\* The client's two FIFOs: nobody has them but it and the master, whose worker
\* of that name is gone.
Responds(c) ==
  /\ workers[Name[c]] = 0 /\ closing[Name[c]] = 0
  /\ Resp(c) # Absent
  /\ rd[Resp(c)] = IF pc[c] \in Late THEN {c} ELSE {}
  /\ wr[Resp(c)] = IF pc[Master] \in Late THEN {Master} ELSE {}
  /\ pc[Master] \notin {"request", "ack"} => data[Resp(c)] = << >>
  /\ pc[Master] \in {"request", "ack"} /\ pc[c] = "echo" => data[Resp(c)] = <<Name[c]>>
  /\ pc[c] \in Late => res[c] = Resp(c)
  /\ pc[Master] \in Late => res[Master] = Resp(c)

Requests(c) ==
  pc[Master] \in Making =>
    /\ Reqs(c) # Absent
    /\ rd[Reqs(c)] = IF pc[Master] = "ack" THEN {Master} ELSE {}
    /\ wr[Reqs(c)] = IF pc[c] = "ack" THEN {c} ELSE {}
    /\ data[Reqs(c)] = << >>
    /\ pc[c] = "ack" => req[c] = Reqs(c)
    /\ pc[Master] = "ack" => req[Master] = Reqs(c)

Connects(c) == Meets(c) /\ Waits(c) /\ Sends(c) /\ Responds(c) /\ Requests(c)

BusyInv ==
  \/ \E c \in Clients : InHandshake(c) /\ Connects(c)
  \/ (\A c \in Clients : ~InHandshake(c)) /\ Idle

UpInv == InInv /\ OneInv /\ ServeInv /\ BusyInv

\* The pipes of a client that connects.
LEMMA TwoPipes ==
  ASSUME TypeInv, PairInv, NEW c \in Clients
  PROVE  /\ c \in Procs /\ c # Master /\ Name[c] \in Names /\ Master \in Procs
         /\ Name[c] # Zero
         /\ Request(Name[c]) \in Paths /\ Response(Name[c]) \in Paths
         /\ Resp(c) # Absent => Resp(c) \in Pipe \ {In} /\ Resp(c) # Reqs(c)
         /\ Reqs(c) # Absent => Reqs(c) \in Pipe \ {In}
         /\ In # Absent /\ In \in Pipe
         /\ url = <<Name[c]>> => Host = Name[c] /\ Text = Name[c] /\ Len(url) = 1
  <1>1. /\ c \in Procs /\ c # Master /\ Name[c] \in Names /\ Master \in Procs
        /\ Name[c] # Zero /\ In # Absent /\ In \in Pipe
    BY Sorts
  <1>2. /\ Request(Name[c]) \in Paths /\ Response(Name[c]) \in Paths
        /\ Resp(c) # Absent => Resp(c) \in Pipe \ {In} /\ Resp(c) # Reqs(c)
        /\ Reqs(c) # Absent => Reqs(c) \in Pipe \ {In}
    BY <1>1, Ranges DEF Resp, Reqs, PairInv, FreshInv
  <1>3. url = <<Name[c]>> => Host = Name[c] /\ Text = Name[c] /\ Len(url) = 1
    BY DEF Host, Text
  <1> QED BY <1>1, <1>2, <1>3

\* A step of the client that connects.
LEMMA ClientGoes ==
  ASSUME OwnNames, TypeInv, UpInv, NEW c \in Clients, InHandshake(c), NEW s,
         \A q \in Procs : pc'[q] = IF q = c THEN s ELSE pc[q],
         \A d \in Clients : d # c => blocked'[d] = blocked[d],
         UNCHANGED <<listening, fs, url, workers>>,
         rd'[In] = rd[In],
         \A d \in Clients : d # c => (d \in wr'[In] <=> d \in wr[In]),
         wr'[In] \subseteq Clients, c \in wr'[In] <=> s \in {"text", "zero", "hangup"},
         \/ s \notin {"prompt", "open", "unlink", "exited"} /\ Connects(c)'
         \/ s \in {"prompt", "open", "unlink", "exited"} /\ Idle' /\ blocked'[c] = Absent
  PROVE  UpInv'
  <1>1. pc'[c] = s /\ pc'[Master] = pc[Master] /\ \A d \in Clients : d # c => pc'[d] = pc[d]
    BY Sorts
  <1>2. \A d \in Clients : d # c => ~InHandshake(d) /\ ~InHandshake(d)'
    BY <1>1 DEF UpInv, OneInv, InHandshake
  <1>3. InInv'
    <2>1. rd'[In] = IF pc'[Master] \in {"url", "hangup"} THEN {Master} ELSE {}
      BY <1>1 DEF UpInv, InInv
    <2>2. wr'[In] = {d \in Clients : pc'[d] \in {"text", "zero", "hangup"}}
      BY <1>1 DEF UpInv, InInv
    <2> QED BY <2>1, <2>2 DEF InInv, In
  <1>4. OneInv'
    BY <1>1, <1>2 DEF UpInv, OneInv, InHandshake
  <1>5. ServeInv'
    BY <1>1 DEF UpInv, ServeInv, Request, Host
  <1>6. BusyInv'
    BY <1>1, <1>2 DEF BusyInv, InHandshake
  <1> QED BY <1>3, <1>4, <1>5, <1>6 DEF UpInv

LEMMA Busy ==
  ASSUME UpInv, NEW c \in Clients, InHandshake(c)
  PROVE  Connects(c)
  BY DEF UpInv, OneInv, BusyInv

LEMMA ConnectUp ==
  ASSUME OwnNames, TypeInv, PairInv, UpInv, NEW c \in Clients, Connect(c)
  PROVE  UpInv'
  <1>1. pc[c] = "connect" /\ blocked[c] = Absent /\ UNCHANGED <<files, url, children>>
    BY DEF Connect, Runs, children
  <1>2. InHandshake(c) /\ Connects(c)
    BY <1>1, Busy DEF InHandshake
  <1>3. Resp(c)' = Resp(c) /\ Reqs(c)' = Reqs(c) /\ UNCHANGED <<listening, fs, workers, closing>>
    BY <1>1 DEF Resp, Reqs, files, children, Request, Response
  <1>4. CASE listening
    <2>1. OpenWrite(c, In) /\ Goto(c, "text") /\ UNCHANGED fds
      BY <1>4 DEF Connect
    <2>2. \A q \in Procs : pc'[q] = IF q = c THEN "text" ELSE pc[q]
      BY <2>1 DEF Goto, TypeInv, TypeOK
    <2>3. /\ pc[Master] \in {"accept", "url"} /\ data[In] = << >> /\ (pc[Master] = "url" => url = << >>)
          /\ rd[In] = IF pc[Master] = "url" THEN {Master} ELSE {}
          /\ blocked[Master] = IF pc[Master] = "url" THEN In ELSE Absent
      BY <1>1, <1>2, <1>4 DEF UpInv, ServeInv, InInv, Connects, Meets, Waits, Sends
    <2>4. /\ rd' = rd /\ data' = data /\ wr'[In] = wr[In] \cup {c}
          /\ \A i \in Pipe : i # In => wr'[i] = wr[i]
      BY <2>1, TwoPipes, Ranges DEF OpenWrite
    <2>5. /\ \A d \in Clients : d # c => blocked'[d] = blocked[d]
          /\ blocked'[c] = IF pc[Master] = "accept" THEN In ELSE Absent
          /\ blocked'[Master] = Absent
      BY <2>1, <2>3, TwoPipes, Sorts DEF OpenWrite, Open
    <2>6. pc'[c] = "text" /\ pc'[Master] = pc[Master] /\ res' = res /\ req' = req
      BY <2>1, <2>2, TwoPipes DEF fds
    <2>7. Connects(c)'
      <3>1. Meets(c)' /\ Waits(c)'
        BY <2>3, <2>5, <2>6 DEF Meets, Waits, In
      <3>2. Sends(c)'
        BY <1>1, <2>3, <2>4, <2>6 DEF Sends, Making, In
      <3>3. Responds(c)'
        BY <1>1, <1>2, <1>3, <2>3, <2>4, <2>6, TwoPipes DEF Connects, Responds, Late
      <3>4. Requests(c)'
        BY <2>3, <2>6 DEF Requests, Making
      <3> QED BY <3>1, <3>2, <3>3, <3>4 DEF Connects
    <2>8. wr[In] \subseteq Clients
      BY DEF UpInv, InInv
    <2> QED BY <1>1, <1>2, <1>3, <2>2, <2>4, <2>5, <2>7, <2>8, ClientGoes
  <1>5. CASE ~listening
    <2>1. Ends(c)
      BY <1>5 DEF Connect
    <2>2. /\ \A q \in Procs : pc'[q] = IF q = c THEN "exited" ELSE pc[q]
          /\ \A q \in Procs : blocked'[q] = IF q = c THEN Absent ELSE blocked[q]
          /\ Close(c, Pipe)
          /\ \A q \in Procs : req'[q] = IF q = c THEN Absent ELSE req[q]
      BY <2>1, TwoPipes DEF Ends, Goto, Held, TypeInv, TypeOK
    <2>3. rd[In] \subseteq {Master} /\ wr[In] = {d \in Clients : pc[d] \in {"text", "zero", "hangup"}}
      BY DEF UpInv, InInv
    <2>4. rd'[In] = rd[In] /\ wr'[In] = wr[In] /\ data'[In] = << >>
      <3>1. data[In] = << >>
        BY <1>1, <1>2 DEF Connects, Meets, Sends
      <3>2. c \notin rd[In] /\ c \notin wr[In]
        BY <1>1, <2>3, TwoPipes
      <3> QED BY <2>2, <3>1, <3>2, TwoPipes DEF Close
    <2>5. Idle'
      <3>1. /\ pc'[Master] = pc[Master] /\ blocked'[Master] = blocked[Master]
        BY <2>2, TwoPipes
      <3>2. /\ pc[Master] \in {"listen", "accept", "url"}
            /\ blocked[Master] = IF pc[Master] = "url" THEN In ELSE Absent
            /\ pc[Master] = "url" => url = << >>
        BY <1>1, <1>2 DEF Connects, Meets, Waits, Sends
      <3> QED BY <1>1, <2>4, <3>1, <3>2 DEF Idle, In
    <2>6. /\ \A d \in Clients : d # c => blocked'[d] = blocked[d]
          /\ blocked'[c] = Absent
      BY <2>2, Sorts
    <2>7. wr'[In] \subseteq Clients /\ c \notin wr'[In]
      BY <1>1, <2>3, <2>4
    <2> QED BY <1>1, <1>2, <1>3, <2>2, <2>4, <2>5, <2>6, <2>7, ClientGoes
  <1> QED BY <1>4, <1>5

LEMMA TwoTexts ==
  ASSUME NEW S, NEW a \in S, NEW b \in S
  PROVE  Append(<<a>>, b) = <<a, b>>
  <1>1. /\ Append(<<a>>, b) \in Seq(S) /\ <<a, b>> \in Seq(S)
        /\ Len(Append(<<a>>, b)) = 2 /\ Len(<<a, b>>) = 2
        /\ Append(<<a>>, b)[1] = a /\ Append(<<a>>, b)[2] = b
    OBVIOUS
  <1>2. \A k \in 1 .. 2 : Append(<<a>>, b)[k] = <<a, b>>[k]
    BY <1>1
  <1> QED BY <1>1, <1>2, SeqEqual

LEMMA WriteUrlUp ==
  ASSUME OwnNames, TypeInv, PairInv, UpInv, NEW c \in Clients, WriteUrl(c)
  PROVE  UpInv'
  <1>1. /\ pc[c] \in {"text", "zero"} /\ blocked[c] = Absent
        /\ UNCHANGED <<listening, fs, url, workers, closing>>
    BY DEF WriteUrl, Runs, files, children
  <1>2. InHandshake(c) /\ Connects(c)
    BY <1>1, Busy DEF InHandshake
  <1>3. pc[Master] = "url" /\ blocked[Master] = Absent /\ rd[In] = {Master}
    BY <1>1, <1>2, TwoPipes DEF Connects, Meets, Waits, UpInv, InInv
  <1>4. PICK s \in {"zero", "hangup"}, token \in Names \cup {Zero} :
          /\ Write(In, token) /\ Goto(c, s) /\ UNCHANGED <<blocked, fds>>
          /\ \/ pc[c] = "text" /\ s = "zero" /\ token = Name[c]
             \/ pc[c] = "zero" /\ s = "hangup" /\ token = Zero
    BY <1>3, TwoPipes DEF WriteUrl, Send, Runs
  <1>5. /\ \A q \in Procs : pc'[q] = IF q = c THEN s ELSE pc[q]
        /\ UNCHANGED <<rd, wr, blocked, res, req>>
        /\ data'[In] = Append(data[In], token)
        /\ \A i \in Pipe : i # In => data'[i] = data[i]
    BY <1>4, TwoPipes DEF Goto, Write, fds, TypeInv, TypeOK
  <1>6. /\ pc'[c] = s /\ pc'[Master] = "url"
        /\ Resp(c)' = Resp(c) /\ Reqs(c)' = Reqs(c)
    BY <1>1, <1>3, <1>5, TwoPipes DEF Resp, Reqs, Request, Response
  <1>7. /\ Append(<< >>, token) = <<token>>
        /\ Append(<<Name[c]>>, token) = <<Name[c], token>>
    <2>1. Name[c] \in Names \cup {Zero}
      BY TwoPipes
    <2>2. Append(<< >>, token) = <<token>>
      OBVIOUS
    <2>3. Append(<<Name[c]>>, token) = <<Name[c], token>>
      BY <2>1, TwoTexts, Zenon
    <2> QED BY <2>2, <2>3
  <1>8. Connects(c)'
    <2>1. Meets(c)' /\ Waits(c)'
      BY <1>1, <1>3, <1>5, <1>6 DEF Meets, Waits
    <2>2. Sends(c)'
      <3>1. \/ pc[c] = "text" /\ url = << >> /\ data[In] = << >>
            \/ pc[c] = "zero" /\ url = << >> /\ data[In] = <<Name[c]>>
            \/ pc[c] = "zero" /\ url = <<Name[c]>> /\ data[In] = << >>
        BY <1>1, <1>2, <1>3 DEF Connects, Sends
      <3>2. \/ s = "zero" /\ url = << >> /\ data'[In] = <<Name[c]>>
            \/ s = "hangup" /\ url = << >> /\ data'[In] = <<Name[c], Zero>>
            \/ s = "hangup" /\ url = <<Name[c]>> /\ data'[In] = <<Zero>>
        BY <1>4, <1>5, <1>7, <3>1
      <3> QED BY <1>1, <1>6, <3>2 DEF Sends, Making, In
    <2>3. Responds(c)'
      <3>1. Resp(c) \in Pipe \ {In} /\ s \notin Late /\ pc[c] \notin Late
        BY <1>1, <1>2, TwoPipes DEF Connects, Responds, Late
      <3> QED BY <1>1, <1>2, <1>3, <1>5, <1>6, <3>1 DEF Connects, Responds, Late
    <2>4. Requests(c)'
      BY <1>6 DEF Requests, Making
    <2> QED BY <2>1, <2>2, <2>3, <2>4 DEF Connects
  <1>9. wr[In] \subseteq Clients /\ c \in wr[In]
    BY <1>1 DEF UpInv, InInv
  <1> QED BY <1>1, <1>2, <1>5, <1>8, <1>9, ClientGoes

LEMMA HangUpUp ==
  ASSUME OwnNames, TypeInv, PairInv, UpInv, NEW c \in Clients, HangUp(c)
  PROVE  UpInv'
  <1>1. /\ pc[c] = "hangup" /\ blocked[c] = Absent /\ Close(c, {In}) /\ Goto(c, "response")
        /\ UNCHANGED <<listening, fs, url, workers, closing, blocked, res, req>>
    BY DEF HangUp, Runs, files, fds, children
  <1>2. InHandshake(c) /\ Connects(c)
    BY <1>1, Busy DEF InHandshake
  <1>3. \A q \in Procs : pc'[q] = IF q = c THEN "response" ELSE pc[q]
    BY <1>1 DEF Goto, TypeInv, TypeOK
  <1>4. /\ \A i \in Pipe \ {In} : rd'[i] = rd[i] /\ wr'[i] = wr[i]
        /\ \A i \in Pipe : data'[i] = data[i] \/ (data'[i] = << >> /\ rd'[i] = {})
        /\ rd'[In] = rd[In] \ {c} /\ wr'[In] = wr[In] \ {c}
    BY <1>1, TwoPipes DEF Close
  <1>5. /\ rd[In] = IF pc[Master] \in {"url", "hangup"} THEN {Master} ELSE {}
        /\ wr[In] = {d \in Clients : pc[d] \in {"text", "zero", "hangup"}}
    BY DEF UpInv, InInv
  <1>6. /\ rd'[In] = rd[In] /\ c \notin wr'[In] /\ wr'[In] \subseteq Clients
        /\ \A d \in Clients : d # c => (d \in wr'[In] <=> d \in wr[In])
    BY <1>4, <1>5, TwoPipes
  <1>7. /\ pc'[c] = "response" /\ pc'[Master] = pc[Master]
        /\ Resp(c)' = Resp(c) /\ Reqs(c)' = Reqs(c)
    BY <1>1, <1>3, TwoPipes DEF Resp, Reqs, Request, Response
  <1>8. Connects(c)'
    <2>1. Meets(c)' /\ Waits(c)'
      BY <1>1, <1>2, <1>7 DEF Connects, Meets, Waits
    <2>2. Sends(c)'
      <3>1. pc[Master] = "url" => data'[In] = data[In]
        BY <1>4, <1>5, <1>6, TwoPipes
      <3>2. data[In] = << >> => data'[In] = << >>
        BY <1>4, TwoPipes
      <3> QED BY <1>1, <1>2, <1>7, <3>1, <3>2 DEF Connects, Meets, Sends, Making, In
    <2>3. Responds(c)'
      <3>1. Resp(c) \in Pipe \ {In} /\ pc[Master] \notin {"request", "ack"}
        BY <1>1, <1>2, TwoPipes DEF Connects, Meets, Responds
      <3> QED BY <1>1, <1>2, <1>4, <1>7, <3>1 DEF Connects, Responds, Late
    <2>4. Requests(c)'
      <3>1. pc[Master] \in Making => Reqs(c) \in Pipe \ {In} /\ data[Reqs(c)] = << >>
        BY <1>2, TwoPipes DEF Connects, Requests
      <3> QED BY <1>1, <1>2, <1>4, <1>7, <3>1 DEF Connects, Requests
    <2> QED BY <2>1, <2>2, <2>3, <2>4 DEF Connects
  <1> QED BY <1>1, <1>2, <1>3, <1>6, <1>8, ClientGoes

LEMMA OpenResponseUp ==
  ASSUME OwnNames, TypeInv, PairInv, UpInv, NEW c \in Clients, OpenResponse(c)
  PROVE  UpInv'
  <1> DEFINE i == Resp(c)
  <1>1. pc[c] = "response" /\ blocked[c] = Absent /\ UNCHANGED <<listening, fs, url, workers, closing>>
    BY DEF OpenResponse, Runs, files, children
  <1>2. InHandshake(c) /\ Connects(c)
    BY <1>1, Busy DEF InHandshake
  <1>3. i # Absent /\ i \in Pipe \ {In} /\ i # Reqs(c)
    BY <1>2, TwoPipes DEF Connects, Responds
  <1>4. OpenRead(c, i) /\ Goto(c, "echo") /\ res' = [res EXCEPT ![c] = i] /\ UNCHANGED req
    BY <1>3 DEF OpenResponse, Resp
  <1>5. /\ pc[Master] \in {"url", "hangup", "create", "response", "echo"}
        /\ blocked[Master] = IF pc[Master] = "echo" THEN i ELSE Absent
        /\ wr[i] = IF pc[Master] = "echo" THEN {Master} ELSE {}
        /\ rd[i] = {}
    BY <1>1, <1>2 DEF Connects, Meets, Waits, Responds, Late
  <1>6. /\ \A q \in Procs : pc'[q] = IF q = c THEN "echo" ELSE pc[q]
        /\ \A q \in Procs : res'[q] = IF q = c THEN i ELSE res[q]
        /\ wr' = wr /\ data' = data /\ rd'[i] = {c}
        /\ \A j \in Pipe : j # i => rd'[j] = rd[j]
    <2>1. rd' = [rd EXCEPT ![i] = @ \cup {c}] /\ wr' = wr /\ data' = data
      BY <1>4 DEF OpenRead
    <2> QED BY <1>3, <1>4, <1>5, <2>1, Ranges DEF Goto, TypeInv, TypeOK
  <1>7. /\ \A d \in Clients : d # c => blocked'[d] = blocked[d]
        /\ blocked'[c] = IF pc[Master] = "echo" THEN Absent ELSE i
        /\ blocked'[Master] = Absent
    BY <1>4, <1>5, TwoPipes, Sorts DEF OpenRead, Open
  <1>8. /\ pc'[c] = "echo" /\ pc'[Master] = pc[Master] /\ res'[c] = i /\ res'[Master] = res[Master]
        /\ Resp(c)' = Resp(c) /\ Reqs(c)' = Reqs(c)
    BY <1>1, <1>6, TwoPipes DEF Resp, Reqs, Request, Response
  <1>9. Connects(c)'
    <2>1. Meets(c)' /\ Waits(c)'
      BY <1>5, <1>7, <1>8 DEF Meets, Waits, Late
    <2>2. Sends(c)'
      BY <1>1, <1>2, <1>6, <1>8 DEF Connects, Sends, In
    <2>3. Responds(c)'
      BY <1>1, <1>2, <1>5, <1>6, <1>8 DEF Connects, Responds, Late
    <2>4. Requests(c)'
      <3>1. pc[Master] \in Making => Reqs(c) \in Pipe
        BY <1>2, TwoPipes DEF Connects, Requests
      <3> QED BY <1>1, <1>2, <1>3, <1>4, <1>6, <1>8, <3>1 DEF Connects, Requests
    <2> QED BY <2>1, <2>2, <2>3, <2>4 DEF Connects
  <1>10. wr[In] \subseteq Clients /\ c \notin wr[In] /\ rd'[In] = rd[In]
    BY <1>1, <1>3, <1>6, TwoPipes DEF UpInv, InInv
  <1> QED BY <1>1, <1>2, <1>6, <1>7, <1>9, <1>10, ClientGoes

LEMMA ReadEchoUp ==
  ASSUME OwnNames, TypeInv, PairInv, UpInv, NEW c \in Clients, ReadEcho(c)
  PROVE  UpInv'
  <1> DEFINE i == Resp(c)
  <1>1. /\ pc[c] = "echo" /\ blocked[c] = Absent /\ Readable(res[c])
        /\ UNCHANGED <<listening, fs, url, workers, closing>>
    BY DEF ReadEcho, Runs, files, children
  <1>2. InHandshake(c) /\ Connects(c)
    BY <1>1, Busy DEF InHandshake
  <1>3. i # Absent /\ i \in Pipe \ {In} /\ i # Reqs(c) /\ res[c] = i
    BY <1>1, <1>2, TwoPipes DEF Connects, Responds, Late
  <1>4. pc[Master] \in Late /\ wr[i] = {Master}
    BY <1>1, <1>2, <1>3 DEF Connects, Waits, Responds
  <1>5. pc[Master] \in {"request", "ack"} /\ data[i] = <<Name[c]>>
    BY <1>1, <1>2, <1>3, <1>4 DEF Connects, Responds, Readable, Late
  <1>6. Next1(i) = Name[c]
    BY <1>5 DEF Next1
  <1>7. /\ \A q \in Procs : pc'[q] = IF q = c THEN "request" ELSE pc[q]
        /\ UNCHANGED <<rd, wr, blocked, res, req>>
        /\ \A j \in Pipe : j # i => data'[j] = data[j]
    BY <1>3, <1>6 DEF ReadEcho, Take, Goto, fds, TypeInv, TypeOK
  <1>8. /\ pc'[c] = "request" /\ pc'[Master] = pc[Master]
        /\ Resp(c)' = Resp(c) /\ Reqs(c)' = Reqs(c)
    BY <1>1, <1>7, TwoPipes DEF Resp, Reqs, Request, Response
  <1>9. Connects(c)'
    <2>1. Meets(c)' /\ Waits(c)'
      BY <1>1, <1>2, <1>5, <1>7, <1>8 DEF Connects, Meets, Waits
    <2>2. Sends(c)'
      <3>1. data'[In] = data[In]
        BY <1>3, <1>7, TwoPipes
      <3> QED BY <1>1, <1>2, <1>5, <1>8, <3>1 DEF Connects, Sends, Making, In
    <2>3. Responds(c)'
      BY <1>1, <1>2, <1>5, <1>7, <1>8 DEF Connects, Responds, Late
    <2>4. Requests(c)'
      <3>1. pc[Master] \in Making => Reqs(c) \in Pipe
        BY <1>2, TwoPipes DEF Connects, Requests
      <3> QED BY <1>1, <1>2, <1>3, <1>7, <1>8, <3>1 DEF Connects, Requests
    <2> QED BY <2>1, <2>2, <2>3, <2>4 DEF Connects
  <1>10. wr[In] \subseteq Clients /\ c \notin wr[In]
    BY <1>1 DEF UpInv, InInv
  <1> QED BY <1>1, <1>2, <1>7, <1>9, <1>10, ClientGoes

LEMMA OpenRequestUp ==
  ASSUME OwnNames, TypeInv, PairInv, UpInv, NEW c \in Clients, OpenRequest(c)
  PROVE  UpInv'
  <1> DEFINE j == Reqs(c)
  <1>1. pc[c] = "request" /\ blocked[c] = Absent /\ UNCHANGED <<listening, fs, url, workers, closing>>
    BY DEF OpenRequest, Runs, files, children
  <1>2. InHandshake(c) /\ Connects(c)
    BY <1>1, Busy DEF InHandshake
  <1>3. /\ pc[Master] \in {"request", "ack"} /\ j # Absent /\ wr[j] = {}
        /\ rd[j] = IF pc[Master] = "ack" THEN {Master} ELSE {}
        /\ blocked[Master] = IF pc[Master] = "ack" THEN j ELSE Absent
    BY <1>1, <1>2 DEF Connects, Meets, Waits, Requests, Making
  <1>4. j \in Pipe \ {In} /\ Resp(c) \in Pipe \ {In} /\ Resp(c) # j
    BY <1>2, <1>3, TwoPipes DEF Connects, Responds
  <1>5. OpenWrite(c, j) /\ Goto(c, "ack") /\ req' = [req EXCEPT ![c] = j] /\ UNCHANGED res
    BY <1>3 DEF OpenRequest, Reqs
  <1>6. /\ \A q \in Procs : pc'[q] = IF q = c THEN "ack" ELSE pc[q]
        /\ \A q \in Procs : req'[q] = IF q = c THEN j ELSE req[q]
        /\ rd' = rd /\ data' = data /\ wr'[j] = {c}
        /\ \A i \in Pipe : i # j => wr'[i] = wr[i]
    <2>1. wr' = [wr EXCEPT ![j] = @ \cup {c}] /\ rd' = rd /\ data' = data
      BY <1>5 DEF OpenWrite
    <2> QED BY <1>3, <1>4, <1>5, <2>1, Ranges DEF Goto, TypeInv, TypeOK
  <1>7. /\ \A d \in Clients : d # c => blocked'[d] = blocked[d]
        /\ blocked'[c] = IF pc[Master] = "ack" THEN Absent ELSE j
        /\ blocked'[Master] = Absent
    BY <1>3, <1>5, TwoPipes, Sorts DEF OpenWrite, Open
  <1>8. /\ pc'[c] = "ack" /\ pc'[Master] = pc[Master] /\ req'[c] = j /\ req'[Master] = req[Master]
        /\ Resp(c)' = Resp(c) /\ Reqs(c)' = j
    BY <1>1, <1>6, TwoPipes DEF Resp, Reqs, Request, Response
  <1>9. Connects(c)'
    <2>1. Meets(c)' /\ Waits(c)'
      BY <1>3, <1>7, <1>8 DEF Meets, Waits, Late
    <2>2. Sends(c)'
      BY <1>1, <1>2, <1>3, <1>6, <1>8 DEF Connects, Sends, Making, In
    <2>3. Responds(c)'
      BY <1>1, <1>2, <1>3, <1>4, <1>5, <1>6, <1>8 DEF Connects, Responds, Late
    <2>4. Requests(c)'
      BY <1>2, <1>3, <1>6, <1>8 DEF Connects, Requests, Making
    <2> QED BY <2>1, <2>2, <2>3, <2>4 DEF Connects
  <1>10. wr[In] \subseteq Clients /\ c \notin wr[In] /\ wr'[In] = wr[In]
    BY <1>1, <1>4, <1>6, TwoPipes DEF UpInv, InInv
  <1> QED BY <1>1, <1>2, <1>6, <1>7, <1>9, <1>10, ClientGoes

LEMMA WriteAckUp ==
  ASSUME OwnNames, TypeInv, PairInv, UpInv, NEW c \in Clients, WriteAck(c)
  PROVE  UpInv'
  <1> DEFINE j == Reqs(c)
  <1>1. pc[c] = "ack" /\ blocked[c] = Absent /\ UNCHANGED <<listening, fs, url, workers, closing>>
    BY DEF WriteAck, Runs, files, children
  <1>2. InHandshake(c) /\ Connects(c)
    BY <1>1, Busy DEF InHandshake
  <1>3. pc[Master] \in {"request", "ack"} /\ j # Absent /\ req[c] = j /\ j \in Pipe \ {In}
    BY <1>1, <1>2, TwoPipes DEF Connects, Meets, Requests, Making
  <1>4. pc[Master] = "ack"
    BY <1>1, <1>2, <1>3 DEF Connects, Waits
  <1>5. /\ rd[j] = {Master} /\ data[j] = << >> /\ req[Master] = j /\ blocked[Master] = Absent
        /\ url = <<Name[c]>> /\ data[In] = << >>
    BY <1>1, <1>2, <1>4 DEF Connects, Waits, Sends, Requests, Making
  <1>6. Append(<< >>, Name[c]) = <<Name[c]>>
    OBVIOUS
  <1>7. /\ \A q \in Procs : pc'[q] = IF q = c THEN "open" ELSE pc[q]
        /\ UNCHANGED <<rd, wr, blocked, res, req>>
        /\ data'[j] = <<Name[c]>> /\ data'[In] = << >>
    <2>1. Write(j, Name[c]) /\ Goto(c, "open") /\ UNCHANGED <<blocked, fds>>
      BY <1>3, <1>5 DEF WriteAck, Send
    <2> QED BY <1>3, <1>5, <1>6, <2>1, TwoPipes DEF Goto, Write, fds, TypeInv, TypeOK
  <1>8. pc'[Master] = "ack" /\ Host' = Name[c] /\ Text' = Name[c]
    BY <1>1, <1>4, <1>5, <1>7, TwoPipes DEF Host, Text
  <1>9. Idle'
    BY <1>5, <1>7, <1>8 DEF Idle, In
  <1>10. wr[In] \subseteq Clients /\ c \notin wr[In]
    BY <1>1 DEF UpInv, InInv
  <1> QED BY <1>1, <1>2, <1>7, <1>9, <1>10, ClientGoes

\* What a client that connects has to do with the pipes.
Near(c) == {In, Resp(c)} \cup (IF pc[Master] \in Making THEN {Reqs(c)} ELSE {})

\* A step of somebody else.
LEMMA QuietUp ==
  ASSUME OwnNames, TypeInv, PairInv, UpInv,
         UNCHANGED <<listening, url>>,
         \A q \in Procs : blocked'[q] = blocked[q],
         pc'[Master] = pc[Master], res'[Master] = res[Master], req'[Master] = req[Master],
         \A d \in Clients : ~InHandshake(d) => pc'[d] \in {"prompt", "open", "unlink", "exited"},
         \A d \in Clients : InHandshake(d) =>
           /\ pc'[d] = pc[d] /\ res'[d] = res[d] /\ req'[d] = req[d]
           /\ fs'[Response(Name[d])] = fs[Response(Name[d])]
           /\ fs'[Request(Name[d])] = fs[Request(Name[d])]
           /\ workers'[Name[d]] = workers[Name[d]] /\ closing'[Name[d]] = closing[Name[d]]
           /\ \A i \in Near(d) : rd'[i] = rd[i] /\ wr'[i] = wr[i] /\ data'[i] = data[i],
         \A n \in Names : \/ fs'[Request(n)] = Absent
                          \/ fs'[Request(n)] = fs[Request(n)] /\ workers'[n] = workers[n],
         rd'[In] = rd[In], wr'[In] = wr[In], data'[In] = data[In],
         pc[Master] = "ack" /\ Master \in rd[req[Master]] =>
           Master \in rd'[req[Master]] /\ data'[req[Master]] = data[req[Master]]
  PROVE  UpInv'
  <1>1. \A d \in Clients : (InHandshake(d)' <=> InHandshake(d)) /\ (InHandshake(d) => pc'[d] = pc[d])
    BY DEF InHandshake
  <1>2. Host' = Host /\ Text' = Text
    BY DEF Host, Text
  <1>3. InInv'
    <2>1. \A d \in Clients : pc'[d] \in {"text", "zero", "hangup"} <=> pc[d] \in {"text", "zero", "hangup"}
      BY <1>1 DEF InHandshake
    <2> QED BY <2>1 DEF UpInv, InInv, In
  <1>4. OneInv'
    BY <1>1, Sorts DEF UpInv, OneInv
  <1>5. ServeInv'
    BY <1>2 DEF UpInv, ServeInv, Request
  <1>6. BusyInv'
    <2>1. CASE \E c \in Clients : InHandshake(c) /\ Connects(c)
      <3>1. PICK c \in Clients : InHandshake(c) /\ Connects(c)
        BY <2>1
      <3>2. /\ pc'[c] = pc[c] /\ pc'[Master] = pc[Master] /\ blocked'[c] = blocked[c]
            /\ blocked'[Master] = blocked[Master] /\ res'[c] = res[c] /\ req'[c] = req[c]
            /\ Resp(c)' = Resp(c) /\ Reqs(c)' = Reqs(c)
            /\ workers'[Name[c]] = workers[Name[c]] /\ closing'[Name[c]] = closing[Name[c]]
        BY <3>1, TwoPipes DEF Resp, Reqs, Request, Response
      <3>3. /\ rd'[Resp(c)] = rd[Resp(c)] /\ wr'[Resp(c)] = wr[Resp(c)] /\ data'[Resp(c)] = data[Resp(c)]
            /\ pc[Master] \in Making =>
                 rd'[Reqs(c)] = rd[Reqs(c)] /\ wr'[Reqs(c)] = wr[Reqs(c)] /\ data'[Reqs(c)] = data[Reqs(c)]
        BY <3>1 DEF Near
      <3>4. Meets(c)' /\ Waits(c)'
        BY <3>1, <3>2 DEF Connects, Meets, Waits, In
      <3>5. Sends(c)'
        BY <3>1, <3>2 DEF Connects, Sends, In
      <3>6. Responds(c)'
        BY <3>1, <3>2, <3>3 DEF Connects, Responds
      <3>7. Requests(c)'
        BY <3>1, <3>2, <3>3 DEF Connects, Requests
      <3> QED BY <1>1, <3>1, <3>4, <3>5, <3>6, <3>7 DEF BusyInv, Connects
    <2>2. CASE (\A c \in Clients : ~InHandshake(c)) /\ Idle
      <3>1. Idle'
        BY <1>2, <2>2, Sorts DEF Idle, In
      <3> QED BY <1>1, <2>2, <3>1 DEF BusyInv
    <2> QED BY <2>1, <2>2 DEF UpInv, BusyInv
  <1> QED BY <1>3, <1>4, <1>5, <1>6 DEF UpInv

\* A client that is not connecting closes what it has open.
LEMMA QuietClose ==
  ASSUME OwnNames, TypeInv, PairInv, UpInv, NEW c \in Clients, ~InHandshake(c), NEW S, Close(c, S)
  PROVE  /\ rd'[In] = rd[In] /\ wr'[In] = wr[In] /\ data'[In] = data[In]
         /\ \A d \in Clients : InHandshake(d) =>
              \A i \in Near(d) : rd'[i] = rd[i] /\ wr'[i] = wr[i] /\ data'[i] = data[i]
         /\ pc[Master] = "ack" /\ Master \in rd[req[Master]] =>
              Master \in rd'[req[Master]] /\ data'[req[Master]] = data[req[Master]]
  <1>1. \A i \in Pipe : c \notin rd[i] /\ c \notin wr[i] /\ (rd[i] \cup wr[i] = {} => data[i] = << >>) =>
          rd'[i] = rd[i] /\ wr'[i] = wr[i] /\ data'[i] = data[i]
    BY DEF Close
  <1>2. c \notin rd[In] /\ c \notin wr[In]
    BY Sorts DEF UpInv, InInv, InHandshake
  <1>3. \A d \in Clients : InHandshake(d) =>
          /\ d # c /\ Resp(d) \in Pipe /\ (pc[Master] \in Making => Reqs(d) \in Pipe)
          /\ c \notin rd[Resp(d)] /\ c \notin wr[Resp(d)]
          /\ rd[Resp(d)] \cup wr[Resp(d)] = {} => data[Resp(d)] = << >>
          /\ pc[Master] \in Making =>
               c \notin rd[Reqs(d)] /\ c \notin wr[Reqs(d)] /\ data[Reqs(d)] = << >>
    <2> SUFFICES ASSUME NEW d \in Clients, InHandshake(d)
                 PROVE  /\ d # c /\ Resp(d) \in Pipe /\ (pc[Master] \in Making => Reqs(d) \in Pipe)
                        /\ c \notin rd[Resp(d)] /\ c \notin wr[Resp(d)]
                        /\ rd[Resp(d)] \cup wr[Resp(d)] = {} => data[Resp(d)] = << >>
                        /\ pc[Master] \in Making =>
                             c \notin rd[Reqs(d)] /\ c \notin wr[Reqs(d)] /\ data[Reqs(d)] = << >>
      OBVIOUS
    <2>1. d # c /\ c # Master /\ Connects(d)
      BY Busy, Sorts
    <2>2. Resp(d) # Absent /\ (pc[Master] \in Making => Reqs(d) # Absent)
      BY <2>1 DEF Connects, Responds, Requests
    <2>3. Resp(d) \in Pipe /\ (pc[Master] \in Making => Reqs(d) \in Pipe)
      BY <2>2, TwoPipes
    <2>4. c \notin rd[Resp(d)] /\ c \notin wr[Resp(d)]
      BY <2>1 DEF Connects, Responds
    <2>5. rd[Resp(d)] \cup wr[Resp(d)] = {} => data[Resp(d)] = << >>
      BY <2>1 DEF Connects, Responds, Late
    <2>6. pc[Master] \in Making => c \notin rd[Reqs(d)] /\ c \notin wr[Reqs(d)] /\ data[Reqs(d)] = << >>
      BY <2>1 DEF Connects, Requests
    <2> QED BY <2>1, <2>3, <2>4, <2>5, <2>6
  <1>4. rd[In] = {} => data[In] = << >>
    <2>1. CASE \E d \in Clients : InHandshake(d) /\ Connects(d)
      BY <2>1 DEF UpInv, InInv, Connects, Meets, Sends, Making
    <2>2. CASE Idle
      BY <2>2 DEF Idle
    <2> QED BY <2>1, <2>2 DEF UpInv, BusyInv
  <1>5. rd'[In] = rd[In] /\ wr'[In] = wr[In] /\ data'[In] = data[In]
    BY <1>1, <1>2, <1>4, Sorts
  <1>6. \A d \in Clients : InHandshake(d) =>
          \A i \in Near(d) : rd'[i] = rd[i] /\ wr'[i] = wr[i] /\ data'[i] = data[i]
    BY <1>1, <1>3, <1>5 DEF Near
  <1>7. pc[Master] = "ack" /\ Master \in rd[req[Master]] =>
          Master \in rd'[req[Master]] /\ data'[req[Master]] = data[req[Master]]
    <2>1. pc[Master] = "ack" => req[Master] \in Pipe
      BY Ranges, Sorts DEF PairInv, EchoInv
    <2> QED BY <2>1, Sorts DEF Close
  <1> QED BY <1>5, <1>6, <1>7

\* The end of a client that is not connecting, and what it unlinks.
LEMMA QuietEnds ==
  ASSUME OwnNames, TypeInv, PairInv, UpInv, NEW c \in Clients, ~InHandshake(c), Ends(c),
         UNCHANGED <<listening, url, workers, closing>>,
         \A f \in Paths : fs'[f] = fs[f] \/ (f = Response(Name[c]) /\ fs'[f] = Absent)
  PROVE  UpInv'
  <1>1. /\ \A q \in Procs : pc'[q] = IF q = c THEN "exited" ELSE pc[q]
        /\ \A q \in Procs : blocked'[q] = IF q = c THEN Absent ELSE blocked[q]
        /\ \A q \in Procs : res'[q] = IF q = c THEN Absent ELSE res[q]
        /\ \A q \in Procs : req'[q] = IF q = c THEN Absent ELSE req[q]
        /\ Close(c, Pipe)
    BY TwoPipes DEF Ends, Goto, Held, TypeInv, TypeOK
  <1>2. /\ \A q \in Procs : blocked'[q] = blocked[q]
        /\ pc'[Master] = pc[Master] /\ res'[Master] = res[Master] /\ req'[Master] = req[Master]
    BY <1>1, TwoPipes DEF UpInv, OneInv
  <1>3. \A d \in Clients : ~InHandshake(d) => pc'[d] \in {"prompt", "open", "unlink", "exited"}
    BY <1>1, Sorts DEF InHandshake
  <1>4. \A d \in Clients : InHandshake(d) =>
           /\ pc'[d] = pc[d] /\ res'[d] = res[d] /\ req'[d] = req[d]
           /\ fs'[Response(Name[d])] = fs[Response(Name[d])]
           /\ fs'[Request(Name[d])] = fs[Request(Name[d])]
    <2> SUFFICES ASSUME NEW d \in Clients, InHandshake(d)
                 PROVE  /\ pc'[d] = pc[d] /\ res'[d] = res[d] /\ req'[d] = req[d]
                        /\ fs'[Response(Name[d])] = fs[Response(Name[d])]
                        /\ fs'[Request(Name[d])] = fs[Request(Name[d])]
      OBVIOUS
    <2>1. d # c /\ d \in Procs /\ Name[d] # Name[c] /\ Name[d] \in Names /\ Name[c] \in Names
      BY Sorts DEF OwnNames
    <2>2. Response(Name[d]) # Response(Name[c]) /\ Request(Name[d]) # Response(Name[c])
      BY <2>1, Ranges
    <2> QED BY <1>1, <2>1, <2>2, Ranges
  <1>5. \A n \in Names : fs'[Request(n)] = fs[Request(n)]
    BY TwoPipes, Ranges
  <1> QED BY <1>1, <1>2, <1>3, <1>4, <1>5, QuietClose, QuietUp

LEMMA CreateResponseUp ==
  ASSUME OwnNames, Orderly = TRUE, TypeInv, TypeInv', PairInv, UpInv,
         NEW c \in Clients, CreateResponse(c)
  PROVE  UpInv'
  <1>1. /\ pc[c] = "prompt" /\ blocked[c] = Absent /\ ~InHandshake(c)
        /\ UNCHANGED <<url, workers, closing>>
    BY DEF CreateResponse, Runs, children, InHandshake
  <1>2. CASE Ends(c) /\ UNCHANGED files
    BY <1>1, <1>2, QuietEnds DEF files
  <1>3. CASE mkfifo(Response(Name[c])) /\ Goto(c, "connect") /\ UNCHANGED <<blocked, fds, listening, ends>>
    <2> DEFINE i == npipes + 1
    <2>1. /\ \A d \in Clients : ~InHandshake(d)
          /\ pc[Master] \in {"listen", "accept", "url"}
          /\ workers[Name[c]] = 0 /\ closing[Name[c]] = 0
      <3>1. /\ \A d \in Clients \ {c} : pc[d] \in {"prompt", "exited", "open"}
            /\ pc[Master] \in {"listen", "accept", "url", "exited"}
            /\ workers[Name[c]] + closing[Name[c]] = 0
        BY DEF CreateResponse, MayOpen
      <3>2. \A d \in Clients : ~InHandshake(d)
        BY <1>1, <3>1 DEF InHandshake
      <3>3. Idle
        BY <3>2 DEF UpInv, BusyInv
      <3>4. workers[Name[c]] \in Nat /\ closing[Name[c]] \in Nat
        BY TwoPipes DEF TypeInv, TypeOK
      <3> QED BY <3>1, <3>2, <3>3, <3>4 DEF Idle
    <2>2. Idle
      BY <2>1 DEF UpInv, BusyInv
    <2>3. /\ \A q \in Procs : pc'[q] = IF q = c THEN "connect" ELSE pc[q]
          /\ UNCHANGED <<blocked, res, req, listening, rd, wr, data>>
      BY <1>3 DEF Goto, fds, ends, TypeInv, TypeOK
    <2>4. /\ fs' = [fs EXCEPT ![Response(Name[c])] = i]
          /\ npipes' = i /\ npipes \in Nat
      BY <1>3, Ranges DEF mkfifo
    <2>5. Resp(c)' = i /\ \A n \in Names : fs'[Request(n)] = fs[Request(n)]
      BY <2>4, TwoPipes, Ranges DEF Resp, Response
    <2>6. i \in Pipe /\ i # Absent /\ i > npipes
      <3>1. npipes' \in Pipe'
        BY DEF TypeInv, TypeOK
      <3> QED BY <2>4, <3>1 DEF Pipe, MaxPipes, Absent
    <2>7. rd[i] = {} /\ wr[i] = {} /\ data[i] = << >>
      BY <2>6 DEF PairInv, FreshInv
    <2>8. pc'[c] = "connect" /\ pc'[Master] = pc[Master]
      BY <2>3, TwoPipes
    <2>9. Connects(c)'
      <3>1. Meets(c)' /\ Waits(c)'
        BY <1>1, <2>1, <2>2, <2>3, <2>8 DEF Meets, Waits, Idle, In
      <3>2. Sends(c)'
        BY <1>1, <2>1, <2>2, <2>3, <2>8 DEF Sends, Idle, Making, In
      <3>3. Responds(c)'
        BY <1>1, <2>1, <2>3, <2>5, <2>6, <2>7, <2>8 DEF Responds, Late
      <3>4. Requests(c)'
        BY <2>1, <2>8 DEF Requests, Making
      <3> QED BY <3>1, <3>2, <3>3, <3>4 DEF Connects
    <2>10. \A d \in Clients : d # c => pc'[d] = pc[d] /\ ~InHandshake(d) /\ ~InHandshake(d)'
      BY <2>1, <2>3, Sorts DEF InHandshake
    <2>11. InInv'
      <3>1. \A d \in Clients : pc'[d] \in {"text", "zero", "hangup"} <=> pc[d] \in {"text", "zero", "hangup"}
        BY <1>1, <2>8, <2>10
      <3> QED BY <2>3, <2>8, <3>1 DEF UpInv, InInv, In
    <2>12. OneInv'
      <3>1. \A d \in Clients : blocked'[d] = Absent
        BY <2>1, <2>3 DEF UpInv, OneInv
      <3>2. \A d \in Clients, e \in Clients : InHandshake(d)' /\ InHandshake(e)' => d = e
        BY <2>10
      <3> QED BY <3>1, <3>2 DEF OneInv, InHandshake, Absent
    <2>13. ServeInv'
      BY <1>1, <2>1, <2>3, <2>5, <2>8 DEF UpInv, ServeInv, Request, Making
    <2>14. BusyInv'
      BY <2>8, <2>9 DEF BusyInv, InHandshake
    <2> QED BY <2>11, <2>12, <2>13, <2>14 DEF UpInv
  <1> QED BY <1>2, <1>3 DEF CreateResponse

LEMMA ClientClosesUp ==
  ASSUME OwnNames, TypeInv, PairInv, UpInv, NEW c \in Clients, ClientCloses(c)
  PROVE  UpInv'
  <1>1. /\ pc[c] = "open" /\ blocked[c] = Absent /\ ~InHandshake(c) /\ Close(c, {req[c]})
        /\ UNCHANGED <<blocked, res, req, listening, url, workers, closing>>
    BY DEF ClientCloses, Runs, fds, children, InHandshake
  <1>2. /\ \A q \in Procs : pc'[q] = IF q = c THEN "unlink" ELSE pc[q]
        /\ fs' = [fs EXCEPT ![Request(Name[c])] = Absent]
    BY DEF ClientCloses, unlink, Goto, TypeInv, TypeOK
  <1>3. /\ pc'[Master] = pc[Master]
        /\ \A d \in Clients : ~InHandshake(d) => pc'[d] \in {"prompt", "open", "unlink", "exited"}
    BY <1>2, Sorts DEF InHandshake
  <1>4. \A d \in Clients : InHandshake(d) =>
           /\ pc'[d] = pc[d]
           /\ fs'[Response(Name[d])] = fs[Response(Name[d])]
           /\ fs'[Request(Name[d])] = fs[Request(Name[d])]
    <2> SUFFICES ASSUME NEW d \in Clients, InHandshake(d)
                 PROVE  /\ pc'[d] = pc[d]
                        /\ fs'[Response(Name[d])] = fs[Response(Name[d])]
                        /\ fs'[Request(Name[d])] = fs[Request(Name[d])]
      OBVIOUS
    <2>1. d # c /\ d \in Procs /\ Name[d] # Name[c] /\ Name[d] \in Names /\ Name[c] \in Names
      BY <1>1, Sorts DEF OwnNames
    <2>2. Request(Name[d]) # Request(Name[c]) /\ Response(Name[d]) # Request(Name[c])
      BY <2>1, Ranges
    <2> QED BY <1>2, <2>1, <2>2, Ranges
  <1>5. \A n \in Names : fs'[Request(n)] = Absent \/ fs'[Request(n)] = fs[Request(n)]
    BY <1>2, Ranges
  <1> QED BY <1>1, <1>3, <1>4, <1>5, QuietClose, QuietUp

LEMMA ClientUnlinksUp ==
  ASSUME OwnNames, TypeInv, PairInv, UpInv, NEW c \in Clients, ClientUnlinks(c)
  PROVE  UpInv'
  <1>1. ~InHandshake(c) /\ Ends(c) /\ UNCHANGED <<listening, url, workers, closing>>
    BY DEF ClientUnlinks, Runs, children, InHandshake
  <1>2. \A f \in Paths : fs'[f] = fs[f] \/ (f = Response(Name[c]) /\ fs'[f] = Absent)
    BY Ranges DEF ClientUnlinks, unlink
  <1> QED BY <1>1, <1>2, QuietEnds

\* The FIFOs of a client that connects are no worker's to unlink.
LEMMA WorkerUp ==
  ASSUME OwnNames, TypeInv, PairInv, UpInv, NEW n \in Names, WorkerCloses(n) \/ WorkerUnlinks(n)
  PROVE  UpInv'
  <1>1. UNCHANGED <<pc, blocked, res, req, listening, rd, wr, data, url>>
    BY DEF WorkerCloses, WorkerUnlinks, fds, ends
  <1>2. /\ \A f \in Paths : f \notin {Request(n), Response(n)} => fs'[f] = fs[f]
        /\ \A m \in Names : m # n => workers'[m] = workers[m] /\ closing'[m] = closing[m]
    <2>1. workers \in [Names -> Nat] /\ closing \in [Names -> Nat] /\ fs \in [Paths -> Pipe \cup {Absent}]
      BY DEF TypeInv, TypeOK
    <2> QED BY <2>1 DEF WorkerCloses, WorkerUnlinks, unlink
  <1>3. /\ \/ fs'[Request(n)] = Absent
           \/ fs'[Request(n)] = fs[Request(n)] /\ workers'[n] = workers[n]
        /\ workers[n] # 0 \/ closing[n] # 0
    <2>1. CASE WorkerCloses(n)
      BY <2>1, Ranges DEF WorkerCloses, unlink
    <2>2. CASE WorkerUnlinks(n)
      BY <2>2, Ranges DEF WorkerUnlinks, unlink
    <2> QED BY <2>1, <2>2
  <1>4. \A d \in Clients : InHandshake(d) =>
           /\ fs'[Response(Name[d])] = fs[Response(Name[d])]
           /\ fs'[Request(Name[d])] = fs[Request(Name[d])]
           /\ workers'[Name[d]] = workers[Name[d]] /\ closing'[Name[d]] = closing[Name[d]]
    <2> SUFFICES ASSUME NEW d \in Clients, InHandshake(d)
                 PROVE  /\ fs'[Response(Name[d])] = fs[Response(Name[d])]
                        /\ fs'[Request(Name[d])] = fs[Request(Name[d])]
                        /\ workers'[Name[d]] = workers[Name[d]] /\ closing'[Name[d]] = closing[Name[d]]
      OBVIOUS
    <2>1. workers[Name[d]] = 0 /\ closing[Name[d]] = 0
      BY Busy DEF Connects, Responds
    <2>2. Name[d] \in Names /\ Name[d] # n
      BY <1>3, <2>1, Sorts
    <2>3. {Response(Name[d]), Request(Name[d])} \cap {Request(n), Response(n)} = {}
      BY <2>2, Ranges
    <2> QED BY <1>2, <2>2, <2>3, Ranges
  <1>5. \A m \in Names : \/ fs'[Request(m)] = Absent
                         \/ fs'[Request(m)] = fs[Request(m)] /\ workers'[m] = workers[m]
    <2> SUFFICES ASSUME NEW m \in Names, m # n
                 PROVE  fs'[Request(m)] = fs[Request(m)] /\ workers'[m] = workers[m]
      BY <1>3
    <2> QED BY <1>2, Ranges
  <1>6. \A d \in Clients : ~InHandshake(d) => pc'[d] \in {"prompt", "open", "unlink", "exited"}
    BY <1>1 DEF InHandshake
  <1> QED BY <1>1, <1>4, <1>5, <1>6, QuietUp

LEMMA RestartUp ==
  ASSUME OwnNames, TypeInv, PairInv, UpInv, NEW p \in Procs, Restart(p)
  PROVE  UpInv'
  <1>1. /\ pc[p] = "exited"
        /\ UNCHANGED <<blocked, res, req, listening, fs, rd, wr, data, url, workers, closing>>
    BY DEF Restart, fds, files, ends, children
  <1>2. pc[Master] # "exited"
    BY DEF UpInv, BusyInv, Idle, Connects, Meets
  <1>3. p \in Clients /\ p # Master
    BY <1>1, <1>2 DEF Procs
  <1>4. \A q \in Procs : pc'[q] = IF q = p THEN "prompt" ELSE pc[q]
    BY <1>3 DEF Restart, Goto, TypeInv, TypeOK
  <1>5. /\ pc'[Master] = pc[Master]
        /\ \A d \in Clients : ~InHandshake(d) => pc'[d] \in {"prompt", "open", "unlink", "exited"}
        /\ \A d \in Clients : InHandshake(d) => pc'[d] = pc[d]
    BY <1>1, <1>3, <1>4, Sorts DEF InHandshake
  <1> QED BY <1>1, <1>5, QuietUp

\* A step of the master.
LEMMA MasterGoes ==
  ASSUME TypeInv, UpInv, NEW s,
         \A q \in Procs : pc'[q] = IF q = Master THEN s ELSE pc[q],
         ServeInv',
         rd'[In] = IF s \in {"url", "hangup"} THEN {Master} ELSE {}, wr'[In] = wr[In],
         \A d \in Clients : blocked'[d] \in {blocked[d], Absent},
         \A c \in Clients : InHandshake(c) /\ Connects(c) => Connects(c)',
         (\A c \in Clients : ~InHandshake(c)) /\ Idle => Idle'
  PROVE  UpInv'
  <1>1. pc'[Master] = s /\ \A d \in Clients : pc'[d] = pc[d]
    BY Sorts
  <1>2. \A d \in Clients : InHandshake(d)' <=> InHandshake(d)
    BY <1>1 DEF InHandshake
  <1>3. InInv'
    <2>1. wr'[In] = {d \in Clients : pc'[d] \in {"text", "zero", "hangup"}}
      BY <1>1 DEF UpInv, InInv
    <2> QED BY <1>1, <2>1 DEF InInv, In
  <1>4. OneInv'
    BY <1>2 DEF UpInv, OneInv, Absent
  <1>5. BusyInv'
    BY <1>2 DEF UpInv, BusyInv
  <1> QED BY <1>3, <1>4, <1>5 DEF UpInv

LEMMA ServeKept ==
  ASSUME ServeInv, UNCHANGED <<fs, workers>>, pc'[Master] # "listen",
         pc[Master] \in Making => pc'[Master] \in Making /\ url' = url
  PROVE  ServeInv'
  BY DEF ServeInv, Request, Host

LEMMA ListenUp ==
  ASSUME TypeInv, PairInv, UpInv, comm_listen
  PROVE  UpInv'
  <1>1. /\ pc[Master] = "listen" /\ blocked[Master] = Absent /\ Goto(Master, "accept")
        /\ UNCHANGED <<blocked, res, req, fs, rd, wr, data, url, workers, closing>>
    BY DEF comm_listen, Runs, fds, ends, children
  <1>2. /\ \A q \in Procs : pc'[q] = IF q = Master THEN "accept" ELSE pc[q]
        /\ pc'[Master] = "accept" /\ \A c \in Clients : pc'[c] = pc[c]
    BY <1>1, Sorts DEF Goto, TypeInv, TypeOK
  <1>3. \A c \in Clients : InHandshake(c) /\ Connects(c) => Connects(c)'
    <2> SUFFICES ASSUME NEW c \in Clients, Connects(c) PROVE Connects(c)'
      OBVIOUS
    <2>1. pc[c] = "connect" /\ pc'[c] = "connect"
      BY <1>1, <1>2 DEF Connects, Meets
    <2>2. Resp(c)' = Resp(c)
      BY <1>1 DEF Resp, Response
    <2>3. Meets(c)' /\ Waits(c)'
      BY <1>1, <1>2, <2>1 DEF Connects, Meets, Waits
    <2>4. Sends(c)'
      BY <1>1, <1>2, <2>1 DEF Connects, Sends, Making, In
    <2>5. Responds(c)'
      BY <1>1, <1>2, <2>1, <2>2 DEF Connects, Responds, Late
    <2>6. Requests(c)'
      BY <1>2 DEF Requests, Making
    <2> QED BY <2>3, <2>4, <2>5, <2>6 DEF Connects
  <1>4. Idle => Idle'
    BY <1>1, <1>2 DEF Idle, In
  <1>5. ServeInv'
    BY <1>1, <1>2, ServeKept DEF UpInv, Making
  <1>6. rd'[In] = {}
    BY <1>1 DEF UpInv, InInv
  <1> QED BY <1>1, <1>2, <1>3, <1>4, <1>5, <1>6, MasterGoes

LEMMA OpenConnectionFileUp ==
  ASSUME TypeInv, PairInv, UpInv, OpenConnectionFile, MayHave(1)
  PROVE  UpInv'
  <1>1. /\ pc[Master] = "accept" /\ blocked[Master] = Absent /\ OpenRead(Master, In) /\ url' = << >>
        /\ Goto(Master, "url") /\ UNCHANGED <<res, req, listening, fs, workers, closing>>
    BY DEF OpenConnectionFile, Runs, fds, files, children
  <1>2. /\ \A q \in Procs : pc'[q] = IF q = Master THEN "url" ELSE pc[q]
        /\ pc'[Master] = "url" /\ \A c \in Clients : pc'[c] = pc[c]
    BY <1>1, Sorts DEF Goto, TypeInv, TypeOK
  <1>3. rd[In] = {} /\ wr[In] = {c \in Clients : pc[c] \in {"text", "zero", "hangup"}}
    BY <1>1 DEF UpInv, InInv
  <1>4. /\ wr' = wr /\ data' = data /\ rd'[In] = {Master}
        /\ \A i \in Pipe : i # In => rd'[i] = rd[i]
    BY <1>1, <1>3, Sorts, Ranges DEF OpenRead
  <1>5. /\ blocked'[Master] = IF wr[In] = {} THEN In ELSE Absent
        /\ \A d \in Clients : blocked'[d] = IF d \in wr[In] /\ blocked[d] = In THEN Absent ELSE blocked[d]
    BY <1>1, Sorts DEF OpenRead, Open
  <1>6. \A c \in Clients : InHandshake(c) /\ Connects(c) => Connects(c)'
    <2> SUFFICES ASSUME NEW c \in Clients, InHandshake(c), Connects(c) PROVE Connects(c)'
      OBVIOUS
    <2>1. /\ pc[c] \in {"connect", "text"} /\ pc'[c] = pc[c]
          /\ blocked[c] = IF pc[c] = "text" THEN In ELSE Absent
          /\ data[In] = << >>
      BY <1>1, <1>2 DEF Connects, Meets, Waits, Sends
    <2>2. wr[In] = IF pc[c] = "text" THEN {c} ELSE {}
      <3>1. \A d \in Clients : d # c => pc[d] \notin {"text", "zero", "hangup"}
        BY DEF UpInv, OneInv, InHandshake
      <3> QED BY <1>3, <2>1, <3>1
    <2>3. blocked'[c] = Absent /\ blocked'[Master] = IF pc[c] = "connect" THEN In ELSE Absent
      BY <1>5, <2>1, <2>2
    <2>4. Resp(c)' = Resp(c) /\ Resp(c) \in Pipe \ {In}
      BY <1>1, TwoPipes DEF Resp, Response, Connects, Responds
    <2>5. Meets(c)' /\ Waits(c)'
      BY <1>2, <2>1, <2>3 DEF Meets, Waits, In
    <2>6. Sends(c)'
      BY <1>1, <1>2, <1>4, <2>1 DEF Sends, Making, In
    <2>7. Responds(c)'
      BY <1>1, <1>2, <1>4, <2>1, <2>4 DEF Connects, Responds, Late
    <2>8. Requests(c)'
      BY <1>2 DEF Requests, Making
    <2> QED BY <2>5, <2>6, <2>7, <2>8 DEF Connects
  <1>7. (\A c \in Clients : ~InHandshake(c)) /\ Idle => Idle'
    <2> SUFFICES ASSUME \A c \in Clients : ~InHandshake(c), Idle PROVE Idle'
      OBVIOUS
    <2>1. wr[In] = {}
      BY <1>3 DEF InHandshake
    <2> QED BY <1>1, <1>2, <1>4, <1>5, <2>1 DEF Idle, In
  <1>8. ServeInv'
    BY <1>1, <1>2, ServeKept DEF UpInv, Making
  <1> QED BY <1>2, <1>4, <1>5, <1>6, <1>7, <1>8, MasterGoes

LEMMA ReadUrlUp ==
  ASSUME TypeInv, PairInv, UpInv, ReadUrl
  PROVE  UpInv'
  <1>1. /\ pc[Master] = "url" /\ blocked[Master] = Absent /\ Readable(In) /\ Take(In)
        /\ UNCHANGED <<blocked, res, req, listening, fs, workers, closing>>
    BY DEF ReadUrl, Runs, fds, files, children
  <1>2. PICK c \in Clients : InHandshake(c) /\ Connects(c)
    BY <1>1 DEF UpInv, BusyInv, Idle, In, Absent
  <1>3. \A d \in Clients : InHandshake(d) => d = c
    BY <1>2 DEF UpInv, OneInv
  <1>4. /\ wr[In] = {d \in Clients : pc[d] \in {"text", "zero", "hangup"}}
        /\ rd[In] = {Master} /\ Name[c] # Zero /\ In # Absent
    BY <1>1, TwoPipes DEF UpInv, InInv
  <1>5. pc[c] # "connect"
    BY <1>1, <1>2, <1>4 DEF Connects, Waits
  <1>6. data[In] # << >>
    <2>1. CASE pc[c] \in {"text", "zero", "hangup"}
      <3>1. c \in wr[In]
        BY <1>4, <2>1
      <3> QED BY <1>1, <3>1 DEF Readable
    <2>2. CASE pc[c] \in {"response", "echo"}
      BY <1>1, <1>2, <2>2 DEF Connects, Sends
    <2> QED BY <1>1, <1>2, <1>5, <2>1, <2>2 DEF Connects, Meets
  <1>7. \/ pc[c] = "zero" /\ url = << >> /\ data[In] = <<Name[c]>>
        \/ pc[c] \in {"hangup", "response", "echo"} /\ url = << >> /\ data[In] = <<Name[c], Zero>>
        \/ pc[c] \in {"hangup", "response", "echo"} /\ url = <<Name[c]>> /\ data[In] = <<Zero>>
    BY <1>1, <1>2, <1>6 DEF Connects, Sends
  <1>8. /\ Head(<<Name[c]>>) = Name[c] /\ Head(<<Name[c], Zero>>) = Name[c] /\ Head(<<Zero>>) = Zero
        /\ Tail(<<Name[c]>>) = << >> /\ Tail(<<Name[c], Zero>>) = <<Zero>> /\ Tail(<<Zero>>) = << >>
        /\ Append(<< >>, Name[c]) = <<Name[c]>>
    OBVIOUS
  <1>9. /\ rd' = rd /\ wr' = wr /\ data'[In] = Tail(data[In])
        /\ \A i \in Pipe : i # In => data'[i] = data[i]
    BY <1>1, <1>6, TwoPipes DEF Take, TypeInv, TypeOK
  <1>10. PICK s \in {"url", "hangup"} :
           /\ \A q \in Procs : pc'[q] = IF q = Master THEN s ELSE pc[q]
           /\ \/ /\ s = "url" /\ url' = <<Name[c]>>
                 /\ \/ pc[c] = "zero" /\ data'[In] = << >>
                    \/ pc[c] \in {"hangup", "response", "echo"} /\ data'[In] = <<Zero>>
              \/ /\ s = "hangup" /\ url' = <<Name[c]>> /\ data'[In] = << >>
                 /\ pc[c] \in {"hangup", "response", "echo"}
    <2>1. Next1(In) = Head(data[In])
      BY <1>6 DEF Next1
    <2>2. CASE Next1(In) = Zero
      <3>1. /\ pc[c] \in {"hangup", "response", "echo"} /\ url = <<Name[c]>> /\ data'[In] = << >>
        BY <1>4, <1>7, <1>8, <1>9, <2>1, <2>2
      <3>2. url' = url /\ \A q \in Procs : pc'[q] = IF q = Master THEN "hangup" ELSE pc[q]
        BY <2>2 DEF ReadUrl, Goto, TypeInv, TypeOK
      <3> QED BY <3>1, <3>2
    <2>3. CASE Next1(In) # Zero
      <3>1. /\ Next1(In) = Name[c] /\ url = << >>
            /\ \/ pc[c] = "zero" /\ data'[In] = << >>
               \/ pc[c] \in {"hangup", "response", "echo"} /\ data'[In] = <<Zero>>
        BY <1>4, <1>7, <1>8, <1>9, <2>1, <2>3
      <3>2. url' = <<Name[c]>> /\ \A q \in Procs : pc'[q] = IF q = Master THEN "url" ELSE pc[q]
        BY <1>1, <1>8, <2>3, <3>1 DEF ReadUrl
      <3> QED BY <3>1, <3>2
    <2> QED BY <2>2, <2>3
  <1>11. pc'[Master] = s /\ pc'[c] = pc[c]
    BY <1>10, TwoPipes
  <1>12. Connects(c)'
    <2>1. Resp(c)' = Resp(c) /\ Resp(c) \in Pipe \ {In}
      BY <1>1, <1>2, TwoPipes DEF Resp, Response, Connects, Responds
    <2>2. Meets(c)'
      BY <1>10, <1>11 DEF Meets
    <2>3. Waits(c)'
      BY <1>1, <1>2, <1>5, <1>10, <1>11 DEF Connects, Waits, Late
    <2>4. Sends(c)'
      BY <1>10, <1>11 DEF Sends, Making, In
    <2>5. Responds(c)'
      BY <1>1, <1>2, <1>9, <1>10, <1>11, <2>1 DEF Connects, Responds, Late
    <2>6. Requests(c)'
      BY <1>11 DEF Requests, Making
    <2> QED BY <2>2, <2>3, <2>4, <2>5, <2>6 DEF Connects
  <1>13. ServeInv'
    BY <1>1, <1>11, ServeKept DEF UpInv, Making
  <1>14. \A d \in Clients : blocked'[d] \in {blocked[d], Absent}
    BY <1>1
  <1> QED BY <1>2, <1>3, <1>4, <1>9, <1>10, <1>12, <1>13, <1>14, MasterGoes

LEMMA MasterHangsUpUp ==
  ASSUME TypeInv, PairInv, UpInv, MasterHangsUp
  PROVE  UpInv'
  <1>1. /\ pc[Master] = "hangup" /\ Goto(Master, "create") /\ Close(Master, {In})
        /\ UNCHANGED <<blocked, res, req, listening, fs, url, workers, closing>>
    BY DEF MasterHangsUp, Runs, fds, files, children
  <1>2. PICK c \in Clients : InHandshake(c) /\ Connects(c)
    BY <1>1 DEF UpInv, BusyInv, Idle
  <1>3. \A d \in Clients : InHandshake(d) => d = c
    BY <1>2 DEF UpInv, OneInv
  <1>4. /\ \A q \in Procs : pc'[q] = IF q = Master THEN "create" ELSE pc[q]
        /\ pc'[Master] = "create" /\ pc'[c] = pc[c]
    BY <1>1, TwoPipes DEF Goto, TypeInv, TypeOK
  <1>5. /\ pc[c] \in {"hangup", "response", "echo"} /\ url = <<Name[c]>> /\ data[In] = << >>
        /\ Resp(c)' = Resp(c) /\ Resp(c) \in Pipe \ {In} /\ data[Resp(c)] = << >>
    BY <1>1, <1>2, TwoPipes DEF Connects, Meets, Sends, Responds, Resp, Response
  <1>6. /\ rd[In] = {Master} /\ Master \notin wr[In]
    BY <1>1, Sorts DEF UpInv, InInv
  <1>7. /\ rd'[In] = {} /\ wr'[In] = wr[In] /\ data'[In] = << >>
        /\ rd'[Resp(c)] = rd[Resp(c)] /\ wr'[Resp(c)] = wr[Resp(c)] /\ data'[Resp(c)] = << >>
    BY <1>1, <1>5, <1>6, TwoPipes DEF Close
  <1>8. Connects(c)'
    <2>1. Meets(c)' /\ Waits(c)'
      BY <1>1, <1>2, <1>4, <1>5 DEF Connects, Meets, Waits, Late
    <2>2. Sends(c)'
      BY <1>1, <1>4, <1>5, <1>7 DEF Sends, In
    <2>3. Responds(c)'
      BY <1>1, <1>2, <1>4, <1>5, <1>7 DEF Connects, Responds, Late
    <2>4. Requests(c)'
      BY <1>4 DEF Requests, Making
    <2> QED BY <2>1, <2>2, <2>3, <2>4 DEF Connects
  <1>9. ServeInv'
    BY <1>1, <1>4, ServeKept DEF UpInv, Making
  <1> QED BY <1>1, <1>2, <1>3, <1>4, <1>7, <1>8, <1>9, MasterGoes

LEMMA CreateRequestUp ==
  ASSUME TypeInv, TypeInv', PairInv, UpInv, CreateRequest
  PROVE  UpInv'
  <1> DEFINE i == npipes + 1
  <1>1. pc[Master] = "create" /\ UNCHANGED <<url, workers, closing>>
    BY DEF CreateRequest, Runs, children
  <1>2. PICK c \in Clients : InHandshake(c) /\ Connects(c)
    BY <1>1 DEF UpInv, BusyInv, Idle
  <1>3. \A d \in Clients : InHandshake(d) => d = c
    BY <1>2 DEF UpInv, OneInv
  <1>4. /\ pc[c] \in {"hangup", "response", "echo"} /\ url = <<Name[c]>> /\ data[In] = << >>
        /\ Host = Name[c] /\ Host' = Name[c] /\ Name[c] \in Names /\ workers[Name[c]] = 0
        /\ Len(url) = 1
    BY <1>1, <1>2, TwoPipes DEF Connects, Meets, Sends, Responds, Host
  <1>5. Reqs(c) = Absent /\ \A n \in Names : fs[Request(n)] # Absent => workers[n] > 0
    <2>1. \A n \in Names : fs[Request(n)] # Absent => workers[n] > 0
      BY <1>1 DEF UpInv, ServeInv, Making
    <2> QED BY <1>4, <2>1 DEF Reqs
  <1>6. /\ mkfifo(Request(Name[c])) /\ Goto(Master, "response")
        /\ UNCHANGED <<blocked, res, req, listening, rd, wr, data>>
    BY <1>4, <1>5 DEF CreateRequest, Reqs, fds, ends
  <1>7. /\ \A q \in Procs : pc'[q] = IF q = Master THEN "response" ELSE pc[q]
        /\ pc'[Master] = "response" /\ pc'[c] = pc[c]
    BY <1>6, TwoPipes DEF Goto, TypeInv, TypeOK
  <1>8. /\ Reqs(c)' = i /\ Resp(c)' = Resp(c) /\ npipes' = i /\ npipes \in Nat
        /\ \A n \in Names : n # Name[c] => fs'[Request(n)] = fs[Request(n)]
    BY <1>6, TwoPipes, Ranges DEF mkfifo, Reqs, Resp, Request, Response
  <1>9. i \in Pipe /\ i # Absent /\ i > npipes
    <2>1. npipes' \in Pipe'
      BY DEF TypeInv, TypeOK
    <2> QED BY <1>8, <2>1 DEF Pipe, MaxPipes, Absent
  <1>10. rd[i] = {} /\ wr[i] = {} /\ data[i] = << >>
    BY <1>9 DEF PairInv, FreshInv
  <1>11. Connects(c)'
    <2>1. Meets(c)' /\ Waits(c)'
      BY <1>1, <1>2, <1>4, <1>6, <1>7 DEF Connects, Meets, Waits, Late
    <2>2. Sends(c)'
      BY <1>1, <1>4, <1>6, <1>7 DEF Sends, In
    <2>3. Responds(c)'
      BY <1>1, <1>2, <1>4, <1>6, <1>7, <1>8 DEF Connects, Responds, Late
    <2>4. Requests(c)'
      BY <1>4, <1>6, <1>7, <1>8, <1>9, <1>10 DEF Requests, Making
    <2> QED BY <2>1, <2>2, <2>3, <2>4 DEF Connects
  <1>12. ServeInv'
    <2> SUFFICES \A n \in Names : fs'[Request(n)] # Absent =>
                   workers'[n] > 0 \/ (pc'[Master] \in Making /\ Host' = n)
      BY <1>7 DEF ServeInv, Request, Absent
    <2> QED BY <1>1, <1>4, <1>5, <1>7, <1>8 DEF Making
  <1>13. rd'[In] = {} /\ wr'[In] = wr[In]
    BY <1>1, <1>6 DEF UpInv, InInv
  <1>14. \A d \in Clients : blocked'[d] \in {blocked[d], Absent}
    BY <1>6
  <1> QED BY <1>2, <1>3, <1>7, <1>11, <1>12, <1>13, <1>14, MasterGoes

LEMMA OpenForEchoUp ==
  ASSUME TypeInv, PairInv, UpInv, OpenForEcho, MayHave(1)
  PROVE  UpInv'
  <1>1. pc[Master] = "response" /\ UNCHANGED <<listening, fs, url, workers, closing>>
    BY DEF OpenForEcho, Runs, files, children
  <1>2. PICK c \in Clients : InHandshake(c) /\ Connects(c)
    BY <1>1 DEF UpInv, BusyInv, Idle
  <1>3. \A d \in Clients : InHandshake(d) => d = c
    BY <1>2 DEF UpInv, OneInv
  <1> DEFINE i == Resp(c)
  <1>4. /\ pc[c] \in {"hangup", "response", "echo"} /\ url = <<Name[c]>> /\ data[In] = << >>
        /\ Host = Name[c] /\ i # Absent /\ i \in Pipe \ {In} /\ data[i] = << >> /\ wr[i] = {}
        /\ rd[i] = IF pc[c] = "echo" THEN {c} ELSE {}
        /\ blocked[c] = IF pc[c] = "echo" THEN i ELSE Absent
        /\ blocked[Master] = Absent
    BY <1>1, <1>2, TwoPipes DEF Connects, Meets, Waits, Sends, Responds, Making, Late
  <1>5. /\ OpenWrite(Master, i) /\ Goto(Master, "echo")
        /\ res' = [res EXCEPT ![Master] = i] /\ UNCHANGED req
    BY <1>4 DEF OpenForEcho, Resp
  <1>6. /\ \A q \in Procs : pc'[q] = IF q = Master THEN "echo" ELSE pc[q]
        /\ pc'[Master] = "echo" /\ pc'[c] = pc[c] /\ res'[c] = res[c] /\ res'[Master] = i
        /\ Resp(c)' = Resp(c) /\ Reqs(c)' = Reqs(c)
    BY <1>1, <1>5, TwoPipes DEF Goto, TypeInv, TypeOK, Resp, Reqs, Request, Response
  <1>7. /\ rd' = rd /\ data' = data /\ wr'[i] = {Master}
        /\ \A j \in Pipe : j # i => wr'[j] = wr[j]
    <2>1. wr' = [wr EXCEPT ![i] = @ \cup {Master}] /\ rd' = rd /\ data' = data
      BY <1>5 DEF OpenWrite
    <2> QED BY <1>4, <2>1, Ranges
  <1>8. /\ blocked'[Master] = IF pc[c] = "echo" THEN Absent ELSE i
        /\ blocked'[c] = Absent
        /\ \A d \in Clients : blocked'[d] \in {blocked[d], Absent}
    BY <1>4, <1>5, TwoPipes, Sorts DEF OpenWrite, Open
  <1>9. Connects(c)'
    <2>1. Meets(c)' /\ Waits(c)'
      BY <1>4, <1>6, <1>8 DEF Meets, Waits, Late
    <2>2. Sends(c)'
      BY <1>1, <1>4, <1>6, <1>7 DEF Sends, Making, In
    <2>3. Responds(c)'
      BY <1>1, <1>2, <1>4, <1>6, <1>7 DEF Connects, Responds, Late
    <2>4. Requests(c)'
      <3>1. Reqs(c) \in Pipe /\ Reqs(c) # i
        BY <1>1, <1>2, <1>4, TwoPipes DEF Connects, Requests, Making
      <3> QED BY <1>1, <1>2, <1>5, <1>6, <1>7, <3>1 DEF Connects, Requests, Making
    <2> QED BY <2>1, <2>2, <2>3, <2>4 DEF Connects
  <1>10. ServeInv'
    BY <1>1, <1>6, ServeKept DEF UpInv, Making
  <1>11. rd'[In] = {} /\ wr'[In] = wr[In]
    BY <1>1, <1>4, <1>7, TwoPipes DEF UpInv, InInv
  <1> QED BY <1>2, <1>3, <1>6, <1>8, <1>9, <1>10, <1>11, MasterGoes

LEMMA WriteEchoUp ==
  ASSUME TypeInv, PairInv, UpInv, WriteEcho
  PROVE  UpInv'
  <1>1. /\ pc[Master] = "echo" /\ blocked[Master] = Absent
        /\ UNCHANGED <<listening, fs, url, workers, closing>>
    BY DEF WriteEcho, Runs, files, children
  <1>2. PICK c \in Clients : InHandshake(c) /\ Connects(c)
    BY <1>1 DEF UpInv, BusyInv, Idle
  <1>3. \A d \in Clients : InHandshake(d) => d = c
    BY <1>2 DEF UpInv, OneInv
  <1> DEFINE i == Resp(c)
  <1>4. /\ i # Absent /\ i \in Pipe \ {In} /\ res[Master] = i /\ i # Reqs(c)
        /\ Reqs(c) \in Pipe
    BY <1>1, <1>2, TwoPipes DEF Connects, Responds, Requests, Making, Late
  <1>5. pc[c] = "echo"
    BY <1>1, <1>2, <1>4 DEF Connects, Waits
  <1>6. /\ url = <<Name[c]>> /\ data[In] = << >> /\ Text = Name[c]
        /\ data[i] = << >> /\ rd[i] = {c} /\ blocked[c] = Absent
    BY <1>1, <1>2, <1>5, TwoPipes DEF Connects, Waits, Sends, Responds, Making, Late
  <1>7. Append(<< >>, Name[c]) = <<Name[c]>>
    OBVIOUS
  <1>8. /\ \A q \in Procs : pc'[q] = IF q = Master THEN "request" ELSE pc[q]
        /\ UNCHANGED <<rd, wr, blocked, res, req>>
        /\ data'[i] = <<Name[c]>> /\ \A j \in Pipe : j # i => data'[j] = data[j]
    <2>1. Write(i, Name[c]) /\ Goto(Master, "request") /\ UNCHANGED <<blocked, fds>>
      BY <1>4, <1>6 DEF WriteEcho, Send
    <2> QED BY <1>4, <1>6, <1>7, <2>1 DEF Goto, Write, fds, TypeInv, TypeOK
  <1>9. /\ pc'[Master] = "request" /\ pc'[c] = pc[c]
        /\ Resp(c)' = Resp(c) /\ Reqs(c)' = Reqs(c)
    BY <1>1, <1>8, TwoPipes DEF Resp, Reqs, Request, Response
  <1>10. Connects(c)'
    <2>1. Meets(c)' /\ Waits(c)'
      BY <1>1, <1>5, <1>6, <1>8, <1>9 DEF Meets, Waits, Late
    <2>2. Sends(c)'
      BY <1>1, <1>4, <1>6, <1>8, <1>9, TwoPipes DEF Sends, Making, In
    <2>3. Responds(c)'
      BY <1>1, <1>2, <1>5, <1>8, <1>9 DEF Connects, Responds, Late
    <2>4. Requests(c)'
      BY <1>1, <1>2, <1>4, <1>8, <1>9 DEF Connects, Requests, Making
    <2> QED BY <2>1, <2>2, <2>3, <2>4 DEF Connects
  <1>11. ServeInv'
    BY <1>1, <1>9, ServeKept DEF UpInv, Making
  <1>12. rd'[In] = {} /\ wr'[In] = wr[In]
    BY <1>1, <1>8 DEF UpInv, InInv
  <1>13. \A d \in Clients : blocked'[d] \in {blocked[d], Absent}
    BY <1>8
  <1> QED BY <1>2, <1>3, <1>8, <1>10, <1>11, <1>12, <1>13, MasterGoes

LEMMA OpenForAckUp ==
  ASSUME TypeInv, PairInv, UpInv, OpenForAck, MayHave(2)
  PROVE  UpInv'
  <1>1. /\ pc[Master] = "request" /\ blocked[Master] = Absent
        /\ UNCHANGED <<listening, fs, url, workers, closing>>
    BY DEF OpenForAck, Runs, files, children
  <1>2. PICK c \in Clients : InHandshake(c) /\ Connects(c)
    BY <1>1 DEF UpInv, BusyInv, Idle
  <1>3. \A d \in Clients : InHandshake(d) => d = c
    BY <1>2 DEF UpInv, OneInv
  <1> DEFINE j == Reqs(c)
  <1>4. /\ pc[c] \in {"echo", "request", "ack"} /\ url = <<Name[c]>> /\ data[In] = << >>
        /\ Host = Name[c] /\ j # Absent /\ j \in Pipe \ {In}
        /\ Resp(c) \in Pipe \ {In} /\ Resp(c) # j
        /\ data[j] = << >> /\ rd[j] = {}
        /\ wr[j] = IF pc[c] = "ack" THEN {c} ELSE {}
        /\ blocked[c] = IF pc[c] = "ack" THEN j ELSE Absent
        /\ pc[c] = "ack" => req[c] = j
    BY <1>1, <1>2, TwoPipes DEF Connects, Meets, Waits, Sends, Responds, Requests, Making, Late
  <1>5. /\ OpenRead(Master, j) /\ Goto(Master, "ack")
        /\ req' = [req EXCEPT ![Master] = j] /\ UNCHANGED res
    BY <1>4 DEF OpenForAck, Reqs
  <1>6. /\ \A q \in Procs : pc'[q] = IF q = Master THEN "ack" ELSE pc[q]
        /\ pc'[Master] = "ack" /\ pc'[c] = pc[c] /\ req'[c] = req[c] /\ req'[Master] = j
        /\ Resp(c)' = Resp(c) /\ Reqs(c)' = j
    BY <1>1, <1>5, TwoPipes DEF Goto, TypeInv, TypeOK, Resp, Reqs, Request, Response
  <1>7. /\ wr' = wr /\ data' = data /\ rd'[j] = {Master}
        /\ \A i \in Pipe : i # j => rd'[i] = rd[i]
    <2>1. rd' = [rd EXCEPT ![j] = @ \cup {Master}] /\ wr' = wr /\ data' = data
      BY <1>5 DEF OpenRead
    <2> QED BY <1>4, <2>1, Ranges
  <1>8. /\ blocked'[Master] = IF pc[c] = "ack" THEN Absent ELSE j
        /\ blocked'[c] = Absent
        /\ \A d \in Clients : blocked'[d] \in {blocked[d], Absent}
    BY <1>4, <1>5, TwoPipes, Sorts DEF OpenRead, Open
  <1>9. Connects(c)'
    <2>1. Meets(c)' /\ Waits(c)'
      BY <1>4, <1>6, <1>8 DEF Meets, Waits, Late
    <2>2. Sends(c)'
      BY <1>1, <1>4, <1>6, <1>7 DEF Sends, Making, In
    <2>3. Responds(c)'
      BY <1>1, <1>2, <1>4, <1>5, <1>6, <1>7 DEF Connects, Responds, Late
    <2>4. Requests(c)'
      BY <1>4, <1>6, <1>7 DEF Requests, Making
    <2> QED BY <2>1, <2>2, <2>3, <2>4 DEF Connects
  <1>10. ServeInv'
    BY <1>1, <1>6, ServeKept DEF UpInv, Making
  <1>11. rd'[In] = {} /\ wr'[In] = wr[In]
    BY <1>1, <1>4, <1>7, TwoPipes DEF UpInv, InInv
  <1> QED BY <1>2, <1>3, <1>6, <1>8, <1>9, <1>10, <1>11, MasterGoes

\* The acknowledgement is the client's last step: it has connected by then.
LEMMA ReadAckUp ==
  ASSUME ~ForkMayBeMissing, TypeInv, PairInv, UpInv, ReadAck
  PROVE  UpInv'
  <1> DEFINE j == req[Master]
  <1>1. /\ pc[Master] = "ack" /\ blocked[Master] = Absent /\ Readable(j)
        /\ UNCHANGED <<listening, fs, url, closing>>
    BY DEF ReadAck, Runs, files
  <1>2. \A c \in Clients : InHandshake(c) => ~Connects(c)
    <2> SUFFICES ASSUME NEW c \in Clients, InHandshake(c), Connects(c) PROVE FALSE
      OBVIOUS
    <2>1. j = Reqs(c) /\ Reqs(c) # Absent
      BY <1>1 DEF Connects, Requests, Making
    <2>2. pc[c] = "ack"
      BY <1>1, <2>1 DEF Connects, Waits
    <2>3. data[j] = << >> /\ wr[j] = {c}
      BY <1>1, <2>1, <2>2 DEF Connects, Requests, Making
    <2> QED BY <1>1, <2>3 DEF Readable
  <1>3. (\A c \in Clients : ~InHandshake(c)) /\ Idle
    BY <1>2 DEF UpInv, BusyInv
  <1>4. data[j] = <<Text>> /\ Text = Host /\ data[In] = << >> /\ Host \in Names
    BY <1>1, <1>3 DEF Idle, TypeInv, HostInv, Known
  <1>5. j \in Pipe \ {In} /\ res[Master] \in Pipe \ {In}
    BY <1>1, Ranges, Sorts DEF PairInv, EchoInv, Late
  <1>6. Next1(j) = Text
    BY <1>4 DEF Next1
  <1>7. /\ rd' = [rd EXCEPT ![j] = (@ \ {Master}) \cup {Forked}]
        /\ wr' = [wr EXCEPT ![res[Master]] = (@ \ {Master}) \cup {Forked}]
        /\ data' = [data EXCEPT ![j] = Tail(@)]
        /\ workers' = [workers EXCEPT ![Host] = @ + 1]
        /\ Goto(Master, "accept") /\ UNCHANGED blocked
    BY <1>6 DEF ReadAck, Fork
  <1>8. /\ \A q \in Procs : pc'[q] = IF q = Master THEN "accept" ELSE pc[q]
        /\ pc'[Master] = "accept" /\ data'[In] = << >>
    BY <1>4, <1>5, <1>7, Sorts DEF Goto, TypeInv, TypeOK
  <1>9. rd'[In] = rd[In] /\ wr'[In] = wr[In] /\ rd[In] = {}
    BY <1>1, <1>5, <1>7, Sorts, Ranges DEF UpInv, InInv
  <1>10. \A n \in Names : workers'[n] = IF n = Host THEN workers[n] + 1 ELSE workers[n]
    BY <1>4, <1>7 DEF TypeInv, TypeOK
  <1>11. ServeInv'
    <2>1. \A n \in Names : fs[Request(n)] # Absent => workers[n] > 0 \/ Host = n
      BY DEF UpInv, ServeInv
    <2>2. \A n \in Names : workers[n] \in Nat
      BY DEF TypeInv, TypeOK
    <2>3. \A n \in Names : fs[Request(n)] # Absent => workers'[n] > 0
      BY <1>10, <2>1, <2>2
    <2> QED BY <1>1, <1>8, <2>3 DEF ServeInv, Request, Absent
  <1>12. Idle'
    BY <1>1, <1>7, <1>8 DEF Idle, In
  <1>13. \A d \in Clients : blocked'[d] \in {blocked[d], Absent}
    BY <1>7
  <1> QED BY <1>3, <1>8, <1>9, <1>11, <1>12, <1>13, MasterGoes

LEMMA InitUp == Init => UpInv
  <1> SUFFICES ASSUME Init PROVE UpInv
    OBVIOUS
  <1>1. /\ \A f \in Paths : fs[f] = Absent
        /\ \A p \in Procs : blocked[p] = Absent
        /\ \A i \in Pipe : rd[i] = {} /\ wr[i] = {} /\ data[i] = << >>
        /\ \A c \in Clients : pc[c] = "prompt"
        /\ pc[Master] = "listen" /\ listening = FALSE
    BY Sorts DEF Init
  <1>2. InInv /\ OneInv
    BY <1>1, Sorts DEF InInv, OneInv, InHandshake
  <1>3. ServeInv
    BY <1>1, Sorts DEF ServeInv, Paths, Request
  <1>4. BusyInv
    BY <1>1, Sorts DEF BusyInv, Idle, InHandshake
  <1> QED BY <1>2, <1>3, <1>4 DEF UpInv

\* The end for want of descriptors.
Full == pc[Master] = "exited" /\ ~MayHave(2)

LEMMA EndsFull ==
  ASSUME TypeInv, Ends(Master), kept' = kept, ~MayHave(1) \/ ~MayHave(2)
  PROVE  Full'
  <1>1. pc'[Master] = "exited"
    BY Sorts DEF Ends, Goto, TypeInv, TypeOK
  <1>2. kept \in Nat /\ MaxFiles \in Nat
    BY HandshakeAssumption DEF TypeInv, TypeOK
  <1> QED BY <1>1, <1>2 DEF Full, MayHave

LEMMA FullKept ==
  ASSUME Orderly = TRUE, TypeInv, Full, [Next]_vars
  PROVE  Full'
  <1>1. SUFFICES pc'[Master] = pc[Master] /\ kept' = kept
    BY DEF Full, MayHave
  <1>2. ASSUME NEW p \in Procs, Ends(p)
        PROVE  pc'[Master] = pc[Master]
    BY <1>2, Sorts DEF Ends, Goto, Full, TypeInv, TypeOK
  <1>3. CASE MasterSteps
    BY <1>3 DEF Full, MasterSteps, comm_listen, comm_accept, OpenConnectionFile, ReadUrl,
       MasterHangsUp, CreateRequest, OpenForEcho, WriteEcho, WriteRest, OpenForAck, ReadAck, Runs
  <1>4. ASSUME NEW c \in Clients,
               CreateResponse(c) \/ connection_open(c) \/ ClientCloses(c) \/ ClientUnlinks(c)
        PROVE  pc'[Master] = pc[Master] /\ kept' = kept
    <2>1. c \in Procs /\ c # Master
      BY Sorts
    <2>2. kept' = kept
      BY <1>4 DEF CreateResponse, connection_open, Connect, WriteUrl, HangUp, OpenResponse, ReadEcho,
         OpenRequest, WriteAck, ClientCloses, ClientUnlinks, children
    <2>3. ASSUME NEW s, Goto(c, s)
          PROVE  pc'[Master] = pc[Master]
      BY <2>1, <2>3 DEF Goto, TypeInv, TypeOK
    <2>4. CASE CreateResponse(c) \/ Connect(c) \/ WriteUrl(c) \/ HangUp(c)
      BY <1>2, <2>1, <2>2, <2>3, <2>4 DEF CreateResponse, Connect, WriteUrl, HangUp, Send
    <2>5. CASE OpenResponse(c) \/ ReadEcho(c) \/ OpenRequest(c) \/ WriteAck(c)
      BY <1>2, <2>1, <2>2, <2>3, <2>5 DEF OpenResponse, ReadEcho, OpenRequest, WriteAck, Send
    <2>6. CASE ClientCloses(c) \/ ClientUnlinks(c)
      BY <1>2, <2>1, <2>2, <2>3, <2>6 DEF ClientCloses, ClientUnlinks
    <2> QED BY <1>4, <2>4, <2>5, <2>6 DEF connection_open
  <1>5. CASE \E n \in Names : WorkerCloses(n) \/ WorkerUnlinks(n)
    BY <1>5 DEF WorkerCloses, WorkerUnlinks
  <1>6. CASE \E p \in Procs : Killed(p) \/ Restart(p)
    BY <1>2, <1>6, Sorts DEF Killed, Restart, Goto, children, TypeInv, TypeOK
  <1>7. CASE UNCHANGED vars
    BY <1>7 DEF vars, children
  <1> QED BY <1>3, <1>4, <1>5, <1>6, <1>7 DEF Next

LEMMA NextUp ==
  ASSUME OwnNames, Orderly = TRUE, Mortal = {}, ForkMayFail = FALSE,
         TypeInv, TypeInv', PairInv, UpInv, [Next]_vars
  PROVE  UpInv' \/ Full'
  <1>1. CASE MasterSteps
    <2>1. CASE OpenConnectionFile
      <3>1. CASE ~MayHave(1)
        BY <2>1, <3>1, EndsFull DEF OpenConnectionFile, children
      <3> QED BY <2>1, <3>1, OpenConnectionFileUp
    <2>2. CASE OpenForEcho
      <3>1. CASE ~MayHave(1)
        BY <2>2, <3>1, EndsFull DEF OpenForEcho, children
      <3> QED BY <2>2, <3>1, OpenForEchoUp
    <2>3. CASE OpenForAck
      <3>1. CASE ~MayHave(2)
        BY <2>3, <3>1, EndsFull DEF OpenForAck, children
      <3> QED BY <2>3, <3>1, OpenForAckUp
    <2>4. ~WriteRest
      <3>1. ASSUME pc[Master] = "request"
            PROVE  Len(url) = 1
        BY <3>1, TwoPipes DEF UpInv, BusyInv, Idle, Connects, Sends, Making
      <3>2. WriteRest => pc[Master] = "request" /\ Len(url) > 1
        BY DEF WriteRest, Runs
      <3> QED BY <3>1, <3>2
    <2>5. ~ForkMayBeMissing
      BY DEF ForkMayBeMissing
    <2> QED BY <1>1, <2>1, <2>2, <2>3, <2>4, <2>5, ListenUp, ReadUrlUp, MasterHangsUpUp,
               CreateRequestUp, WriteEchoUp, ReadAckUp DEF MasterSteps, comm_accept
  <1>2. CASE \E c \in Clients :
               CreateResponse(c) \/ connection_open(c) \/ ClientCloses(c) \/ ClientUnlinks(c)
    <2>1. PICK c \in Clients :
            CreateResponse(c) \/ connection_open(c) \/ ClientCloses(c) \/ ClientUnlinks(c)
      BY <1>2
    <2>2. CASE connection_open(c)
      BY <2>2, ConnectUp, WriteUrlUp, HangUpUp, OpenResponseUp, ReadEchoUp, OpenRequestUp,
         WriteAckUp DEF connection_open
    <2> QED BY <2>1, <2>2, CreateResponseUp, ClientClosesUp, ClientUnlinksUp
  <1>3. CASE \E n \in Names : WorkerCloses(n) \/ WorkerUnlinks(n)
    BY <1>3, WorkerUp
  <1>4. CASE \E p \in Procs : Killed(p) \/ Restart(p)
    BY <1>4, RestartUp DEF Killed
  <1>5. CASE UNCHANGED vars
    <2>1. UNCHANGED <<pc, blocked, res, req, listening, fs, rd, wr, data, url, workers, closing>>
      BY <1>5 DEF vars, fds, files, ends, children
    <2>2. \A d \in Clients : ~InHandshake(d) => pc'[d] \in {"prompt", "open", "unlink", "exited"}
      BY <2>1 DEF InHandshake
    <2> QED BY <2>1, <2>2, QuietUp
  <1> QED BY <1>1, <1>2, <1>3, <1>4, <1>5 DEF Next

\* The master leaves its loop (main.c 183-193) for want of descriptors only, if
\* nobody is killed, fork does not fail, names are the clients' own, and a user
\* opens a connection only when nobody else is about to, the master waits for one
\* and the worker of that name has ended: whatever clients in a session, workers
\* and those who start a client again do.  The end it does meet is its own doing,
\* two descriptors for each connection (main.c 202-266).
THEOREM MasterServes ==
  ASSUME OwnNames, Orderly = TRUE, Mortal = {}, ForkMayFail = FALSE
  PROVE  Spec => []MasterStaysUp
  <1> DEFINE IInv == PairInv /\ ShareInv /\ ReaderInv /\ (UpInv \/ Full)
  <1>1. Init => IInv
    BY InitPairs, InitShare, InitUp
  <1>2. TypeInv /\ TypeInv' /\ IInv /\ [Next]_vars => IInv'
    BY NextPairs, NextUp, FullKept DEF FewNames
  <1>3. IInv => MasterStaysUp
    BY DEF UpInv, BusyInv, Idle, Connects, Meets, MasterStaysUp, Full
  <1> QED BY <1>1, <1>2, <1>3, AlwaysTypes, PTL DEF Spec
=============================================================================
