------------------------------ MODULE SqlPipe ------------------------------
(***************************************************************************)
(* The database server process and the two pipes that every worker         *)
(* inherits (lib/sqlite/sqlite.c).  A worker writes its query byte by byte *)
(* and then reads lines up to the end mark; the server collects bytes up   *)
(* to a semicolon or to its limit, executes them and writes the rows and   *)
(* the end mark.  The mutex around the writing belongs to each process, so *)
(* it keeps out nobody else; inside a worker the responders' lock already  *)
(* lets only one thread ask.  Names, passwords and aliases stand in the    *)
(* queries as the client typed them (server/sql_helpers.c), so any byte of *)
(* a query may be a semicolon.  The content of the database is shared, so  *)
(* the number of rows is a choice.                                         *)
(***************************************************************************)
EXTENDS Integers, Sequences, FiniteSets

CONSTANTS
  Workers,         \* worker processes that share the pipes
  MaxQueries,      \* bound: queries per worker
  MaxTotal,        \* bound: queries of all workers together
  Lengths,         \* lengths a query may have, its semicolon included
  Limit,           \* bytes the server reads at most for one query: 101
  MaxRows,         \* bound: rows of an answer
  WorkersMayDie    \* may a worker end in the middle of a query?

ASSUME SqlAssumption ==
  /\ MaxQueries \in Nat /\ MaxTotal \in Nat /\ MaxRows \in Nat
  /\ Limit \in Nat \ {0}
  /\ Lengths \subseteq Nat \ {0}
  /\ WorkersMayDie \in BOOLEAN

VARIABLES
  asked, outcome, result,  \* as in SqlService; outcome is a history variable
  disturbed,  \* history: "yes" once queries overlapped, were cut or too long
  wpc,      \* per worker: idle, writing its query, reading the answer
  len,      \* per worker: length of its query
  written,  \* per worker: written_bytes
  line,     \* per worker: the line it is reading
  first,    \* per worker: asn_vector[0], "none" before the first line
  qpipe,    \* bytes of queries on their way to the server
  apipe,    \* the answers: contents of lines and newlines
  spc,      \* server: reading a query or executing it
  buffer    \* server: query_buffer

service == <<asked, outcome, result>>
caller == <<wpc, len, written, line, first>>
server == <<spc, buffer>>
vars == <<service, disturbed, caller, qpipe, apipe, server>>

Service == INSTANCE SqlService WITH broken <- disturbed

Queries == Service!Queries
Bytes == [worker : Workers, query : Queries, pos : Nat, semicolon : BOOLEAN,
          last : BOOLEAN]

Asked == {q \in Workers \X Queries : q[2] <= asked[q[1]]}

Init ==
  /\ Service!SInit
  /\ wpc = [w \in Workers |-> "idle"]
  /\ len = [w \in Workers |-> 0]
  /\ written = [w \in Workers |-> 0]
  /\ line = [w \in Workers |-> <<>>]
  /\ first = [w \in Workers |-> "none"]
  /\ qpipe = <<>> /\ apipe = <<>>
  /\ spc = "read" /\ buffer = <<>>

-----------------------------------------------------------------------------
(* A worker.                                                               *)

\* A handler asks the database: the call of run_sqlite_query.  Nothing keeps
\* it from doing so in the middle of another worker's call, or with more
\* bytes than the server takes for one query.
AskQuery(w) ==
  /\ wpc[w] = "idle" /\ asked[w] < MaxQueries /\ Cardinality(Asked) < MaxTotal
  /\ asked' = [asked EXCEPT ![w] = @ + 1]
  /\ \E l \in Lengths :
       /\ len' = [len EXCEPT ![w] = l]
       /\ disturbed' = IF l > Limit \/ \E v \in Workers : wpc[v] # "idle"
                       THEN "yes" ELSE disturbed
  /\ written' = [written EXCEPT ![w] = 0]
  /\ wpc' = [wpc EXCEPT ![w] = "write"]
  /\ UNCHANGED <<outcome, result, line, first, qpipe, apipe, server>>

\* The next byte of the query: its last one is a semicolon, and so is any
\* other that stands for one in the client's text.
WriteByte(w) ==
  /\ wpc[w] = "write"
  /\ LET pos == written[w] + 1
     IN  /\ \E s \in {TRUE, pos = len[w]} :
              /\ qpipe' = Append(qpipe,
                             [worker |-> w, query |-> asked[w], pos |-> pos,
                              semicolon |-> s, last |-> pos = len[w]])
              /\ disturbed' = IF s /\ pos # len[w] THEN "yes" ELSE disturbed
         /\ written' = [written EXCEPT ![w] = pos]
         /\ wpc' = [wpc EXCEPT ![w] = IF pos < len[w] THEN "write" ELSE "read"]
  /\ line' = [line EXCEPT ![w] = <<>>]
  /\ first' = [first EXCEPT ![w] = "none"]
  /\ UNCHANGED <<service, len, apipe, server>>

\* Part of a line.
ReadText(w) ==
  /\ wpc[w] = "read" /\ apipe # <<>> /\ Head(apipe) # "newline"
  /\ line' = [line EXCEPT ![w] = Append(@, Head(apipe))]
  /\ apipe' = Tail(apipe)
  /\ UNCHANGED <<service, disturbed, wpc, len, written, first, qpipe, server>>

\* Mutant: the newline stays in the line, so the end mark is never recognised.
LineWithNewline(w) == "row"

\* The line just read; only "END" by itself is the end mark.
LineRead(w) == IF line[w] = <<"END">> THEN "END" ELSE "row"

\* Mutant: the last line is returned instead of asn_vector[0].
LastLine(w) == LineRead(w)
FirstLine(w) == IF first[w] = "none" THEN LineRead(w) ELSE first[w]

\* The end of a line; the end mark ends the call, which returns asn_vector[0].
ReadNewline(w) ==
  /\ wpc[w] = "read" /\ apipe # <<>> /\ Head(apipe) = "newline"
  /\ apipe' = Tail(apipe)
  /\ line' = [line EXCEPT ![w] = <<>>]
  /\ first' = [first EXCEPT ![w] = FirstLine(w)]
  /\ IF LineRead(w) = "END"
     THEN /\ wpc' = [wpc EXCEPT ![w] = "idle"]
          /\ result' = [result EXCEPT ![w][asked[w]] = FirstLine(w)]
     ELSE UNCHANGED <<wpc, result>>
  /\ UNCHANGED <<asked, outcome, disturbed, len, written, qpipe, server>>

\* The worker is killed, or exits while a responder is in a query; the master
\* forks another one for the next client, which inherits the same pipes.
WorkerDies(w) ==
  /\ WorkersMayDie
  /\ wpc[w] # "idle"
  /\ wpc' = [wpc EXCEPT ![w] = "idle"]
  /\ disturbed' = "yes"
  /\ UNCHANGED <<service, len, written, line, first, qpipe, apipe, server>>

-----------------------------------------------------------------------------
(* The server (init_sqlite_server).                                        *)

\* Mutants: no limit; the loop ends one byte early.
QueryEndsAtSemicolon(b) == b.semicolon
QueryEndsEarly(b) == b.semicolon \/ Len(buffer) + 2 >= Limit

\* do { read(...) } while (strcmp(";", aux) && q++ < 100)
QueryEnds(b) == b.semicolon \/ Len(buffer) + 1 >= Limit

ReadQueryByte ==
  /\ spc = "read" /\ qpipe # <<>>
  /\ buffer' = Append(buffer, Head(qpipe))
  /\ qpipe' = Tail(qpipe)
  /\ spc' = IF QueryEnds(Head(qpipe)) THEN "exec" ELSE "read"
  /\ UNCHANGED <<service, disturbed, caller, apipe>>

\* The buffer is one worker's query, complete and in order.
Whole ==
  /\ buffer[Len(buffer)].last
  /\ \A k \in 1 .. Len(buffer) :
       /\ buffer[k].pos = k
       /\ buffer[k].worker = buffer[1].worker
       /\ buffer[k].query = buffer[1].query

RowLines(n) == [k \in 1 .. 2 * n |-> IF k % 2 = 1 THEN "row" ELSE "newline"]

\* sqlite3_exec, the rows through callback, then the end mark.  A piece of a
\* query or a mixture is a syntax error, or another statement by accident.
ExecuteQuery ==
  /\ spc = "exec"
  /\ \E n \in 0 .. MaxRows :
       /\ apipe' = apipe \o RowLines(n) \o <<"END", "newline">>
       /\ outcome' =
            IF Whole
            THEN [outcome EXCEPT ![buffer[1].worker][buffer[1].query] =
                    IF n > 0 THEN "row" ELSE "END"]
            ELSE outcome
  /\ spc' = "read"
  /\ buffer' = <<>>
  /\ UNCHANGED <<asked, result, disturbed, caller, qpipe>>

-----------------------------------------------------------------------------
Caller(w) == WriteByte(w) \/ ReadText(w) \/ ReadNewline(w)
DbServer == ReadQueryByte \/ ExecuteQuery

Next == \/ \E w \in Workers : AskQuery(w) \/ Caller(w) \/ WorkerDies(w)
        \/ DbServer

Spec == Init /\ [][Next]_vars

\* Both sides are scheduled; nobody has to ask.
FairSpec == Spec /\ WF_vars(DbServer) /\ \A w \in Workers : WF_vars(Caller(w))

-----------------------------------------------------------------------------
(* Properties.                                                             *)

\* Types; whatever bytes the workers mix into the pipe, query_buffer never
\* holds more than the limit, so strcat stays inside MAX_QUERY_LENGTH.
TypeOK ==
  /\ disturbed \in {"yes", "no"}
  /\ wpc \in [Workers -> {"idle", "write", "read"}]
  /\ len \in [Workers -> Lengths \cup {0}]
  /\ written \in [Workers -> Nat]
  /\ first \in [Workers -> Service!Results \cup {"none"}]
  /\ line \in [Workers -> Seq({"row", "END"})]
  /\ qpipe \in Seq(Bytes)
  /\ apipe \in Seq({"row", "END", "newline"})
  /\ spc \in {"read", "exec"}
  /\ buffer \in Seq(Bytes) /\ Len(buffer) <= Limit

\* Workers that take turns, with queries within the limit whose texts hold no
\* semicolon, find nothing left over in the pipes or in the server: each query
\* ends up in one execution and one end mark, whoever asked before (sqlite.c
\* 55-75, 190-216).
InStep ==
  disturbed = "no" /\ (\A w \in Workers : wpc[w] = "idle") =>
    qpipe = <<>> /\ apipe = <<>> /\ buffer = <<>>

\* For workers that take turns, with queries within the limit whose texts hold
\* no semicolon, the two pipes implement an atomic call: a query is executed
\* once, whole, and the call returns what that execution yielded, nobody else's
\* answer and none left over (sqlite.c 36-76).
ImplementsService == Service!SSpec

\* Every query returns, unless queries have been mixed or cut.
QueryReturns ==
  \A w \in Workers : wpc[w] # "idle" ~> wpc[w] = "idle" \/ disturbed = "yes"
=============================================================================
