--------------------------- MODULE SqlPipeProofs ---------------------------
(***************************************************************************)
(* Theorems about SqlPipe, for every set of workers, every limit and every *)
(* length of a query or an answer: the types, and that the two pipes       *)
(* implement SqlService.                                                   *)
(***************************************************************************)
EXTENDS SqlPipe, TLAPS

Active(w) == wpc[w] # "idle"

ServiceType ==
  /\ asked \in [Workers -> 0 .. MaxQueries]
  /\ outcome \in [Workers -> [Queries -> Service!Results \cup {"none"}]]
  /\ result \in [Workers -> [Queries -> Service!Results \cup {"none"}]]

\* Who is in a call has asked a query of some length; the server goes on
\* reading only below its limit and executes something.
CallInv ==
  /\ \A w \in Workers : Active(w) => asked[w] \in Queries /\ len[w] \in Lengths
  /\ spc = "read" => Len(buffer) < Limit
  /\ spc = "exec" => buffer # <<>>

\* The k-th byte that w writes.
IsByte(b, w, k) ==
  /\ b.worker = w /\ b.query = asked[w] /\ b.pos = k
  /\ b.semicolon <=> k = len[w]
  /\ b.last <=> k = len[w]

\* Before its execution a query is, in order, in the server's buffer and in the
\* pipe, and nothing else is.
Asking(w) ==
  /\ outcome[w][asked[w]] = "none"
  /\ apipe = <<>>
  /\ written[w] = Len(buffer) + Len(qpipe)
  /\ \A k \in 1 .. Len(buffer) : IsByte(buffer[k], w, k)
  /\ \A k \in 1 .. Len(qpipe) : IsByte(qpipe[k], w, Len(buffer) + k)
  /\ wpc[w] = "write" => written[w] < len[w]
  /\ wpc[w] = "read" => written[w] = len[w] /\ line[w] = <<>> /\ first[w] = "none"
  /\ spc = "read" => Len(buffer) < len[w]
  /\ spc = "exec" => Len(buffer) = len[w]

\* What stands in an answer, counted from its end.
Mark(d) == IF d % 2 = 0 THEN "newline" ELSE IF d = 1 THEN "END" ELSE "row"

\* After its execution the rest of its answer is in the other pipe, and the
\* first line, read or to be read, is what the execution yielded.
Answering(w) ==
  /\ wpc[w] = "read" /\ qpipe = <<>> /\ buffer = <<>> /\ spc = "read"
  /\ Len(apipe) >= 1
  /\ \A k \in 1 .. Len(apipe) : apipe[k] = Mark(Len(apipe) - k)
  /\ Len(apipe) % 2 = 0 => line[w] = <<>>
  /\ Len(apipe) % 2 = 1 => line[w] = <<IF Len(apipe) = 1 THEN "END" ELSE "row">>
  /\ outcome[w][asked[w]] = IF first[w] # "none" THEN first[w]
                            ELSE IF Len(apipe) >= 3 THEN "row" ELSE "END"

NothingLeft == qpipe = <<>> /\ apipe = <<>> /\ buffer = <<>> /\ spc = "read"

\* While nobody has disturbed the calls, at most one worker is in one, and the
\* pipes hold its call and nothing else.
TurnInv ==
  disturbed = "no" =>
    /\ \A w \in Workers, v \in Workers : Active(w) /\ Active(v) => w = v
    /\ \A w \in Workers : ~Active(w) => Service!Returned(w)
    /\ \A w \in Workers, n \in Queries :
         n > asked[w] => outcome[w][n] = "none" /\ result[w][n] = "none"
    /\ (\A w \in Workers : ~Active(w)) => NothingLeft
    /\ \A w \in Workers : Active(w) =>
         /\ len[w] <= Limit /\ result[w][asked[w]] = "none"
         /\ Asking(w) \/ Answering(w)

Inv == TypeOK /\ ServiceType /\ CallInv /\ TurnInv

-----------------------------------------------------------------------------
\* One worker and one query at least, if there is a call; the values that are
\* not an answer are none of the answers.
LEMMA Constants ==
  /\ Queries = 1 .. MaxQueries
  /\ Service!Results = {"row", "END"}
  /\ MaxQueries \in Nat /\ Limit \in Nat \ {0} /\ Lengths \subseteq Nat \ {0}
  BY SqlAssumption DEF Queries, Service!Queries, Service!Results

\* The pipes and the workers start with nothing asked.
LEMMA InitInv == Init => Inv
  <1> SUFFICES ASSUME Init PROVE Inv
    OBVIOUS
  <1> USE Constants DEF Init, Service!SInit, Service!Queries, Queries
  <1>1. TypeOK
    BY DEF TypeOK
  <1>2. ServiceType
    BY DEF ServiceType
  <1>3. CallInv
    BY DEF CallInv, Active
  <1>4. TurnInv
    BY DEF TurnInv, Active, NothingLeft, Service!Returned
  <1> QED BY <1>1, <1>2, <1>3, <1>4 DEF Inv

\* A call of run_sqlite_query by a worker that nobody's call precedes finds
\* nothing left over (sqlite.c 36-46).
LEMMA AskStep ==
  ASSUME Inv, NEW w \in Workers, AskQuery(w)
  PROVE  Inv'
  <1> USE Constants
  <1> USE DEF Inv, service, caller, server
  <1>1. PICK l \in Lengths :
          /\ len' = [len EXCEPT ![w] = l]
          /\ disturbed' = IF l > Limit \/ \E v \in Workers : wpc[v] # "idle"
                          THEN "yes" ELSE disturbed
    BY DEF AskQuery
  <1>2. /\ wpc[w] = "idle" /\ asked[w] < MaxQueries /\ asked[w] \in Nat
        /\ asked' = [asked EXCEPT ![w] = asked[w] + 1]
        /\ written' = [written EXCEPT ![w] = 0]
        /\ wpc' = [wpc EXCEPT ![w] = "write"]
        /\ UNCHANGED <<outcome, result, line, first, qpipe, apipe, spc, buffer>>
    BY DEF AskQuery, ServiceType
  <1>3. /\ len'[w] = l /\ asked'[w] = asked[w] + 1 /\ asked'[w] \in Queries
        /\ written'[w] = 0 /\ wpc'[w] = "write"
        /\ \A v \in Workers \ {w} :
             asked'[v] = asked[v] /\ wpc'[v] = wpc[v] /\ len'[v] = len[v]
    BY <1>1, <1>2 DEF ServiceType, TypeOK
  <1>4. TypeOK'
    BY <1>1, <1>2 DEF TypeOK
  <1>5. ServiceType'
    BY <1>2, <1>3 DEF ServiceType
  <1>6. CallInv'
    BY <1>1, <1>2, <1>3 DEF CallInv, Active
  <1>7. TurnInv'
    <2> SUFFICES ASSUME disturbed' = "no"
                 PROVE  TurnInv'
      BY DEF TurnInv
    <2>1. disturbed = "no" /\ l <= Limit /\ \A v \in Workers : wpc[v] = "idle"
      BY <1>1
    <2>2. /\ NothingLeft
          /\ outcome[w][asked[w] + 1] = "none" /\ result[w][asked[w] + 1] = "none"
      BY <1>2, <1>3, <2>1 DEF TurnInv, Active
    <2>3. Asking(w)'
      <3>1. apipe' = <<>> /\ buffer' = <<>> /\ qpipe' = <<>> /\ spc' = "read"
        BY <1>2, <2>2 DEF NothingLeft
      <3>2. outcome'[w][asked'[w]] = "none"
        BY <1>2, <1>3, <2>2
      <3>3. l \in Nat \ {0}
        BY SqlAssumption
      <3>4. 0 < len'[w]
        BY <1>3, <3>3
      <3> QED BY <1>3, <3>1, <3>2, <3>4 DEF Asking
    <2>4. \A v \in Workers : ~Active(v)' => Service!Returned(v)'
      BY <1>2, <1>3, <2>1 DEF TurnInv, Active, Service!Returned
    <2>5. \A v \in Workers, n \in Queries :
            n > asked'[v] => outcome'[v][n] = "none" /\ result'[v][n] = "none"
      BY <1>2, <1>3, <2>1 DEF TurnInv
    <2> QED BY <1>1, <1>2, <1>3, <2>1, <2>2, <2>3, <2>4, <2>5 DEF TurnInv, Active
  <1> QED BY <1>4, <1>5, <1>6, <1>7

\* A byte of the query goes behind those written before (sqlite.c 47-59).
LEMMA WriteStep ==
  ASSUME Inv, NEW w \in Workers, WriteByte(w)
  PROVE  Inv'
  <1> USE Constants
  <1> USE DEF Inv, service, caller, server
  <1> DEFINE pos == written[w] + 1
  <1>0. PICK s \in {TRUE, pos = len[w]} :
          /\ qpipe' = Append(qpipe,
                         [worker |-> w, query |-> asked[w], pos |-> pos,
                          semicolon |-> s, last |-> pos = len[w]])
          /\ disturbed' = IF s /\ pos # len[w] THEN "yes" ELSE disturbed
    BY DEF WriteByte
  <1> DEFINE b == [worker |-> w, query |-> asked[w], pos |-> pos,
                   semicolon |-> s, last |-> pos = len[w]]
  <1>1. /\ wpc[w] = "write" /\ pos \in Nat /\ written[w] \in Nat
        /\ qpipe' = Append(qpipe, b)
        /\ disturbed' \in {"yes", "no"}
        /\ written' = [written EXCEPT ![w] = pos] /\ written'[w] = pos
        /\ wpc' = [wpc EXCEPT ![w] = IF pos < len[w] THEN "write" ELSE "read"]
        /\ line' = [line EXCEPT ![w] = <<>>]
        /\ first' = [first EXCEPT ![w] = "none"]
        /\ UNCHANGED <<asked, outcome, result, len, apipe, spc, buffer>>
    BY <1>0 DEF WriteByte, TypeOK
  <1>2. /\ wpc'[w] = IF pos < len[w] THEN "write" ELSE "read"
        /\ line'[w] = <<>> /\ first'[w] = "none"
        /\ \A v \in Workers \ {w} : wpc'[v] = wpc[v]
        /\ \A v \in Workers : Active(v)' <=> Active(v)
    BY <1>1 DEF TypeOK, Active
  <1>3. asked[w] \in Queries /\ len[w] \in Lengths
    BY <1>1 DEF CallInv, Active
  <1>4. b \in Bytes
    BY <1>1, <1>3 DEF Bytes
  <1>5. /\ b.worker = w /\ b.query = asked[w] /\ b.pos = pos
        /\ b.last <=> pos = len[w]
        /\ disturbed' = "no" => disturbed = "no" /\ (b.semicolon <=> pos = len[w])
    BY <1>0
  <1> HIDE DEF b
  <1>6. qpipe' \in Seq(Bytes)
    BY <1>1, <1>4 DEF TypeOK
  <1>7. TypeOK'
    BY <1>1, <1>2, <1>6 DEF TypeOK
  <1>8. ServiceType'
    BY <1>1 DEF ServiceType
  <1>9. CallInv'
    BY <1>1, <1>2 DEF CallInv
  <1>10. TurnInv'
    <2> SUFFICES ASSUME disturbed' = "no" PROVE TurnInv'
      BY DEF TurnInv
    <2>0. disturbed = "no"
      BY <1>5
    <2>1. Active(w)
      BY <1>1 DEF Active
    <2>2. Asking(w)
      BY <1>1, <2>0, <2>1 DEF TurnInv, Answering
    <2>3. /\ Len(qpipe') = Len(qpipe) + 1
          /\ \A k \in 1 .. Len(qpipe) : qpipe'[k] = qpipe[k]
          /\ qpipe'[Len(qpipe) + 1] = b
      BY <1>1, <1>4 DEF TypeOK
    <2>4. Len(qpipe) \in Nat /\ Len(buffer) \in Nat
      BY DEF TypeOK
    <2>5. IsByte(b, w, Len(buffer) + Len(qpipe) + 1)
      BY <1>1, <1>5, <2>2, <2>4 DEF IsByte, Asking
    <2>6. ASSUME NEW k \in 1 .. Len(qpipe')
          PROVE  IsByte(qpipe[k], w, Len(buffer) + k)'
      <3>1. IsByte(qpipe'[k], w, Len(buffer) + k)
        <4>1. CASE k \in 1 .. Len(qpipe)
          BY <2>2, <2>3, <4>1 DEF Asking
        <4>2. CASE k = Len(qpipe) + 1
          BY <2>3, <2>4, <2>5, <4>2
        <4> QED BY <2>3, <2>4, <4>1, <4>2
      <3> QED BY <1>1, <3>1 DEF IsByte
    <2>7. Asking(w)'
      <3>1. \A k \in 1 .. Len(buffer') : IsByte(buffer[k], w, k)'
        BY <1>1, <2>2 DEF Asking, IsByte
      <3>2. /\ written'[w] = Len(buffer') + Len(qpipe')
            /\ wpc'[w] = "write" => written'[w] < len'[w]
            /\ wpc'[w] = "read" => written'[w] = len'[w]
        <4>1. len[w] \in Nat /\ written[w] < len[w] /\ written[w] = Len(buffer) + Len(qpipe)
          BY <1>1, <1>3, <2>2 DEF Asking
        <4>2. written'[w] = Len(buffer') + Len(qpipe')
          BY <1>1, <2>3, <2>4, <4>1
        <4> QED BY <1>1, <1>2, <4>1, <4>2
      <3> QED BY <1>1, <1>2, <2>2, <2>6, <3>1, <3>2 DEF Asking
    <2>8. \A v \in Workers : Service!Returned(v)' <=> Service!Returned(v)
      BY <1>1 DEF Service!Returned
    <2> QED BY <1>1, <1>2, <2>0, <2>1, <2>7, <2>8 DEF TurnInv
  <1> QED BY <1>7, <1>8, <1>9, <1>10

\* The rest of an answer is an answer's rest.
LEMMA TailMarks ==
  ASSUME NEW S, NEW s \in Seq(S), s # <<>>
  PROVE  /\ Tail(s) \in Seq(S) /\ Len(Tail(s)) = Len(s) - 1
         /\ Head(s) = s[1] /\ Head(s) \in S /\ Len(s) \in Nat \ {0}
         /\ \A k \in 1 .. Len(Tail(s)) : Tail(s)[k] = s[k + 1]
  OBVIOUS

\* A worker that reads while nobody has disturbed the calls reads its own
\* answer, as far as it has been written (sqlite.c 61-72).
LEMMA Reading ==
  ASSUME Inv, disturbed = "no", NEW w \in Workers, wpc[w] = "read", apipe # <<>>
  PROVE  /\ Active(w) /\ Answering(w) /\ result[w][asked[w]] = "none"
         /\ Len(apipe) \in Nat /\ Head(apipe) = Mark(Len(apipe) - 1)
         /\ Tail(apipe) \in Seq({"row", "END", "newline"})
         /\ Len(Tail(apipe)) = Len(apipe) - 1
         /\ \A k \in 1 .. Len(Tail(apipe)) : Tail(apipe)[k] = Mark(Len(Tail(apipe)) - k)
  <1>1. apipe \in Seq({"row", "END", "newline"})
    BY DEF Inv, TypeOK
  <1>2. Active(w) /\ Answering(w) /\ result[w][asked[w]] = "none"
    BY DEF Inv, TurnInv, Active, Asking
  <1>3. /\ Tail(apipe) \in Seq({"row", "END", "newline"}) /\ Len(Tail(apipe)) = Len(apipe) - 1
        /\ Head(apipe) = apipe[1] /\ Len(apipe) \in Nat \ {0}
        /\ \A k \in 1 .. Len(Tail(apipe)) : Tail(apipe)[k] = apipe[k + 1]
    BY <1>1, TailMarks
  <1>4. \A k \in 1 .. Len(apipe) : apipe[k] = Mark(Len(apipe) - k)
    BY <1>2 DEF Answering
  <1>5. ASSUME NEW k \in 1 .. Len(Tail(apipe))
        PROVE  Tail(apipe)[k] = Mark(Len(Tail(apipe)) - k)
    <2>1. k + 1 \in 1 .. Len(apipe) /\ Len(apipe) - (k + 1) = Len(Tail(apipe)) - k
      BY <1>3
    <2>2. apipe[k + 1] = Mark(Len(apipe) - (k + 1))
      BY <1>4, <2>1
    <2> QED BY <1>3, <2>1, <2>2
  <1> QED BY <1>2, <1>3, <1>4, <1>5

\* Text goes into the line (sqlite.c 61-66).
LEMMA TextStep ==
  ASSUME Inv, NEW w \in Workers, ReadText(w)
  PROVE  Inv'
  <1> USE Constants
  <1> USE DEF Inv, service, caller, server
  <1>1. /\ wpc[w] = "read" /\ apipe # <<>> /\ Head(apipe) # "newline"
        /\ line' = [line EXCEPT ![w] = Append(line[w], Head(apipe))]
        /\ apipe' = Tail(apipe)
        /\ UNCHANGED <<asked, outcome, result, disturbed, wpc, len, written, first,
                       qpipe, spc, buffer>>
    BY DEF ReadText
  <1>2. /\ apipe' \in Seq({"row", "END", "newline"})
        /\ Head(apipe) \in {"row", "END"}
        /\ line[w] \in Seq({"row", "END"})
    BY <1>1, TailMarks DEF TypeOK
  <1>3. Append(line[w], Head(apipe)) \in Seq({"row", "END"})
    BY <1>2
  <1>4. TypeOK'
    BY <1>1, <1>2, <1>3 DEF TypeOK
  <1>5. ServiceType' /\ CallInv'
    BY <1>1 DEF ServiceType, CallInv, Active
  <1>6. TurnInv'
    <2> SUFFICES ASSUME disturbed = "no" PROVE TurnInv'
      BY <1>1 DEF TurnInv
    <2> DEFINE m == Len(apipe)
    <2>1. /\ Active(w) /\ Answering(w) /\ m \in Nat /\ Head(apipe) = Mark(m - 1)
          /\ Len(apipe') = m - 1 /\ m >= 1
          /\ \A k \in 1 .. Len(apipe') : apipe'[k] = Mark(Len(apipe') - k)
      BY <1>1, Reading DEF Answering
    <2> HIDE DEF m
    <2>2. m % 2 = 0 /\ m >= 2 /\ Head(apipe) = IF m = 2 THEN "END" ELSE "row"
      BY <1>1, <2>1 DEF Mark
    <2>3. line[w] = <<>>
      BY <2>1, <2>2 DEF Answering, m
    <2>4. line'[w] = <<Head(apipe)>>
      BY <1>1, <2>3 DEF TypeOK
    <2>5. Len(apipe') % 2 = 1 /\ Len(apipe') >= 1
          /\ (Len(apipe') >= 3 <=> m >= 3) /\ (Len(apipe') = 1 <=> m = 2)
      BY <2>1, <2>2
    <2>6. outcome[w][asked[w]] = IF first[w] # "none" THEN first[w]
                                 ELSE IF m >= 3 THEN "row" ELSE "END"
      BY <2>1 DEF Answering, m
    <2>7. Answering(w)'
      BY <1>1, <2>1, <2>2, <2>4, <2>5, <2>6 DEF Answering, Mark
    <2>8. \A v \in Workers : /\ Active(v)' <=> Active(v)
                             /\ Service!Returned(v)' <=> Service!Returned(v)
      BY <1>1 DEF Active, Service!Returned
    <2> QED BY <1>1, <2>1, <2>7, <2>8 DEF TurnInv
  <1> QED BY <1>4, <1>5, <1>6

\* While nobody has disturbed the calls, a worker at the end of a line is at
\* the end mark exactly when nothing is left behind it, and what it returns
\* then is what the execution yielded (sqlite.c 67-76).
LEMMA AtNewline ==
  ASSUME Inv, disturbed = "no", NEW w \in Workers,
         wpc[w] = "read", apipe # <<>>, Head(apipe) = "newline"
  PROVE  /\ Len(apipe) \in Nat /\ Len(apipe) % 2 = 1
         /\ LineRead(w) = "END" <=> Len(apipe) = 1
         /\ LineRead(w) \in {"row", "END"}
         /\ FirstLine(w) = outcome[w][asked[w]]
         /\ outcome[w][asked[w]] \in {"row", "END"}
  <1> DEFINE m == Len(apipe)
  <1>1. Answering(w) /\ m \in Nat /\ Mark(m - 1) = "newline" /\ m >= 1
    BY Reading DEF Answering
  <1> HIDE DEF m
  <1>2. m % 2 = 1
    BY <1>1 DEF Mark
  <1>3. line[w] = <<IF m = 1 THEN "END" ELSE "row">>
    BY <1>1, <1>2 DEF Answering, m
  <1>4. LineRead(w) = IF m = 1 THEN "END" ELSE "row"
    BY <1>3 DEF LineRead
  <1>5. first[w] \in {"row", "END", "none"}
    BY Constants DEF Inv, TypeOK
  <1>6. outcome[w][asked[w]] = IF first[w] # "none" THEN first[w]
                               ELSE IF m >= 3 THEN "row" ELSE "END"
    BY <1>1 DEF Answering, m
  <1>7. m = 1 \/ m >= 3
    BY <1>1, <1>2
  <1>8. FirstLine(w) = outcome[w][asked[w]] /\ outcome[w][asked[w]] \in {"row", "END"}
    BY <1>4, <1>5, <1>6, <1>7 DEF FirstLine
  <1> QED BY <1>1, <1>2, <1>4, <1>8 DEF m

\* The end of a line, and with the end mark of the call (sqlite.c 67-76).
LEMMA NewlineStep ==
  ASSUME Inv, NEW w \in Workers, ReadNewline(w)
  PROVE  Inv'
  <1> USE Constants
  <1> USE DEF Inv, service, caller, server
  <1> DEFINE q == asked[w]
  <1>1. /\ wpc[w] = "read" /\ apipe # <<>> /\ Head(apipe) = "newline"
        /\ apipe' = Tail(apipe)
        /\ line' = [line EXCEPT ![w] = <<>>]
        /\ first' = [first EXCEPT ![w] = FirstLine(w)]
        /\ UNCHANGED <<asked, outcome, disturbed, len, written, qpipe, spc, buffer>>
    BY DEF ReadNewline
  <1>2. /\ LineRead(w) = "END" =>
             /\ wpc' = [wpc EXCEPT ![w] = "idle"]
             /\ result' = [result EXCEPT ![w][q] = FirstLine(w)]
        /\ LineRead(w) # "END" => UNCHANGED <<wpc, result>>
    BY DEF ReadNewline
  <1>3. q \in Queries /\ Active(w)
    BY <1>1 DEF CallInv, Active
  <1>4. FirstLine(w) \in {"row", "END"}
    BY DEF FirstLine, LineRead, TypeOK
  <1>5. apipe' \in Seq({"row", "END", "newline"})
    BY <1>1, TailMarks DEF TypeOK
  <1>6. wpc' \in [Workers -> {"idle", "write", "read"}]
    BY <1>2 DEF TypeOK
  <1>7. TypeOK'
    <2>1. line' \in [Workers -> Seq({"row", "END"})]
      BY <1>1 DEF TypeOK
    <2>2. first' \in [Workers -> Service!Results \cup {"none"}]
      BY <1>1, <1>4 DEF TypeOK
    <2> QED BY <1>1, <1>5, <1>6, <2>1, <2>2 DEF TypeOK
  <1>8. ServiceType'
    <2>1. result' \in [Workers -> [Queries -> Service!Results \cup {"none"}]]
      <3> HIDE DEF q
      <3>1. [result[w] EXCEPT ![q] = FirstLine(w)] \in
              [Queries -> Service!Results \cup {"none"}]
        BY <1>4 DEF ServiceType
      <3>2. CASE LineRead(w) = "END"
        BY <1>2, <3>1, <3>2 DEF ServiceType
      <3>3. CASE LineRead(w) # "END"
        BY <1>2, <3>3 DEF ServiceType
      <3> QED BY <3>2, <3>3
    <2> QED BY <1>1, <2>1 DEF ServiceType
  <1>9. CallInv'
    BY <1>1, <1>2 DEF CallInv, Active, TypeOK
  <1>10. TurnInv'
    <2> SUFFICES ASSUME disturbed = "no" PROVE TurnInv'
      BY <1>1 DEF TurnInv
    <2> DEFINE m == Len(apipe)
    <2>1. /\ Answering(w) /\ result[w][q] = "none" /\ m \in Nat
          /\ Len(apipe') = m - 1
          /\ \A k \in 1 .. Len(apipe') : apipe'[k] = Mark(Len(apipe') - k)
          /\ m % 2 = 1 /\ (LineRead(w) = "END" <=> m = 1)
          /\ FirstLine(w) = outcome[w][q]
      BY <1>1, Reading, AtNewline
    <2>2. \A v \in Workers : v # w => wpc[v] = "idle"
      BY <1>3 DEF TurnInv, Active
    <2>3. line'[w] = <<>> /\ first'[w] = outcome[w][q] /\ first'[w] # "none"
      BY <1>1, <1>4, <2>1 DEF TypeOK
    <2> HIDE DEF m
    <2>4. CASE m = 1
      <3>1. wpc' = [wpc EXCEPT ![w] = "idle"] /\ result' = [result EXCEPT ![w][q] = FirstLine(w)]
        BY <1>2, <2>1, <2>4
      <3>2. \A v \in Workers : wpc'[v] = "idle"
        BY <2>2, <3>1 DEF TypeOK
      <3>3. apipe' = <<>>
        BY <1>5, <2>1, <2>4
      <3>4. NothingLeft'
        BY <1>1, <2>1, <3>3 DEF NothingLeft, Answering
      <3>5. result'[w][q] # "none" /\ \A v \in Workers : v # w => result'[v] = result[v]
        BY <1>3, <1>4, <3>1 DEF ServiceType
      <3>6. \A v \in Workers : Service!Returned(v)'
        BY <1>1, <2>2, <3>5 DEF TurnInv, Active, Service!Returned
      <3>7. \A v \in Workers, n \in Queries : n # q => result'[v][n] = result[v][n]
        BY <1>3, <3>1 DEF ServiceType
      <3>8. asked[w] \in Nat
        BY <1>3
      <3>9. ASSUME NEW v \in Workers, NEW n \in Queries, n > asked'[v]
            PROVE  outcome'[v][n] = "none" /\ result'[v][n] = "none"
        <4>1. outcome[v][n] = "none" /\ result[v][n] = "none"
          BY <1>1, <3>9 DEF TurnInv
        <4>2. v = w => n # q
          BY <1>1, <3>8, <3>9
        <4> QED BY <1>1, <3>5, <3>7, <4>1, <4>2
      <3> QED BY <3>2, <3>4, <3>6, <3>9 DEF TurnInv, Active
    <2>5. CASE m # 1
      <3>1. UNCHANGED <<wpc, result>>
        BY <1>2, <2>1, <2>5
      <3>2. Len(apipe') >= 1 /\ Len(apipe') % 2 = 0
        BY <2>1, <2>5
      <3>3. Answering(w)'
        BY <1>1, <2>1, <2>3, <3>1, <3>2 DEF Answering, Mark
      <3>4. \A v \in Workers : /\ Active(v)' <=> Active(v)
                               /\ Service!Returned(v)' <=> Service!Returned(v)
        BY <1>1, <3>1 DEF Active, Service!Returned
      <3> QED BY <1>1, <1>3, <3>1, <3>3, <3>4 DEF TurnInv
    <2> QED BY <2>4, <2>5
  <1> QED BY <1>7, <1>8, <1>9, <1>10

\* The end of a worker disturbs the calls; the types stay.
LEMMA DeathStep ==
  ASSUME Inv, NEW w \in Workers, WorkerDies(w)
  PROVE  Inv'
  <1> USE DEF Inv, service, caller, server
  <1>1. TypeOK' /\ ServiceType'
    BY DEF WorkerDies, TypeOK, ServiceType
  <1>2. CallInv'
    BY DEF WorkerDies, CallInv, Active, TypeOK
  <1>3. TurnInv'
    BY DEF WorkerDies, TurnInv
  <1> QED BY <1>1, <1>2, <1>3

\* A byte for the server: its buffer grows to the limit at most, and the query
\* ends where its semicolon is (sqlite.c 185-192).
LEMMA ServerReads ==
  ASSUME Inv, ReadQueryByte
  PROVE  Inv'
  <1> USE Constants
  <1> USE DEF Inv, service, caller, server
  <1> DEFINE b == Head(qpipe)
             n == Len(buffer)
  <1>1. /\ spc = "read" /\ qpipe # <<>>
        /\ buffer' = Append(buffer, b) /\ qpipe' = Tail(qpipe)
        /\ spc' = IF QueryEnds(b) THEN "exec" ELSE "read"
        /\ UNCHANGED <<asked, outcome, result, disturbed, wpc, len, written, line, first,
                       apipe>>
    BY DEF ReadQueryByte
  <1>2. /\ qpipe' \in Seq(Bytes) /\ Len(qpipe') = Len(qpipe) - 1
        /\ b = qpipe[1] /\ b \in Bytes /\ Len(qpipe) \in Nat \ {0}
        /\ \A k \in 1 .. Len(qpipe') : qpipe'[k] = qpipe[k + 1]
    BY <1>1, TailMarks DEF TypeOK
  <1>3. n \in Nat /\ n < Limit
    BY <1>1 DEF TypeOK, CallInv
  <1> HIDE DEF b
  <1>4. /\ buffer' \in Seq(Bytes) /\ Len(buffer') = n + 1 /\ buffer' # <<>>
        /\ \A k \in 1 .. n : buffer'[k] = buffer[k]
        /\ buffer'[n + 1] = b
    BY <1>1, <1>2 DEF TypeOK
  <1> HIDE DEF n
  <1>5. /\ spc' \in {"read", "exec"}
        /\ spc' = "read" => ~b.semicolon /\ n + 1 < Limit
        /\ spc' = "exec" => b.semicolon \/ n + 1 >= Limit
    BY <1>1, <1>3 DEF QueryEnds, n
  <1>6. TypeOK'
    BY <1>1, <1>2, <1>3, <1>4, <1>5 DEF TypeOK
  <1>7. ServiceType' /\ CallInv'
    BY <1>1, <1>3, <1>4, <1>5 DEF ServiceType, CallInv, Active
  <1>8. TurnInv'
    <2> SUFFICES ASSUME disturbed = "no" PROVE TurnInv'
      BY <1>1 DEF TurnInv
    <2>1. PICK w \in Workers : Active(w)
      BY <1>1 DEF TurnInv, NothingLeft
    <2>2. Asking(w) /\ len[w] <= Limit /\ len[w] \in Nat
      BY <1>1, <2>1 DEF TurnInv, Answering, CallInv
    <2>3. IsByte(b, w, n + 1)
      BY <1>2, <2>2 DEF Asking, n
    <2>4. \A k \in 1 .. Len(buffer') : IsByte(buffer'[k], w, k)
      <3>1. \A k \in 1 .. n : IsByte(buffer'[k], w, k)
        BY <1>4, <2>2 DEF Asking, n
      <3> QED BY <1>3, <1>4, <2>3, <3>1
    <2>5. ASSUME NEW k \in 1 .. Len(qpipe')
          PROVE  IsByte(qpipe'[k], w, Len(buffer') + k)
      <3>1. /\ k + 1 \in 1 .. Len(qpipe) /\ qpipe'[k] = qpipe[k + 1]
            /\ n + (k + 1) = Len(buffer') + k
        BY <1>2, <1>3, <1>4
      <3>2. IsByte(qpipe[k + 1], w, n + (k + 1))
        BY <2>2, <3>1 DEF Asking, n
      <3> QED BY <3>1, <3>2
    <2>6. written[w] = n + Len(qpipe) /\ written[w] <= len[w] /\ n < len[w]
      BY <1>1, <2>1, <2>2 DEF Asking, Active, TypeOK, n
    <2>7. /\ spc' = "read" => n + 1 < len[w]
          /\ spc' = "exec" => n + 1 = len[w]
      <3>1. b.semicolon <=> n + 1 = len[w]
        BY <2>3 DEF IsByte
      <3>2. n + 1 <= len[w] /\ len[w] <= Limit
        BY <1>3, <2>2, <2>6
      <3> QED BY <1>3, <1>5, <2>2, <3>1, <3>2
    <2>8. Asking(w)'
      <3>1. \A k \in 1 .. Len(buffer') : IsByte(buffer[k], w, k)'
        BY <1>1, <2>4 DEF IsByte
      <3>2. \A k \in 1 .. Len(qpipe') : IsByte(qpipe[k], w, Len(buffer) + k)'
        BY <1>1, <2>5 DEF IsByte
      <3>3. written'[w] = Len(buffer') + Len(qpipe')
        <4>1. (n + 1) + (Len(qpipe) - 1) = n + Len(qpipe)
          BY <1>2, <1>3
        <4> QED BY <1>1, <1>2, <1>4, <2>6, <4>1
      <3> QED BY <1>1, <1>4, <2>2, <2>7, <3>1, <3>2, <3>3 DEF Asking
    <2>9. \A v \in Workers : /\ Active(v)' <=> Active(v)
                             /\ Service!Returned(v)' <=> Service!Returned(v)
      BY <1>1 DEF Active, Service!Returned
    <2> QED BY <1>1, <2>1, <2>8, <2>9 DEF TurnInv
  <1> QED BY <1>6, <1>7, <1>8

\* The rows and the end mark as they stand in the pipe, counted from their end.
LEMMA AnswerMarks ==
  ASSUME NEW n \in 0 .. MaxRows
  PROVE  LET ans == RowLines(n) \o <<"END", "newline">>
         IN  /\ ans \in Seq({"row", "END", "newline"})
             /\ Len(ans) = 2 * n + 2
             /\ \A k \in 1 .. Len(ans) : ans[k] = Mark(Len(ans) - k)
  <1> DEFINE r == RowLines(n)
             e == <<"END", "newline">>
             T == {"row", "END", "newline"}
  <1>1. n \in Nat /\ 2 * n \in Nat
    BY SqlAssumption
  <1>2. r \in Seq(T) /\ Len(r) = 2 * n
    BY <1>1 DEF RowLines
  <1>3. \A k \in 1 .. 2 * n : r[k] = IF k % 2 = 1 THEN "row" ELSE "newline"
    BY DEF RowLines
  <1>4. e \in Seq(T) /\ Len(e) = 2 /\ e[1] = "END" /\ e[2] = "newline"
    OBVIOUS
  <1> HIDE DEF r, e, T
  <1> DEFINE ans == r \o e
  <1>5. /\ ans \in Seq(T) /\ Len(ans) = Len(r) + Len(e)
        /\ \A k \in 1 .. Len(r) : ans[k] = r[k]
        /\ \A k \in 1 .. Len(e) : ans[Len(r) + k] = e[k]
    <2>1. ASSUME NEW s \in Seq(T), NEW t \in Seq(T)
          PROVE  /\ s \o t \in Seq(T) /\ Len(s \o t) = Len(s) + Len(t)
                 /\ \A k \in 1 .. Len(s) : (s \o t)[k] = s[k]
                 /\ \A k \in 1 .. Len(t) : (s \o t)[Len(s) + k] = t[k]
      OBVIOUS
    <2>2. r \in Seq(T) /\ e \in Seq(T)
      BY <1>2, <1>4
    <2> QED BY <2>1, <2>2, Zenon
  <1> HIDE DEF ans
  <1>6. /\ Len(ans) = 2 * n + 2
        /\ \A k \in 1 .. 2 * n : ans[k] = r[k]
        /\ ans[2 * n + 1] = "END" /\ ans[2 * n + 2] = "newline"
    BY <1>1, <1>2, <1>4, <1>5
  <1>7. ASSUME NEW k \in 1 .. Len(ans)
        PROVE  ans[k] = Mark(Len(ans) - k)
    <2> DEFINE d == Len(ans) - k
    <2>1. d = 2 * n + 2 - k /\ d \in Nat /\ k \in 1 .. 2 * n + 2
      BY <1>1, <1>6
    <2> HIDE DEF d
    <2>2. CASE k \in 1 .. 2 * n /\ k % 2 = 1
      <3>1. d % 2 = 1 /\ d # 1
        BY <1>1, <2>1, <2>2
      <3>2. ans[k] = "row"
        BY <1>3, <1>6, <2>2
      <3> QED BY <2>1, <3>1, <3>2 DEF Mark, d
    <2>3. CASE k \in 1 .. 2 * n /\ k % 2 # 1
      <3>1. d % 2 = 0
        BY <1>1, <2>1, <2>3
      <3>2. ans[k] = "newline"
        BY <1>3, <1>6, <2>3
      <3> QED BY <2>1, <3>1, <3>2 DEF Mark, d
    <2>4. CASE k = 2 * n + 1
      <3>1. d = 1
        BY <1>1, <2>1, <2>4
      <3> QED BY <1>6, <2>1, <2>4, <3>1 DEF Mark, d
    <2>5. CASE k = 2 * n + 2
      <3>1. d % 2 = 0
        BY <1>1, <2>1, <2>5
      <3> QED BY <1>6, <2>1, <2>5, <3>1 DEF Mark, d
    <2>6. k \in 1 .. 2 * n \/ k = 2 * n + 1 \/ k = 2 * n + 2
      BY <1>1, <2>1
    <2> QED BY <2>2, <2>3, <2>4, <2>5, <2>6
  <1>8. ans \in Seq(T) /\ Len(ans) = 2 * n + 2 /\ \A k \in 1 .. Len(ans) : ans[k] = Mark(Len(ans) - k)
    BY <1>5, <1>6, <1>7
  <1> QED BY <1>8 DEF ans, r, e, T

\* While nobody has disturbed the calls, the server executes the whole query
\* of the worker that is in its call (sqlite.c 185-216).
LEMMA Executing ==
  ASSUME Inv, disturbed = "no", spc = "exec"
  PROVE  \E w \in Workers :
           /\ Active(w) /\ Asking(w) /\ Whole
           /\ buffer[1].worker = w /\ buffer[1].query = asked[w]
           /\ wpc[w] = "read" /\ qpipe = <<>> /\ apipe = <<>>
           /\ asked[w] \in Queries
  <1>1. PICK w \in Workers : Active(w)
    BY DEF Inv, TurnInv, NothingLeft
  <1>2. Asking(w) /\ asked[w] \in Queries /\ len[w] \in Nat \ {0}
    BY <1>1, Constants DEF Inv, TurnInv, Answering, CallInv
  <1>3. Len(buffer) = len[w] /\ Len(qpipe) \in Nat /\ qpipe \in Seq(Bytes)
    BY <1>2 DEF Asking, Inv, TypeOK
  <1>4. wpc[w] \in {"write", "read"}
    BY <1>1 DEF Inv, TypeOK, Active
  <1>5. wpc[w] = "read" /\ Len(qpipe) = 0
    BY <1>2, <1>3, <1>4 DEF Asking
  <1>6. qpipe = <<>>
    BY <1>3, <1>5
  <1>7. \A k \in 1 .. Len(buffer) : IsByte(buffer[k], w, k)
    BY <1>2 DEF Asking
  <1>8. Whole
    BY <1>2, <1>3, <1>7 DEF Whole, IsByte
  <1> QED BY <1>1, <1>2, <1>3, <1>5, <1>6, <1>7, <1>8 DEF IsByte, Asking

\* The execution writes the rows and the end mark, and what the first line will
\* be is settled (sqlite.c 193-216).
LEMMA ExecuteStep ==
  ASSUME Inv, ExecuteQuery
  PROVE  Inv'
  <1> USE Constants
  <1> USE DEF Inv, service, caller, server
  <1>1. PICK n \in 0 .. MaxRows :
          /\ apipe' = apipe \o RowLines(n) \o <<"END", "newline">>
          /\ outcome' = IF Whole
                        THEN [outcome EXCEPT ![buffer[1].worker][buffer[1].query] =
                                IF n > 0 THEN "row" ELSE "END"]
                        ELSE outcome
    BY DEF ExecuteQuery
  <1>2. /\ spc = "exec" /\ spc' = "read" /\ buffer' = <<>> /\ Len(buffer') = 0
        /\ UNCHANGED <<asked, result, disturbed, wpc, len, written, line, first, qpipe>>
    BY DEF ExecuteQuery
  <1> DEFINE T == {"row", "END", "newline"}
             ans == RowLines(n) \o <<"END", "newline">>
             r == IF n > 0 THEN "row" ELSE "END"
  <1>3. ans \in Seq(T)
    BY AnswerMarks
  <1>4. apipe' \in Seq(T)
    <2>1. RowLines(n) \in Seq(T) /\ <<"END", "newline">> \in Seq(T) /\ apipe \in Seq(T)
      BY SqlAssumption DEF RowLines, TypeOK
    <2> HIDE DEF T
    <2> QED BY <1>1, <2>1
  <1>5. outcome' \in [Workers -> [Queries -> Service!Results \cup {"none"}]]
    <2>1. /\ Len(buffer) \in Nat \ {0} /\ buffer \in Seq(Bytes)
      BY <1>2 DEF CallInv, TypeOK
    <2>2. buffer[1] \in Bytes
      BY <2>1
    <2>3. buffer[1].worker \in Workers
      BY <2>2 DEF Bytes
    <2>4. [outcome[buffer[1].worker] EXCEPT ![buffer[1].query] = r] \in
            [Queries -> Service!Results \cup {"none"}]
      BY <2>3 DEF ServiceType
    <2> QED BY <1>1, <2>3, <2>4 DEF ServiceType
  <1>6. TypeOK'
    BY <1>2, <1>4 DEF TypeOK
  <1>7. ServiceType' /\ CallInv'
    BY <1>2, <1>5 DEF ServiceType, CallInv, Active
  <1>8. TurnInv'
    <2> SUFFICES ASSUME disturbed = "no" PROVE TurnInv'
      BY <1>2 DEF TurnInv
    <2>1. PICK w \in Workers :
            /\ Active(w) /\ Asking(w) /\ Whole
            /\ buffer[1].worker = w /\ buffer[1].query = asked[w]
            /\ wpc[w] = "read" /\ qpipe = <<>> /\ apipe = <<>>
            /\ asked[w] \in Queries
      BY <1>2, Executing
    <2>2. apipe' = ans
      <3>1. RowLines(n) \in Seq(T) /\ <<"END", "newline">> \in Seq(T)
        BY SqlAssumption DEF RowLines
      <3>2. <<>> \o RowLines(n) = RowLines(n)
        BY <3>1
      <3> QED BY <1>1, <2>1, <3>2
    <2>3. /\ Len(ans) = 2 * n + 2 /\ n \in Nat
          /\ \A k \in 1 .. Len(ans) : ans[k] = Mark(Len(ans) - k)
      BY AnswerMarks, SqlAssumption
    <2>4. outcome' = [outcome EXCEPT ![w][asked[w]] = r]
      BY <1>1, <2>1
    <2>5. outcome'[w][asked[w]] = r
      BY <2>1, <2>4 DEF ServiceType
    <2>6. line[w] = <<>> /\ first[w] = "none"
      BY <2>1 DEF Asking
    <2> HIDE DEF ans
    <2>7. Len(apipe') >= 1 /\ Len(apipe') % 2 = 0 /\ (Len(apipe') >= 3 <=> n > 0)
      BY <2>2, <2>3
    <2>8. Answering(w)'
      BY <1>2, <2>1, <2>2, <2>3, <2>5, <2>6, <2>7 DEF Answering, Mark
    <2>9. \A v \in Workers : /\ Active(v)' <=> Active(v)
                             /\ Service!Returned(v)' <=> Service!Returned(v)
      BY <1>2 DEF Active, Service!Returned
    <2>10. \A v \in Workers, i \in Queries : i # asked[v] => outcome'[v][i] = outcome[v][i]
      BY <2>1, <2>4 DEF ServiceType
    <2>11. \A v \in Workers, i \in Queries :
             i > asked'[v] => outcome'[v][i] = "none" /\ result'[v][i] = "none"
      <3> SUFFICES ASSUME NEW v \in Workers, NEW i \in Queries, i > asked[v]
                   PROVE  outcome'[v][i] = "none" /\ result[v][i] = "none"
        BY <1>2
      <3>1. i # asked[v]
        BY DEF ServiceType
      <3>2. outcome[v][i] = "none" /\ result[v][i] = "none"
        BY DEF TurnInv
      <3> QED BY <2>10, <3>1, <3>2
    <2> QED BY <1>2, <2>1, <2>8, <2>9, <2>11 DEF TurnInv
  <1> QED BY <1>6, <1>7, <1>8

-----------------------------------------------------------------------------
\* Every step of the workers and of the server preserves the invariant.
LEMMA NextInv == Inv /\ [Next]_vars => Inv'
  <1> SUFFICES ASSUME Inv, [Next]_vars PROVE Inv'
    OBVIOUS
  <1>1. CASE UNCHANGED vars
    <2>1. UNCHANGED <<asked, outcome, result, disturbed, wpc, len, written, line, first,
                      qpipe, apipe, spc, buffer>>
      BY <1>1 DEF vars, service, caller, server
    <2>2. TypeOK' /\ ServiceType' /\ CallInv'
      BY <2>1 DEF Inv, TypeOK, ServiceType, CallInv, Active
    <2>3. \A v \in Workers : Asking(v)' <=> Asking(v)
      BY <2>1 DEF Asking, IsByte
    <2>4. \A v \in Workers : Answering(v)' <=> Answering(v)
      BY <2>1 DEF Answering, Mark
    <2>5. \A v \in Workers : /\ Active(v)' <=> Active(v)
                             /\ Service!Returned(v)' <=> Service!Returned(v)
      BY <2>1 DEF Active, Service!Returned
    <2>6. NothingLeft' <=> NothingLeft
      BY <2>1 DEF NothingLeft
    <2>7. TurnInv'
      BY <2>1, <2>3, <2>4, <2>5, <2>6 DEF Inv, TurnInv
    <2> QED BY <2>2, <2>7 DEF Inv
  <1>2. CASE Next
    BY <1>2, AskStep, WriteStep, TextStep, NewlineStep, DeathStep, ServerReads, ExecuteStep
    DEF Next, Caller, DbServer
  <1> QED BY <1>1, <1>2

\* The invariant holds in every reachable state.
LEMMA AlwaysInv == Spec => []Inv
  BY InitInv, NextInv, PTL DEF Spec

\* The types; query_buffer stays within MAX_QUERY_LENGTH whatever is mixed into
\* the pipe (sqlite.c 185-192).
THEOREM TypeCorrect == Spec => []TypeOK
  <1>1. Inv => TypeOK
    BY DEF Inv
  <1> QED BY <1>1, AlwaysInv, PTL

\* Undisturbed calls, whose queries hold one semicolon within the limit, leave
\* nothing behind in pipes or buffer (sqlite.c 55-75, 190-216).
THEOREM StaysInStep == Spec => []InStep
  <1>1. Inv => InStep
    BY DEF Inv, TurnInv, InStep, NothingLeft, Active
  <1> QED BY <1>1, AlwaysInv, PTL

-----------------------------------------------------------------------------
(* The refinement.  Of the steps only the call, the execution and the line *)
(* with the end mark are steps of the service; a step that disturbs, or    *)
(* that follows one, breaks the promise.                                   *)

\* A call or a step of a worker inside it is a step of the service or none.
LEMMA WorkerRefines ==
  ASSUME Inv, NEW w \in Workers, AskQuery(w) \/ Caller(w) \/ WorkerDies(w)
  PROVE  [Service!SNext]_(Service!svars)
  <1> USE DEF service, caller, server
  <1>1. CASE disturbed' = "yes"
    BY <1>1 DEF Service!SNext, Service!Break
  <1>2. CASE disturbed' # "yes" /\ AskQuery(w)
    <2>1. disturbed = "no" /\ disturbed' = "no" /\ \A v \in Workers : wpc[v] = "idle"
      BY <1>2 DEF AskQuery, Inv, TypeOK
    <2>2. Service!Free
      BY <2>1 DEF Service!Free, Inv, TurnInv, Active
    <2>3. Service!Ask(w)
      BY <1>2, <2>2 DEF AskQuery, Service!Ask
    <2> QED BY <2>1, <2>3 DEF Service!SNext
  <1>3. CASE disturbed' # "yes" /\ (WriteByte(w) \/ ReadText(w))
    BY <1>3 DEF WriteByte, ReadText, Service!svars
  <1>4. CASE disturbed' # "yes" /\ ReadNewline(w)
    <2>1. disturbed = "no" /\ disturbed' = "no"
      BY <1>4 DEF ReadNewline, Inv, TypeOK
    <2>2. CASE LineRead(w) # "END"
      BY <1>4, <2>2 DEF ReadNewline, Service!svars
    <2>3. CASE LineRead(w) = "END"
      <3>1. /\ Active(w) /\ result[w][asked[w]] = "none"
            /\ FirstLine(w) = outcome[w][asked[w]]
            /\ outcome[w][asked[w]] \in {"row", "END"}
        BY <1>4, <2>1, AtNewline, Reading DEF ReadNewline
      <3>2. ~Service!Returned(w)
        BY <3>1, Constants DEF Service!Returned, Inv, CallInv
      <3>3. Service!Return(w)
        BY <1>4, <2>3, <3>1, <3>2 DEF ReadNewline, Service!Return
      <3> QED BY <2>1, <3>3 DEF Service!SNext
    <2> QED BY <2>2, <2>3
  <1>5. CASE WorkerDies(w)
    BY <1>5 DEF WorkerDies, Service!SNext, Service!Break
  <1> QED BY <1>1, <1>2, <1>3, <1>4, <1>5 DEF Caller

\* A step of the server is an execution or none.
LEMMA ServerRefines ==
  ASSUME Inv, DbServer
  PROVE  [Service!SNext]_(Service!svars)
  <1> USE DEF service, caller, server
  <1>1. CASE ReadQueryByte
    BY <1>1 DEF ReadQueryByte, Service!svars
  <1>2. CASE ExecuteQuery /\ disturbed # "no"
    BY <1>2 DEF ExecuteQuery, Inv, TypeOK, Service!SNext, Service!Break
  <1>3. CASE ExecuteQuery /\ disturbed = "no"
    <2>1. PICK w \in Workers :
            /\ Active(w) /\ Asking(w) /\ Whole
            /\ buffer[1].worker = w /\ buffer[1].query = asked[w]
            /\ asked[w] \in Queries
      BY <1>3, Executing DEF ExecuteQuery
    <2>2. PICK n \in 0 .. MaxRows :
            outcome' = [outcome EXCEPT ![w][asked[w]] = IF n > 0 THEN "row" ELSE "END"]
      BY <1>3, <2>1 DEF ExecuteQuery
    <2>3. ~Service!Returned(w)
      BY <2>1, <1>3, Constants DEF Service!Returned, Inv, TurnInv
    <2>4. Service!Execute(w)
      <3>1. \E r \in Service!Results : outcome' = [outcome EXCEPT ![w][asked[w]] = r]
        BY <2>2, Constants
      <3> QED BY <1>3, <2>1, <2>3, <3>1 DEF ExecuteQuery, Service!Execute, Asking
    <2> QED BY <1>3, <2>4 DEF ExecuteQuery, Service!SNext
  <1> QED BY <1>1, <1>2, <1>3 DEF DbServer

\* For callers that take turns with queries that are not cut, the pipes
\* implement an atomic database call (sqlite.c 36-76, 173-219).
THEOREM PipesImplementService == Spec => ImplementsService
  <1>1. Init => Service!SInit
    BY DEF Init
  <1>2. Inv /\ [Next]_vars => [Service!SNext]_(Service!svars)
    <2> SUFFICES ASSUME Inv, [Next]_vars PROVE [Service!SNext]_(Service!svars)
      OBVIOUS
    <2>1. CASE UNCHANGED vars
      BY <2>1 DEF vars, service, Service!svars
    <2>2. CASE Next
      BY <2>2, WorkerRefines, ServerRefines DEF Next
    <2> QED BY <2>1, <2>2
  <1> QED BY <1>1, <1>2, AlwaysInv, PTL DEF Spec, ImplementsService, Service!SSpec
=============================================================================
