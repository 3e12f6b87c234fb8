---------------------------- MODULE TcpRpcProofs ----------------------------
(***************************************************************************)
(* Proofs about the remote calls, for any set of calls and connections,    *)
(* any numbers of retries and any way of sharing clients: the type         *)
(* invariant, and that a service runs at most once for a call, an answer   *)
(* is the call's own, and the retries of the proxy never help.             *)
(*                                                                         *)
(* The last three need one inductive invariant, Carried: what each place a *)
(* request or an answer may be in, the pieces sent, the request read, the  *)
(* response given to writeHandle, the answer sent and the result, says of  *)
(* the call it belongs to.                                                 *)
(***************************************************************************)
EXTENDS TcpRpc, TLAPS

PcSet      == {"idle", "encode", "header", "body", "wait", "done", "stuck"}
Pieces     == Calls \X {"header", "body"}

(* The request of c is complete as far as its client can tell, at the      *)
(* first attempt.                                                          *)
Sent(c) == attempt[c] = 1 /\ pc[c] \in {"wait", "done", "stuck"}

(* After a failed write the connection is closed for good, and the call    *)
(* gets no further than its next write.                                    *)
FailedStays ==
  \A c \in Calls :
    /\ pc[c] # "idle" => attempt[c] >= 1
    /\ pc[c] # "done" => result[c].code = "none"
    /\ attempt[c] > 1 => /\ link[conn[c]] = "closed"
                         /\ pc[c] \in {"encode", "header", "done"}
                         /\ result[c].code \in {"none", "error"}

(* A connection carries the pieces of its own calls, and a body only after *)
(* its call has sent it.                                                   *)
PieceFor(k, p) == conn[p[1]] = k /\ (p[2] = "body" => Sent(p[1]))
PiecesOwn == \A k \in Conns : \A i \in 1..Len(up[k]) : PieceFor(k, up[k][i])

(* No goroutine reads a connection that has not been accepted.             *)
ReaderAccepted == \A k \in Conns : link[k] \in {"new", "backlog"} => reader[k] = "none"

(* The request that is served is one of the connection, and a call has run *)
(* only if its request is the one the connection's readHandle has read.    *)
ReadOnce ==
  /\ \A k \in Conns :
       reader[k] = "call" => req[k] \in Calls /\ conn[req[k]] = k /\ Sent(req[k])
  /\ \A c \in Calls :
       runs[c] > 0 => /\ runs[c] = 1 /\ Sent(c) /\ req[conn[c]] = c
                      /\ reader[conn[c]] \in {"done", "panicked"}

(* A response on connection k is for a call of k or for none, and says     *)
(* success only of a call that ran.                                        *)
ResponseFor(k, r) ==
  /\ r.to # None => conn[r.to] = k
  /\ r.code = "200" => r.to \in Calls /\ conn[r.to] = k /\ runs[r.to] = 1
ResponsesOwn ==
  /\ \A k \in Conns : ResponseFor(k, rspChan[k]) /\ ResponseFor(k, down[k])
  /\ \A c \in Calls : ResponseFor(conn[c], result[c])

Carried == FailedStays /\ PiecesOwn /\ ReaderAccepted /\ ReadOnce /\ ResponsesOwn
-----------------------------------------------------------------------------
LEMMA ResponseTypes ==
  /\ NoResponse \in Responses /\ Responses \subseteq Results
  /\ Response("error", None) \in Results /\ Parts \in Results
  /\ Parts = Response("cut", None) /\ \A r \in Responses : r # Parts
  /\ \A code \in Codes, to \in Calls \cup {None} : Response(code, to) \in Responses
BY DEF Response, NoResponse, Responses, Results, Codes, Parts

LEMMA TailOfTail ==
  ASSUME NEW S, NEW s \in Seq(S), Len(s) >= 2
  PROVE  /\ Tail(Tail(s)) \in Seq(S) /\ Len(Tail(Tail(s))) = Len(s) - 2
         /\ \A i \in 1..Len(s) - 2 : Tail(Tail(s))[i] = s[i + 2]
<1>1. ASSUME NEW t \in Seq(S), Len(t) >= 1
      PROVE  /\ Tail(t) \in Seq(S) /\ Len(Tail(t)) = Len(t) - 1
             /\ \A i \in 1..Len(t) - 1 : Tail(t)[i] = t[i + 1]
  BY <1>1
<1>2. PICK t \in Seq(S) : t = Tail(s)
  <2>1. Tail(s) \in Seq(S)
    OBVIOUS
  <2> QED
    BY <2>1
<1>3. Len(t) = Len(s) - 1 /\ \A i \in 1..Len(s) - 1 : t[i] = s[i + 1]
  BY <1>1, <1>2
<1>4. /\ Tail(t) \in Seq(S) /\ Len(Tail(t)) = Len(s) - 2
      /\ \A i \in 1..Len(t) - 1 : Tail(t)[i] = t[i + 1]
  BY <1>1, <1>3
<1>5. \A i \in 1..Len(s) - 2 : Tail(t)[i] = s[i + 2]
  BY <1>3, <1>4
<1> QED
  BY <1>2, <1>4, <1>5

(* The pieces of a connection, before and after a write or a read.         *)
LEMMA UpTypes ==
  ASSUME TypeOK, NEW k \in Conns
  PROVE  /\ up[k] \in Seq(Pieces) /\ Len(up[k]) \in Nat
         /\ \A i \in 1..Len(up[k]) : up[k][i] \in Pieces
         /\ \A p \in Pieces : Append(up[k], p) \in Seq(Pieces)
         /\ Len(up[k]) >= 2 => Tail(Tail(up[k])) \in Seq(Pieces)
<1>1. up[k] \in Seq(Pieces)
  BY DEF TypeOK, Pieces
<1> QED
  BY <1>1, TailOfTail

(* What a call may do to the variables of the client when it ends or goes  *)
(* on.                                                                     *)
ClientTypes ==
  /\ link \in [Conns -> {"new", "backlog", "open", "closed"}]
  /\ pc \in [Calls -> PcSet]
  /\ attempt \in [Calls -> Nat]
  /\ \A c \in Calls : attempt[c] <= 1 \/ attempt[c] <= retries
  /\ result \in [Calls -> Results]

LEMMA ReturnTypes ==
  ASSUME TypeOK, UNCHANGED retries, NEW c \in Calls, NEW r \in Results, Return(c, r)
  PROVE  ClientTypes'
BY DEF TypeOK, ClientTypes, Return, Goto, Close, PcSet

LEMMA AgainTypes ==
  ASSUME TypeOK, UNCHANGED retries, NEW c \in Calls, Again(c)
  PROVE  ClientTypes'
<1>1. CASE Return(c, Response("error", None))
  BY <1>1, ReturnTypes, ResponseTypes
<1>2. CASE /\ attempt[c] < retries
           /\ attempt' = [attempt EXCEPT ![c] = @ + 1] /\ Goto(c, "encode")
           /\ UNCHANGED <<link, result>>
  BY <1>2, RetriesAssumption DEF TypeOK, ClientTypes, Goto, PcSet
<1> QED
  BY <1>1, <1>2 DEF Again

LEMMA WriteTypes ==
  ASSUME TypeOK, NEW c \in Calls, NEW piece \in {"header", "body"}, NEW next \in PcSet,
         Write(c, piece, next)
  PROVE  TypeOK'
<1> USE DEF serverVars
<1>1. CASE /\ link[conn[c]] # "closed"
           /\ up' = [up EXCEPT ![conn[c]] = Append(@, <<c, piece>>)]
           /\ Goto(c, next) /\ UNCHANGED <<link, attempt, result, down>>
  <2>1. conn[c] \in Conns /\ <<c, piece>> \in Pieces
    BY DEF TypeOK, Pieces
  <2>2. Append(up[conn[c]], <<c, piece>>) \in Seq(Pieces)
    BY <2>1, UpTypes
  <2>3. up' \in [Conns -> Seq(Calls \X {"header", "body"})]
    BY <1>1, <2>1, <2>2 DEF TypeOK, Pieces
  <2>4. pc' \in [Calls -> PcSet]
    BY <1>1 DEF TypeOK, Goto, PcSet
  <2> QED
    BY <1>1, <2>3, <2>4 DEF Write, TypeOK, PcSet
<1>2. CASE /\ link[conn[c]] = "closed" /\ attempt[c] = 1
           /\ down' \in {down, [down EXCEPT ![conn[c]] = NoResponse]}
           /\ Goto(c, next) /\ UNCHANGED <<up, link, attempt, result>>
  <2>1. down' \in [Conns -> Responses \cup {Parts}]
    BY <1>2, ResponseTypes DEF TypeOK
  <2>2. pc' \in [Calls -> PcSet]
    BY <1>2 DEF TypeOK, Goto, PcSet
  <2> QED
    BY <1>2, <2>1, <2>2 DEF Write, TypeOK, PcSet
<1>3. CASE link[conn[c]] = "closed" /\ Again(c) /\ UNCHANGED <<up, down>>
  <2>1. ClientTypes'
    BY <1>3, AgainTypes DEF Write
  <2> QED
    BY <1>3, <2>1 DEF Write, TypeOK, ClientTypes, PcSet
<1> QED
  BY <1>1, <1>2, <1>3 DEF Write

(* What the server does to a connection when it answers or panics.         *)
ServerTypes ==
  /\ link \in [Conns -> {"new", "backlog", "open", "closed"}]
  /\ reader \in [Conns -> {"none", "limit", "read", "call", "done", "panicked"}]
  /\ rspChan \in [Conns -> Responses]

LEMMA AnswerTypes ==
  ASSUME TypeOK, NEW k \in Conns,
         \/ Panic(k)
         \/ \E code \in Codes, to \in Calls \cup {None} : Answer(k, code, to)
  PROVE  ServerTypes'
<1>1. CASE Panic(k)
  BY <1>1 DEF Panic, Reader, Close, TypeOK, ServerTypes
<1>2. ASSUME NEW code \in Codes, NEW to \in Calls \cup {None}, Answer(k, code, to)
      PROVE  ServerTypes'
  <2>1. Response(code, to) \in Responses
    BY ResponseTypes
  <2> QED
    BY <1>2, <2>1 DEF Answer, Reader, TypeOK, ServerTypes
<1> QED
  BY <1>1, <1>2

LEMMA TypeStep ==
  ASSUME TypeOK, [Next]_vars
  PROVE  TypeOK'
<1> USE DEF clientVars, serverVars
<1>1. ASSUME NEW c \in Calls, Connect(c) PROVE TypeOK'
  <2>1. /\ \E l \in {"encode", "done"} : Goto(c, l)
        /\ link' = link \/ link' = [link EXCEPT ![conn[c]] = "backlog"]
        /\ result' = result \/ result' = [result EXCEPT ![c] = Response("error", None)]
        /\ attempt' = [attempt EXCEPT ![c] = 1] /\ UNCHANGED <<retries, conn>>
    BY <1>1 DEF Connect
  <2>2. pc' \in [Calls -> PcSet]
    BY <2>1 DEF Goto, TypeOK, PcSet
  <2>3. result' \in [Calls -> Results]
    BY <2>1, ResponseTypes DEF TypeOK
  <2>4. link' \in [Conns -> {"new", "backlog", "open", "closed"}]
    BY <2>1 DEF TypeOK
  <2>5. attempt' \in [Calls -> Nat] /\ \A d \in Calls : attempt'[d] <= 1 \/ attempt'[d] <= retries'
    BY <2>1 DEF TypeOK
  <2>6. ClientTypes'
    BY <2>1, <2>2, <2>3, <2>4, <2>5 DEF ClientTypes
  <2> QED
    BY <1>1, <2>6 DEF Connect, TypeOK, ClientTypes, PcSet
<1>2. ASSUME NEW c \in Calls, Encode(c) PROVE TypeOK'
  <2>1. ClientTypes'
    <3>1. CASE Goto(c, "header") /\ UNCHANGED <<link, attempt, result>>
      BY <1>2, <3>1 DEF Encode, Goto, TypeOK, ClientTypes, PcSet
    <3>2. CASE Return(c, Response("error", None))
      BY <1>2, <3>2, ReturnTypes, ResponseTypes DEF Encode
    <3> QED
      BY <1>2, <3>1, <3>2 DEF Encode
  <2> QED
    BY <1>2, <2>1 DEF Encode, TypeOK, ClientTypes, PcSet
<1>3. ASSUME NEW c \in Calls, WriteHeader(c) PROVE TypeOK'
  BY <1>3, WriteTypes DEF WriteHeader, PcSet
<1>4. ASSUME NEW c \in Calls, WriteBody(c) PROVE TypeOK'
  BY <1>4, WriteTypes DEF WriteBody, PcSet
<1>5. ASSUME NEW c \in Calls, Receive(c) PROVE TypeOK'
  <2>1. down[conn[c]] \in Results
    BY ResponseTypes DEF TypeOK
  <2>2. ClientTypes'
    BY <1>5, <2>1, ReturnTypes DEF Receive
  <2>3. down' \in [Conns -> Responses \cup {Parts}]
    BY <1>5, ResponseTypes DEF Receive, TypeOK
  <2> QED
    BY <1>5, <2>2, <2>3 DEF Receive, TypeOK, ClientTypes, PcSet
<1>6. ASSUME NEW c \in Calls, ReceiveNothing(c) PROVE TypeOK'
  <2>1. ClientTypes'
    BY <1>6, ReturnTypes, ResponseTypes DEF ReceiveNothing
  <2> QED
    BY <1>6, <2>1 DEF ReceiveNothing, TypeOK, ClientTypes, PcSet
<1>7. ASSUME NEW c \in Calls, ReceivePart(c) PROVE TypeOK'
  <2>1. down' \in [Conns -> Responses \cup {Parts}]
    <3>1. down' = down \/ down' = [down EXCEPT ![conn[c]] = NoResponse]
      BY <1>7 DEF ReceivePart
    <3> QED
      BY <3>1, ResponseTypes DEF TypeOK
  <2>2. ClientTypes'
    <3>1. CASE Return(c, Response("cut", None))
      BY <1>7, <3>1, ReturnTypes, ResponseTypes DEF ReceivePart
    <3>2. CASE Goto(c, "stuck") /\ Close(conn[c]) /\ UNCHANGED <<attempt, result>>
      BY <1>7, <3>2 DEF ReceivePart, Goto, Close, TypeOK, ClientTypes, PcSet
    <3> QED
      BY <1>7, <3>1, <3>2 DEF ReceivePart
  <2> QED
    BY <1>7, <2>1, <2>2 DEF ReceivePart, TypeOK, ClientTypes, PcSet
<1>8. ASSUME NEW k \in Conns, Accept(k) PROVE TypeOK'
  BY <1>8 DEF Accept, TypeOK
<1>9. ASSUME NEW k \in Conns, Limit(k) PROVE TypeOK'
  <2>1. ServerTypes'
    <3>1. CASE Reader(k, "read") /\ UNCHANGED <<link, rspChan>>
      BY <3>1 DEF Reader, TypeOK, ServerTypes
    <3>2. CASE Answer(k, "700", None)
      BY <3>2, AnswerTypes DEF Codes
    <3>3. CASE Panic(k)
      BY <3>3, AnswerTypes
    <3> QED
      BY <1>9, <3>1, <3>2, <3>3 DEF Limit
  <2> QED
    BY <1>9, <2>1 DEF Limit, TypeOK, ServerTypes
<1>10. ASSUME NEW k \in Conns, Decode(k) PROVE TypeOK'
  <2>1. ServerTypes'
    <3>1. CASE Reader(k, "call") /\ UNCHANGED <<link, rspChan>>
      BY <3>1 DEF Reader, TypeOK, ServerTypes
    <3>2. CASE Answer(k, "500", None)
      BY <3>2, AnswerTypes DEF Codes
    <3>3. CASE Panic(k)
      BY <3>3, AnswerTypes
    <3> QED
      BY <1>10, <3>1, <3>2, <3>3 DEF Decode
  <2>3. up' \in [Conns -> Seq(Calls \X {"header", "body"})]
    <3>1. CASE UNCHANGED up
      BY <3>1 DEF TypeOK
    <3>2. CASE Len(up[k]) >= 2 /\ up' = [up EXCEPT ![k] = Tail(Tail(@))]
      BY <3>2, UpTypes DEF TypeOK, Pieces
    <3> QED
      BY <1>10, <3>1, <3>2, UpTypes DEF Decode, Whole, Garbled
  <2>4. req' \in [Conns -> Calls \cup {None}]
    <3>1. CASE UNCHANGED req
      BY <3>1 DEF TypeOK
    <3>2. CASE Whole(k) /\ req' = [req EXCEPT ![k] = up[k][1][1]]
      <4>1. up[k][1] \in Pieces
        BY <3>2, UpTypes DEF Whole
      <4> QED
        BY <3>2, <4>1 DEF TypeOK, Pieces
    <3> QED
      BY <1>10, <3>1, <3>2 DEF Decode
  <2> QED
    BY <1>10, <2>1, <2>3, <2>4 DEF Decode, TypeOK, ServerTypes
<1>11. ASSUME NEW k \in Conns, Serve(k) PROVE TypeOK'
  <2>1. ServerTypes'
    <3>1. req[k] \in Calls \cup {None}
      BY DEF TypeOK
    <3> QED
      BY <1>11, <3>1, AnswerTypes DEF Serve, Codes
  <2>2. runs' \in [Calls -> Nat]
    BY <1>11 DEF Serve, TypeOK
  <2> QED
    BY <1>11, <2>1, <2>2 DEF Serve, TypeOK, ServerTypes
<1>12. ASSUME NEW k \in Conns, Respond(k) PROVE TypeOK'
  BY <1>12 DEF Respond, Close, TypeOK
<1>13. ASSUME NEW k \in Conns, Cut(k) PROVE TypeOK'
  <2>1. up' \in [Conns -> Seq(Calls \X {"header", "body"})]
    <3>1. <<>> \in Seq(Calls \X {"header", "body"})
      OBVIOUS
    <3> QED
      BY <1>13, <3>1 DEF Cut, TypeOK
  <2> QED
    BY <1>13, <2>1 DEF Cut, Close, TypeOK
<1>14. CASE Stop
  BY <1>14 DEF Stop, TypeOK
<1>16. ASSUME NEW k \in Conns, Split(k) PROVE TypeOK'
  BY <1>16 DEF Split, TypeOK
<1>15. CASE UNCHANGED vars
  BY <1>15 DEF vars, TypeOK
<1> QED
  BY <1>1, <1>2, <1>3, <1>4, <1>5, <1>6, <1>7, <1>8, <1>9, <1>10, <1>11, <1>12,
     <1>13, <1>14, <1>15, <1>16 DEF Next, Invoke, Handle

LEMMA InitType == Init => TypeOK
BY ResponseTypes, RetriesAssumption, ClientsAssumption, LimitersAssumption
   DEF Init, TypeOK, None

(* The variables keep their types, and no call makes more attempts than    *)
(* its Retries.                                                            *)
THEOREM TypeCorrect == Spec => []TypeOK
<1>1. Init => TypeOK
  BY InitType
<1>2. TypeOK /\ [Next]_vars => TypeOK'
  BY TypeStep
<1> QED
  BY <1>1, <1>2, PTL DEF Spec
-----------------------------------------------------------------------------
(* Where an action of the client takes its call.                           *)
ClientMove(c, l, n) ==
  /\ pc' = [pc EXCEPT ![c] = l] /\ attempt' = [attempt EXCEPT ![c] = n]
  /\ UNCHANGED <<conn, retries>>

LEMMA AgainMoves ==
  ASSUME TypeOK, NEW c \in Calls, Again(c), UNCHANGED <<conn, retries>>
  PROVE  \/ /\ ClientMove(c, "encode", attempt[c] + 1)
            /\ UNCHANGED <<link, result>>
         \/ /\ ClientMove(c, "done", attempt[c])
            /\ result' = [result EXCEPT ![c] = Response("error", None)]
BY DEF Again, Return, Goto, ClientMove, TypeOK

(* What is over stays over: a closed connection, and a request sent.       *)
Monotone ==
  /\ UNCHANGED conn
  /\ \A k \in Conns : link[k] = "closed" => link'[k] = "closed"
  /\ \A c \in Calls : Sent(c) => Sent(c)'

LEMMA WriteMonotone ==
  ASSUME TypeOK, NEW c \in Calls, NEW piece \in {"header", "body"},
         NEW next \in {"body", "wait"}, Write(c, piece, next)
  PROVE  Monotone
<1>1. ~Sent(c) /\ UNCHANGED <<conn, retries>>
  BY DEF Write, Sent
<1>2. \E l \in PcSet, n \in Nat : ClientMove(c, l, n)
  <2>1. CASE Goto(c, next) /\ UNCHANGED attempt
    <3>1. ClientMove(c, next, attempt[c])
      BY <1>1, <2>1 DEF Goto, ClientMove, TypeOK
    <3> QED
      BY <3>1 DEF TypeOK, PcSet
  <2>2. CASE Again(c)
    BY <1>1, <2>2, AgainMoves DEF TypeOK, PcSet
  <2> QED
    BY <2>1, <2>2 DEF Write
<1>3. UNCHANGED link \/ link' = [link EXCEPT ![conn[c]] = "closed"]
  BY DEF Write, Again, Return, Close
<1> QED
  BY <1>1, <1>2, <1>3 DEF Monotone, ClientMove, Sent, TypeOK

LEMMA MonotoneStep ==
  ASSUME TypeOK, [Next]_vars
  PROVE  Monotone
<1> USE DEF clientVars, serverVars
<1>1. ASSUME NEW c \in Calls, Connect(c) PROVE Monotone
  BY <1>1 DEF Connect, Goto, TypeOK, Monotone, Sent
<1>2. ASSUME NEW c \in Calls, Encode(c) PROVE Monotone
  BY <1>2 DEF Encode, Goto, Return, Close, TypeOK, Monotone, Sent
<1>3. ASSUME NEW c \in Calls, WriteHeader(c) \/ WriteBody(c) PROVE Monotone
  BY <1>3, WriteMonotone DEF WriteHeader, WriteBody
<1>4. ASSUME NEW c \in Calls, Receive(c) \/ ReceiveNothing(c) PROVE Monotone
  BY <1>4 DEF Receive, ReceiveNothing, Goto, Return, Close, TypeOK, Monotone, Sent
<1>5. ASSUME NEW c \in Calls, ReceivePart(c) PROVE Monotone
  BY <1>5 DEF ReceivePart, Goto, Return, Close, TypeOK, Monotone, Sent
<1>6. ASSUME NEW k \in Conns, Handle(k) \/ Split(k) \/ Cut(k) PROVE Monotone
  <2>1. UNCHANGED <<conn, pc, attempt>>
    BY <1>6 DEF Handle, Accept, Limit, Decode, Serve, Respond, Split, Cut
  <2>2. \A j \in Conns : link[j] = "closed" => link'[j] = "closed"
    BY <1>6 DEF Handle, Accept, Limit, Decode, Serve, Respond, Split, Cut, Panic, Answer,
                Close, TypeOK
  <2> QED
    BY <2>1, <2>2 DEF Monotone, Sent
<1>7. CASE Stop
  BY <1>7 DEF Stop, Monotone, Sent
<1>8. CASE UNCHANGED vars
  BY <1>8 DEF vars, Monotone, Sent
<1> QED
  BY <1>1, <1>2, <1>3, <1>4, <1>5, <1>6, <1>7, <1>8 DEF Next, Invoke

(* Over every step, a call that begins a second attempt has its connection *)
(* closed, and can only fail.                                              *)
FailedCall(c) ==
  /\ pc[c] # "idle" => attempt[c] >= 1
  /\ pc[c] # "done" => result[c].code = "none"
  /\ attempt[c] > 1 => /\ link[conn[c]] = "closed"
                       /\ pc[c] \in {"encode", "header", "done"}
                       /\ result[c].code \in {"none", "error"}

LEMMA FailedKept ==
  ASSUME TypeOK, FailedStays, Monotone, NEW c \in Calls,
         UNCHANGED <<pc[c], attempt[c], result[c]>>
  PROVE  FailedCall(c)'
<1>1. FailedCall(c) /\ conn[c] \in Conns
  BY DEF FailedStays, FailedCall, TypeOK
<1> QED
  BY <1>1 DEF FailedCall, Monotone

LEMMA FailedStep ==
  ASSUME TypeOK, FailedStays, Monotone, [Next]_vars
  PROVE  FailedStays'
<1> USE DEF clientVars, serverVars
<1> SUFFICES ASSUME NEW d \in Calls PROVE FailedCall(d)'
  BY DEF FailedStays, FailedCall
<1>0. FailedCall(d) /\ conn[d] \in Conns /\ attempt[d] \in Nat
  BY DEF FailedStays, FailedCall, TypeOK
<1>1. ASSUME NEW c \in Calls, Connect(c) PROVE FailedCall(d)'
  <2>1. CASE d = c
    BY <1>0, <1>1, <2>1 DEF Connect, Goto, TypeOK, FailedCall
  <2>2. CASE d # c
    BY <1>1, <2>2, FailedKept DEF Connect, Goto, TypeOK
  <2> QED
    BY <2>1, <2>2
<1>2. ASSUME NEW c \in Calls, Encode(c) PROVE FailedCall(d)'
  <2>1. CASE d = c
    BY <1>0, <1>2, <2>1 DEF Encode, Return, Goto, TypeOK, FailedCall, Monotone, Response
  <2>2. CASE d # c
    BY <1>2, <2>2, FailedKept DEF Encode, Return, Goto, TypeOK
  <2> QED
    BY <2>1, <2>2
<1>3. ASSUME NEW c \in Calls, NEW piece \in {"header", "body"},
             NEW next \in {"body", "wait"}, Write(c, piece, next)
      PROVE  FailedCall(d)'
  <2>1. CASE d = c
    <3>1. CASE Goto(c, next) /\ UNCHANGED <<attempt, result>> /\ attempt[c] = 1
      <4>1. pc[c] = piece
        BY <1>3 DEF Write
      <4> QED
        BY <1>0, <2>1, <3>1, <4>1 DEF Goto, TypeOK, FailedCall
    <3>2. CASE link[conn[c]] = "closed" /\ Again(c)
      <4>1. UNCHANGED <<conn, retries>> /\ pc[c] = piece
        BY <1>3 DEF Write
      <4>2. CASE ClientMove(c, "encode", attempt[c] + 1) /\ UNCHANGED <<link, result>>
        BY <1>0, <2>1, <3>2, <4>1, <4>2 DEF ClientMove, TypeOK, FailedCall
      <4>3. CASE /\ ClientMove(c, "done", attempt[c])
                 /\ result' = [result EXCEPT ![c] = Response("error", None)]
        BY <1>0, <2>1, <3>2, <4>1, <4>3 DEF ClientMove, TypeOK, FailedCall, Response, Monotone
      <4> QED
        BY <3>2, <4>1, <4>2, <4>3, AgainMoves
    <3> QED
      BY <1>0, <1>3, <2>1, <3>1, <3>2 DEF Write, FailedCall
  <2>2. CASE d # c
    BY <1>3, <2>2, FailedKept DEF Write, Again, Return, Goto, TypeOK
  <2> QED
    BY <2>1, <2>2
<1>4. ASSUME NEW c \in Calls, Receive(c) \/ ReceiveNothing(c) PROVE FailedCall(d)'
  <2>1. CASE d = c
    BY <1>0, <1>4, <2>1 DEF Receive, ReceiveNothing, Return, Goto, TypeOK, FailedCall
  <2>2. CASE d # c
    BY <1>4, <2>2, FailedKept DEF Receive, ReceiveNothing, Return, Goto, TypeOK
  <2> QED
    BY <2>1, <2>2
<1>5. ASSUME NEW c \in Calls, ReceivePart(c) PROVE FailedCall(d)'
  <2>1. CASE d = c
    BY <1>0, <1>5, <2>1 DEF ReceivePart, Return, Goto, TypeOK, FailedCall
  <2>2. CASE d # c
    BY <1>5, <2>2, FailedKept DEF ReceivePart, Return, Goto, TypeOK
  <2> QED
    BY <2>1, <2>2
<1>6. ASSUME NEW k \in Conns, Handle(k) \/ Split(k) \/ Cut(k) PROVE FailedCall(d)'
  BY <1>6, FailedKept DEF Handle, Accept, Limit, Decode, Serve, Respond, Split, Cut
<1>7. CASE Stop
  BY <1>7, FailedKept DEF Stop
<1>8. CASE UNCHANGED vars
  BY <1>8, FailedKept DEF vars
<1> QED
  BY <1>1, <1>2, <1>3, <1>4, <1>5, <1>6, <1>7, <1>8
     DEF Next, Invoke, WriteHeader, WriteBody
-----------------------------------------------------------------------------
LEMMA PieceKept ==
  ASSUME Monotone, NEW k \in Conns, NEW p \in Pieces, PieceFor(k, p)
  PROVE  PieceFor(k, p)'
BY DEF Pieces, PieceFor, Monotone

(* A step that takes pieces away.                                          *)
Fewer ==
  \A k \in Conns : \A i \in 1..Len(up'[k]) :
    \E m \in 1..Len(up[k]) : up'[k][i] = up[k][m]

LEMMA FewerKept ==
  ASSUME TypeOK, PiecesOwn, Monotone, Fewer
  PROVE  PiecesOwn'
<1> SUFFICES ASSUME NEW k \in Conns, NEW i \in 1..Len(up'[k])
             PROVE  PieceFor(k, up[k][i])'
  BY DEF PiecesOwn
<1>1. PICK m \in 1..Len(up[k]) : up'[k][i] = up[k][m]
  BY DEF Fewer
<1>2. up[k][m] \in Pieces /\ PieceFor(k, up[k][m])
  BY UpTypes DEF PiecesOwn
<1>3. PICK p : p = up[k][m]
  OBVIOUS
<1>4. PieceFor(k, p)'
  BY <1>2, <1>3, PieceKept
<1> QED
  BY <1>1, <1>3, <1>4

LEMMA WritePieces ==
  ASSUME TypeOK, FailedStays, PiecesOwn, Monotone,
         NEW c \in Calls, WriteHeader(c) \/ WriteBody(c)
  PROVE  PiecesOwn'
<1>1. CASE UNCHANGED up
  BY <1>1, FewerKept, UpTypes DEF Fewer
<1>2. ASSUME NEW piece \in {"header", "body"}, link[conn[c]] # "closed",
             pc[c] = piece, UNCHANGED attempt,
             up' = [up EXCEPT ![conn[c]] = Append(@, <<c, piece>>)],
             piece = "body" => pc'[c] = "wait"
      PROVE  PiecesOwn'
  <2> SUFFICES ASSUME NEW k \in Conns, NEW i \in 1..Len(up'[k])
               PROVE  PieceFor(k, up[k][i])'
    BY DEF PiecesOwn
  <2>1. attempt[c] = 1 /\ conn[c] \in Conns
    <3>1. conn[c] \in Conns /\ attempt[c] \in Nat
      BY DEF TypeOK
    <3> QED
      BY <1>2, <3>1 DEF FailedStays
  <2>2. CASE k = conn[c] /\ i = Len(up[k]) + 1
    <3>1. up'[k][i] = <<c, piece>>
      BY <1>2, <2>1, <2>2, UpTypes DEF TypeOK
    <3>2. PieceFor(k, <<c, piece>>)'
      BY <1>2, <2>1, <2>2 DEF PieceFor, Sent, Monotone
    <3> QED
      BY <3>1, <3>2
  <2>3. CASE ~(k = conn[c] /\ i = Len(up[k]) + 1)
    <3>1. i \in 1..Len(up[k]) /\ up'[k][i] = up[k][i]
      BY <1>2, <2>1, <2>3, UpTypes DEF TypeOK
    <3>2. up[k][i] \in Pieces /\ PieceFor(k, up[k][i])
      BY <3>1, UpTypes DEF PiecesOwn
    <3>3. PICK p : p = up[k][i]
      OBVIOUS
    <3>4. PieceFor(k, p)'
      BY <3>2, <3>3, PieceKept
    <3> QED
      BY <3>1, <3>3, <3>4
  <2> QED
    BY <2>2, <2>3
<1>3. ASSUME NEW piece \in {"header", "body"}, NEW next \in {"body", "wait"},
             Write(c, piece, next), piece = "body" => next = "wait"
      PROVE  PiecesOwn'
  BY <1>1, <1>2, <1>3 DEF Write, Goto, TypeOK
<1> QED
  BY <1>3 DEF WriteHeader, WriteBody

LEMMA PiecesStep ==
  ASSUME TypeOK, FailedStays, PiecesOwn, Monotone, [Next]_vars
  PROVE  PiecesOwn'
<1> USE DEF clientVars, serverVars
<1>0. CASE UNCHANGED up
  BY <1>0, FewerKept, UpTypes DEF Fewer
<1>1. ASSUME NEW c \in Calls, WriteHeader(c) \/ WriteBody(c) PROVE PiecesOwn'
  BY <1>1, WritePieces
<1>2. ASSUME NEW k \in Conns, Decode(k) PROVE PiecesOwn'
  <2>1. ASSUME Len(up[k]) >= 2, up' = [up EXCEPT ![k] = Tail(Tail(@))] PROVE Fewer
    <3>1. /\ Len(Tail(Tail(up[k]))) = Len(up[k]) - 2
          /\ \A i \in 1..Len(up[k]) - 2 : Tail(Tail(up[k]))[i] = up[k][i + 2]
      BY <2>1, TailOfTail, UpTypes
    <3>2. \A j \in Conns \ {k} : up'[j] = up[j]
      BY <2>1 DEF TypeOK
    <3>3. up'[k] = Tail(Tail(up[k]))
      BY <2>1 DEF TypeOK
    <3> SUFFICES ASSUME NEW j \in Conns, NEW i \in 1..Len(up'[j])
                 PROVE  \E m \in 1..Len(up[j]) : up'[j][i] = up[j][m]
      BY DEF Fewer
    <3>4. CASE j = k
      <4>1. i + 2 \in 1..Len(up[k]) /\ up'[k][i] = up[k][i + 2]
        <5>1. i \in 1..Len(up[k]) - 2 /\ Len(up[k]) \in Nat
          BY <3>1, <3>3, <3>4, UpTypes
        <5> QED
          BY <3>1, <3>3, <5>1
      <4> QED
        BY <3>4, <4>1
    <3>5. CASE j # k
      BY <3>2, <3>5
    <3> QED
      BY <3>4, <3>5
  <2> QED
    BY <1>0, <1>2, <2>1, FewerKept, UpTypes DEF Decode, Whole, Garbled
<1>3. ASSUME NEW k \in Conns, Cut(k) PROVE PiecesOwn'
  <2>1. UNCHANGED up \/ up' = [up EXCEPT ![k] = <<>>]
    BY <1>3 DEF Cut
  <2>2. ASSUME up' = [up EXCEPT ![k] = <<>>] PROVE Fewer
    BY <2>2 DEF Fewer, TypeOK
  <2> QED
    BY <1>0, <2>1, <2>2, FewerKept
<1> QED
  BY <1>0, <1>1, <1>2, <1>3 DEF Next, Invoke, Handle, Connect, Encode, Receive,
     ReceiveNothing, ReceivePart, Split, Accept, Limit, Serve, Respond, Stop, vars
-----------------------------------------------------------------------------
(* Over every step, a connection that has not been accepted has no reader. *)
LEMMA AcceptedStep ==
  ASSUME TypeOK, ReaderAccepted, [Next]_vars
  PROVE  ReaderAccepted'
<1> USE DEF clientVars, serverVars
<1>1. ASSUME NEW c \in Calls, Connect(c) PROVE ReaderAccepted'
  BY <1>1 DEF Connect, ReaderAccepted, TypeOK
<1>2. ASSUME NEW c \in Calls,
             \/ Encode(c) \/ WriteHeader(c) \/ WriteBody(c)
             \/ Receive(c) \/ ReceivePart(c) \/ ReceiveNothing(c)
      PROVE  ReaderAccepted'
  <2>1. UNCHANGED reader /\ (UNCHANGED link \/ link' = [link EXCEPT ![conn[c]] = "closed"])
    BY <1>2 DEF Encode, WriteHeader, WriteBody, Write, Again, Return, Close, Receive,
                ReceivePart, ReceiveNothing
  <2> QED
    BY <2>1 DEF ReaderAccepted, TypeOK
<1>3. ASSUME NEW k \in Conns, Split(k) PROVE ReaderAccepted'
  BY <1>3 DEF Split, ReaderAccepted
<1>4. ASSUME NEW k \in Conns, Accept(k) PROVE ReaderAccepted'
  BY <1>4 DEF Accept, ReaderAccepted, TypeOK
<1>5. ASSUME NEW k \in Conns, Limit(k) \/ Decode(k) \/ Serve(k) PROVE ReaderAccepted'
  <2>1. reader[k] # "none" /\ \E l \in {"read", "call", "done", "panicked"} : Reader(k, l)
    BY <1>5 DEF Limit, Decode, Serve, Answer, Panic
  <2>2. UNCHANGED link \/ link' = [link EXCEPT ![k] = "closed"]
    BY <1>5 DEF Limit, Decode, Serve, Answer, Panic, Close
  <2> QED
    BY <2>1, <2>2 DEF Reader, ReaderAccepted, TypeOK
<1>6. ASSUME NEW k \in Conns, Respond(k) \/ Cut(k) PROVE ReaderAccepted'
  BY <1>6 DEF Respond, Cut, Close, ReaderAccepted, TypeOK
<1>7. CASE Stop
  BY <1>7 DEF Stop, ReaderAccepted, TypeOK
<1>8. CASE UNCHANGED vars
  BY <1>8 DEF vars, ReaderAccepted
<1> QED
  BY <1>1, <1>2, <1>3, <1>4, <1>5, <1>6, <1>7, <1>8 DEF Next, Invoke, Handle

-----------------------------------------------------------------------------
(* Steps that run no service and read no request.                          *)
LEMMA ReadKept ==
  ASSUME TypeOK, ReadOnce, Monotone, UNCHANGED <<req, runs>>,
         \A k \in Conns : /\ reader'[k] = "call" => reader[k] = "call"
                          /\ reader[k] \in {"done", "panicked"}
                             => reader'[k] \in {"done", "panicked"}
  PROVE  ReadOnce'
BY DEF ReadOnce, Monotone, TypeOK

(* Over every step, the service of a call runs only when its request has   *)
(* been read, by a goroutine that reads no other.                          *)
LEMMA ReadStep ==
  ASSUME TypeOK, PiecesOwn, ReaderAccepted, ReadOnce, Monotone, [Next]_vars
  PROVE  ReadOnce'
<1> USE DEF clientVars, serverVars
<1>0. CASE UNCHANGED <<req, runs, reader>>
  BY <1>0, ReadKept
<1>1. ASSUME NEW c \in Calls, Invoke(c) PROVE ReadOnce'
  BY <1>0, <1>1 DEF Invoke, Connect, Encode, WriteHeader, WriteBody, Write, Receive,
     ReceivePart, ReceiveNothing
<1>2. ASSUME NEW k \in Conns, Split(k) PROVE ReadOnce'
  BY <1>0, <1>2 DEF Split
<1>3. ASSUME NEW k \in Conns, Accept(k) PROVE ReadOnce'
  <2>1. reader[k] = "none" /\ UNCHANGED <<req, runs>> /\ reader' = [reader EXCEPT ![k] = "limit"]
    BY <1>3 DEF Accept, ReaderAccepted
  <2> QED
    BY <2>1, ReadKept DEF TypeOK
<1>4. ASSUME NEW k \in Conns, Limit(k) PROVE ReadOnce'
  <2>1. /\ reader[k] = "limit" /\ UNCHANGED <<req, runs>>
        /\ \E l \in {"read", "done", "panicked"} : reader' = [reader EXCEPT ![k] = l]
    BY <1>4 DEF Limit, Answer, Panic, Reader
  <2> QED
    BY <2>1, ReadKept DEF TypeOK
<1>5. ASSUME NEW k \in Conns, Decode(k) PROVE ReadOnce'
  <2>1. CASE UNCHANGED req /\ \E l \in {"done", "panicked"} : reader' = [reader EXCEPT ![k] = l]
    <3>1. UNCHANGED runs
      BY <1>5 DEF Decode
    <3> QED
      BY <2>1, <3>1, ReadKept DEF TypeOK
  <2>2. CASE /\ Whole(k) /\ reader' = [reader EXCEPT ![k] = "call"]
             /\ req' = [req EXCEPT ![k] = up[k][1][1]]
    <3>0. 1 \in 1..Len(up[k]) /\ 2 \in 1..Len(up[k])
      BY <2>2, UpTypes DEF Whole
    <3>1. up[k][1] \in Pieces /\ up[k][2] \in Pieces
      BY <3>0, UpTypes
    <3>2. PICK c \in Calls : up[k][1][1] = c
      BY <3>1 DEF Pieces
    <3>3. up[k][2][1] = c /\ up[k][2][2] = "body"
      BY <2>2, <3>2 DEF Whole
    <3>4. PieceFor(k, up[k][2])
      BY <3>0 DEF PiecesOwn
    <3>5. conn[c] = k /\ Sent(c)
      BY <3>3, <3>4 DEF PieceFor
    <3>6. reader[k] = "read" /\ UNCHANGED runs
      BY <1>5 DEF Decode
    <3>7. \A d \in Calls : runs[d] > 0 => conn[d] # k
      BY <3>6 DEF ReadOnce
    <3> QED
      BY <2>2, <3>2, <3>5, <3>6, <3>7 DEF ReadOnce, Monotone, TypeOK
  <2> QED
    BY <1>5, <2>1, <2>2 DEF Decode, Answer, Panic, Reader
<1>6. ASSUME NEW k \in Conns, Serve(k) PROVE ReadOnce'
  <2>1. /\ reader[k] = "call" /\ UNCHANGED req
        /\ \E l \in {"done", "panicked"} : reader' = [reader EXCEPT ![k] = l]
    BY <1>6 DEF Serve, Answer, Panic, Reader
  <2>2. PICK c \in Calls : req[k] = c /\ conn[c] = k /\ Sent(c)
    BY <2>1 DEF ReadOnce
  <2>3. runs[c] = 0
    <3>1. ~(runs[c] > 0)
      BY <2>1, <2>2 DEF ReadOnce
    <3>2. runs[c] \in Nat
      BY DEF TypeOK
    <3> QED
      BY <3>1, <3>2
  <2>4. CASE UNCHANGED runs
    BY <2>1, <2>4, ReadKept DEF TypeOK
  <2>5. CASE runs' = [runs EXCEPT ![req[k]] = @ + 1]
    BY <2>1, <2>2, <2>3, <2>5 DEF ReadOnce, Monotone, TypeOK
  <2> QED
    BY <1>6, <2>4, <2>5 DEF Serve
<1>7. ASSUME NEW k \in Conns, Respond(k) \/ Cut(k) PROVE ReadOnce'
  BY <1>0, <1>7 DEF Respond, Cut
<1>8. CASE Stop
  BY <1>0, <1>8 DEF Stop
<1>9. CASE UNCHANGED vars
  BY <1>0, <1>9 DEF vars
<1> QED
  BY <1>1, <1>2, <1>3, <1>4, <1>5, <1>6, <1>7, <1>8, <1>9 DEF Next, Handle

-----------------------------------------------------------------------------
LEMMA ResponseKept ==
  ASSUME TypeOK, ReadOnce, ReadOnce', Monotone, [Next]_vars,
         NEW k \in Conns, NEW r \in Results, ResponseFor(k, r)
  PROVE  ResponseFor(k, r)'
<1>1. ASSUME NEW c \in Calls, runs[c] = 1 PROVE runs'[c] = 1
  <2>1. \/ UNCHANGED runs
        \/ \E j \in Conns : reader[j] = "call" /\ runs' = [runs EXCEPT ![req[j]] = @ + 1]
    BY DEF Next, Invoke, Handle, Connect, Encode, WriteHeader, WriteBody, Write, Receive,
           ReceiveNothing, ReceivePart, Split, Accept, Limit, Decode, Serve, Respond, Cut, Stop,
           vars, clientVars, serverVars
  <2>2. ASSUME NEW j \in Conns, reader[j] = "call", runs' = [runs EXCEPT ![req[j]] = @ + 1]
        PROVE  runs'[c] = 1
    <3>1. req[j] # c
      BY <1>1, <2>2 DEF ReadOnce
    <3> QED
      BY <1>1, <2>2, <3>1 DEF TypeOK
  <2> QED
    BY <1>1, <2>1, <2>2
<1> QED
  BY <1>1 DEF ResponseFor, Monotone, Results, Responses, NoResponse, Response

(* Over every step, what a connection carries back is for a call of its    *)
(* own, and success only what a run of the service gave.                   *)
LEMMA ResponsesStep ==
  ASSUME TypeOK, ResponsesOwn, ReadOnce, ReadOnce', Monotone, [Next]_vars
  PROVE  ResponsesOwn'
<1> USE DEF clientVars, serverVars
<1>1. ASSUME NEW k \in Conns, NEW r \in Results, ResponseFor(k, r)
      PROVE  ResponseFor(k, r)'
  BY <1>1, ResponseKept
<1>2. /\ \A k \in Conns : /\ ResponseFor(k, rspChan[k]) /\ rspChan[k] \in Results
                          /\ ResponseFor(k, down[k]) /\ down[k] \in Results
      /\ \A c \in Calls : /\ ResponseFor(conn[c], result[c]) /\ result[c] \in Results
                          /\ conn[c] \in Conns
  BY ResponseTypes DEF ResponsesOwn, TypeOK
<1>3. ASSUME NEW k \in Conns, NEW code \in {"none", "error", "cut", "500", "700"}
      PROVE  ResponseFor(k, Response(code, None))'
  BY DEF ResponseFor, Response
<1>4. ASSUME \A k \in Conns : \/ rspChan'[k] \in {rspChan[k], NoResponse, Response("500", None),
                                                  Response("700", None)}
                              \/ ResponseFor(k, rspChan[k])'
      PROVE  \A k \in Conns : ResponseFor(k, rspChan[k])'
  <2> TAKE k \in Conns
  <2>1. PICK r : r = rspChan[k]
    OBVIOUS
  <2>2. ResponseFor(k, r)'
    BY <1>1, <1>2, <2>1
  <2> QED
    BY <1>3, <1>4, <2>1, <2>2 DEF NoResponse
<1>5. ASSUME \A k \in Conns : down'[k] \in {down[k], NoResponse, Parts, rspChan[k]}
      PROVE  \A k \in Conns : ResponseFor(k, down[k])'
  <2> TAKE k \in Conns
  <2>1. PICK r, q : r = down[k] /\ q = rspChan[k]
    OBVIOUS
  <2>2. ResponseFor(k, r)' /\ ResponseFor(k, q)'
    BY <1>1, <1>2, <2>1
  <2> QED
    BY <1>3, <1>5, <2>1, <2>2, ResponseTypes DEF NoResponse
<1>6. ASSUME \A c \in Calls : result'[c] \in {result[c], Response("error", None),
                                              Response("cut", None), down[conn[c]]}
      PROVE  \A c \in Calls : ResponseFor(conn[c], result[c])'
  <2> TAKE c \in Calls
  <2>1. PICK r, q : r = result[c] /\ q = down[conn[c]]
    OBVIOUS
  <2>2. PICK k \in Conns : k = conn[c] /\ k = conn'[c]
    BY <1>2 DEF Monotone
  <2>3. ResponseFor(k, r)' /\ ResponseFor(k, q)'
    BY <1>1, <1>2, <2>1, <2>2
  <2> QED
    BY <1>3, <1>6, <2>1, <2>2, <2>3
<1>7. \A k \in Conns : \/ rspChan'[k] \in {rspChan[k], NoResponse, Response("500", None),
                                           Response("700", None)}
                       \/ ResponseFor(k, rspChan[k])'
  <2>1. ASSUME NEW j \in Conns, NEW code \in {"500", "700"}, Answer(j, code, None)
        PROVE  <1>7!:
    BY <2>1 DEF Answer, TypeOK
  <2>2. ASSUME NEW j \in Conns, Serve(j) PROVE <1>7!:
    <3>1. PICK c \in Calls : /\ req[j] = c /\ conn'[c] = j /\ runs[c] = 0 /\ reader[j] = "call"
      <4>1. reader[j] = "call"
        BY <2>2 DEF Serve
      <4>2. PICK c \in Calls : req[j] = c /\ conn[c] = j
        BY <4>1 DEF ReadOnce
      <4>3. ~(runs[c] > 0) /\ runs[c] \in Nat
        BY <4>1, <4>2 DEF ReadOnce, TypeOK
      <4> QED
        BY <4>1, <4>2, <4>3 DEF Monotone
    <3>2. CASE Answer(j, "500", None) \/ Panic(j)
      BY <2>1, <3>2 DEF Panic
    <3>3. CASE runs' = [runs EXCEPT ![c] = @ + 1] /\ Answer(j, "200", c)
      <4>1. runs'[c] = 1
        BY <3>1, <3>3 DEF TypeOK
      <4>2. ResponseFor(j, Response("200", c))'
        BY <3>1, <4>1 DEF ResponseFor, Response
      <4> QED
        BY <3>3, <4>2 DEF Answer, TypeOK
    <3>4. CASE Answer(j, "500", c)
      <4>1. ResponseFor(j, Response("500", c))'
        BY <3>1 DEF ResponseFor, Response
      <4> QED
        BY <3>4, <4>1 DEF Answer, TypeOK
    <3> QED
      BY <2>2, <3>1, <3>2, <3>3, <3>4 DEF Serve
  <2>3. CASE UNCHANGED rspChan
    BY <2>3
  <2> QED
    BY <2>1, <2>2, <2>3 DEF Next, Invoke, Handle, Connect, Encode, WriteHeader, WriteBody,
       Write, Receive, ReceiveNothing, ReceivePart, Split, Accept, Limit, Decode, Panic, Respond,
       Cut, Stop, vars
<1>8. \A k \in Conns : down'[k] \in {down[k], NoResponse, Parts, rspChan[k]}
  <2>1. \/ UNCHANGED down
        \/ \E j \in Conns : \/ down' = [down EXCEPT ![j] = NoResponse]
                            \/ down' = [down EXCEPT ![j] = Parts]
                            \/ down' = [down EXCEPT ![j] = rspChan[j]]
    BY <1>2 DEF Next, Invoke, Handle, Connect, Encode, WriteHeader, WriteBody,
       Write, Receive, ReceiveNothing, ReceivePart, Split, Accept, Limit, Decode, Serve, Respond,
       Cut, Stop, vars
  <2> QED
    BY <2>1 DEF TypeOK
<1>9. \A c \in Calls : result'[c] \in {result[c], Response("error", None),
                                       Response("cut", None), down[conn[c]]}
  <2>1. ASSUME NEW d \in Calls,
               NEW r \in {Response("error", None), Response("cut", None), down[conn[d]]},
               Return(d, r)
        PROVE  <1>9!:
    BY <2>1 DEF Return, TypeOK
  <2>2. ASSUME NEW d \in Calls, Again(d) PROVE <1>9!:
    BY <2>1, <2>2 DEF Again
  <2>3. ASSUME NEW d \in Calls, Connect(d) PROVE <1>9!:
    BY <2>3 DEF Connect, TypeOK
  <2>4. ASSUME NEW d \in Calls, ReceivePart(d) PROVE <1>9!:
    BY <2>1, <2>4 DEF ReceivePart
  <2>5. CASE UNCHANGED result
    BY <2>5
  <2> QED
    BY <2>1, <2>2, <2>3, <2>4, <2>5 DEF Next, Invoke, Handle, Encode, WriteHeader, WriteBody,
       Write, Receive, ReceiveNothing, Split, Accept, Limit, Decode, Serve, Respond, Cut, Stop, vars
<1> QED
  BY <1>4, <1>5, <1>6, <1>7, <1>8, <1>9 DEF ResponsesOwn

-----------------------------------------------------------------------------
LEMMA CarriedStep ==
  ASSUME TypeOK, Carried, [Next]_vars
  PROVE  Carried'
<1>1. Monotone
  BY MonotoneStep
<1>2. FailedStays'
  BY <1>1, FailedStep DEF Carried
<1>3. PiecesOwn'
  BY <1>1, PiecesStep DEF Carried
<1>4. ReaderAccepted'
  BY AcceptedStep DEF Carried
<1>5. ReadOnce'
  BY <1>1, ReadStep DEF Carried
<1>6. ResponsesOwn'
  BY <1>1, <1>5, ResponsesStep DEF Carried
<1> QED
  BY <1>2, <1>3, <1>4, <1>5, <1>6 DEF Carried

LEMMA InitCarried == Init => Carried
<1> SUFFICES ASSUME Init PROVE Carried
  OBVIOUS
<1>1. FailedStays /\ ReaderAccepted /\ ReadOnce
  BY DEF Init, FailedStays, ReaderAccepted, ReadOnce, NoResponse, Response
<1>2. PiecesOwn
  BY DEF Init, PiecesOwn
<1>3. ResponsesOwn
  <2>1. \A c \in Calls : conn[c] \in Conns
    BY ClientsAssumption DEF Init
  <2> QED
    BY <2>1 DEF Init, ResponsesOwn, ResponseFor, NoResponse, Response
<1> QED
  BY <1>1, <1>2, <1>3 DEF Carried

(* What every place of a request or an answer says of its call holds in    *)
(* every state.                                                            *)
THEOREM CarriedCorrect == Spec => []Carried
<1>1. Init => TypeOK /\ Carried
  BY InitType, InitCarried
<1>2. TypeOK /\ Carried /\ [Next]_vars => (TypeOK /\ Carried)'
  BY TypeStep, CarriedStep
<1> QED
  BY <1>1, <1>2, PTL DEF Spec

(* However connections are cut, goroutines panic and the proxy retries, no *)
(* call runs its service twice: Invoke fails only before the request is    *)
(* complete, and readHandle reads one request of a connection.             *)
THEOREM RunsAtMostOnce == Spec => []AtMostOnce
<1>1. ASSUME TypeOK, Carried PROVE AtMostOnce
  <2> SUFFICES ASSUME NEW c \in Calls PROVE runs[c] <= 1
    BY DEF AtMostOnce
  <2>1. runs[c] \in Nat /\ (runs[c] > 0 => runs[c] = 1)
    BY <1>1 DEF TypeOK, Carried, ReadOnce
  <2> QED
    BY <2>1
<1> QED
  BY <1>1, TypeCorrect, CarriedCorrect, PTL

(* A call of the proxy never gets the answer to another call, nor success  *)
(* without a run, though the client does not compare the ids: one that     *)
(* shares its connection with no other can only meet its own.              *)
THEOREM AnswersOwnCall == Spec => []AnswerIsOwn
<1>1. ASSUME TypeOK, Carried PROVE AnswerIsOwn
  <2> SUFFICES ASSUME NEW c \in Calls, ~Shared(c)
               PROVE  /\ result[c].to \in {c, None}
                      /\ result[c].code = "200" => result[c].to = c /\ runs[c] = 1
    BY DEF AnswerIsOwn
  <2>1. ResponseFor(conn[c], result[c])
    BY <1>1 DEF Carried, ResponsesOwn
  <2>2. \A d \in Calls : conn[d] = conn[c] => d = c
    BY DEF Shared
  <2>3. result[c].to \in Calls \cup {None}
    BY <1>1 DEF TypeOK, Results, Responses, NoResponse, Response
  <2> QED
    BY <2>1, <2>2, <2>3 DEF ResponseFor
<1> QED
  BY <1>1, TypeCorrect, CarriedCorrect, PTL

(* The retries of the proxy are of no use, whatever their number: they use *)
(* the connection whose write has failed, so a call that makes a second    *)
(* attempt never runs and returns an error.                                *)
THEOREM RetriesNeverHelp == Spec => []RetryNeverHelps
<1>1. ASSUME TypeOK, Carried PROVE RetryNeverHelps
  <2> SUFFICES ASSUME NEW c \in Calls, attempt[c] > 1
               PROVE  runs[c] = 0 /\ result[c].code \in {"none", "error"}
    BY DEF RetryNeverHelps
  <2>1. attempt[c] \in Nat /\ runs[c] \in Nat
    BY <1>1 DEF TypeOK
  <2>2. ~Sent(c)
    BY <2>1 DEF Sent
  <2> QED
    BY <1>1, <2>1, <2>2 DEF Carried, FailedStays, ReadOnce
<1> QED
  BY <1>1, TypeCorrect, CarriedCorrect, PTL
=============================================================================
