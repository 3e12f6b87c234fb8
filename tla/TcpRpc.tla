------------------------------- MODULE TcpRpc -------------------------------
(***************************************************************************)
(* Remote calls over rpc/tcp.go: the client with its proxy, the server     *)
(* with the two goroutines it starts for a connection, and the frames      *)
(* between them.                                                           *)
(*                                                                         *)
(* A call of the proxy connects for itself and invokes up to Retries times *)
(* on that connection; calls that share a GrTcpClient invoke once each on  *)
(* its one connection.  A frame is written in two pieces, header and body. *)
(* The network may cut a connection at any time, and a side that closes    *)
(* with pieces it has not read resets it: an answer on its way may then be *)
(* lost.  The registry is external and names the server; its errors panic  *)
(* in the caller and are left out.  The codec is Gob: with ProtoBuff the   *)
(* client keeps the data of an answer and loses its code.                  *)
(***************************************************************************)
EXTENDS Naturals, Sequences, FiniteSets

CONSTANTS Calls,    \* the remote calls
          Conns,    \* the connections, one for each client
          Clients,  \* which calls may share a client: a set of [Calls -> Conns]
          Retries,  \* the values of Retries in TcpClientOption
          Limiters  \* whether SetLimiter was called: a set of BOOLEANs

ASSUME RetriesAssumption  == Retries \subseteq Nat
ASSUME ClientsAssumption  == Clients \subseteq [Calls -> Conns]
ASSUME LimitersAssumption == Limiters \subseteq BOOLEAN

None == "none"

VARIABLES
  limiter,  \* whether the server has a limiter
  retries,  \* the option of the clients
  conn,     \* of each call: the connection of its client
  listening,
  link,     \* of each connection: "new", "backlog", "open", "closed"
  up,       \* the pieces the server has not read
  down,     \* the answer the client has not read
  reader,   \* readHandle of the server: "none", "limit", "read", "call", "done", "panicked"
  req,      \* the call whose request it has read, or None
  rspChan,  \* the response for writeHandle
  writer,   \* writeHandle of the server: "wait", "done"
  pc,       \* of each call: "idle", "encode", "header", "body", "wait", "done", "stuck"
  attempt,  \* of each call: Invokes begun
  result,   \* of each call: what it returned
  runs      \* of each call: how often its service ran (history)

clientVars == <<conn, retries, pc, attempt, result>>
serverVars == <<limiter, listening, reader, req, rspChan, writer, runs>>
netVars    == <<link, up, down>>
vars == <<limiter, retries, conn, listening, link, up, down, reader, req, rspChan,
          writer, pc, attempt, result, runs>>

(* A response: its code and the call it answers.  A call may also return   *)
(* an error of Connect or Invoke, or the code 500 the client makes of a    *)
(* frame it cannot read ("cut").                                           *)
Codes     == {"200", "500", "700"}
Response(code, to) == [code |-> code, to |-> to]
NoResponse == Response("none", None)
Responses  == [code : Codes, to : Calls \cup {None}] \cup {NoResponse}
Results    == Responses \cup {Response("error", None), Response("cut", None)}

(* An answer of which another reader has taken a part.                     *)
Parts      == Response("cut", None)

Shared(c) == \E d \in Calls \ {c} : conn[d] = conn[c]

Init ==
  /\ limiter \in Limiters /\ retries \in Retries /\ listening = TRUE
  /\ conn \in Clients
  /\ link = [k \in Conns |-> "new"]
  /\ up = [k \in Conns |-> <<>>] /\ down = [k \in Conns |-> NoResponse]
  /\ reader = [k \in Conns |-> "none"] /\ writer = [k \in Conns |-> "wait"]
  /\ req = [k \in Conns |-> None] /\ rspChan = [k \in Conns |-> NoResponse]
  /\ pc = [c \in Calls |-> "idle"] /\ attempt = [c \in Calls |-> 0]
  /\ result = [c \in Calls |-> NoResponse] /\ runs = [c \in Calls |-> 0]

Goto(c, l) == pc' = [pc EXCEPT ![c] = l]
Close(k)   == link' = [link EXCEPT ![k] = "closed"]

-----------------------------------------------------------------------------
(* The client *)

(* Call and Connect; a client that is shared is connected once.  Without   *)
(* retries the connection is made, never used and never closed.            *)
Connect(c) ==
  /\ pc[c] = "idle"
  /\ \/ /\ link[conn[c]] = "new" /\ listening
        /\ link' = [link EXCEPT ![conn[c]] = "backlog"]
        /\ IF Shared(c) \/ retries > 0
           THEN Goto(c, "encode") /\ UNCHANGED result
           ELSE Goto(c, "done") /\ result' = [result EXCEPT ![c] = Response("error", None)]
     \/ Shared(c) /\ link[conn[c]] # "new" /\ Goto(c, "encode") /\ UNCHANGED <<link, result>>
     \/ /\ link[conn[c]] = "new"
        /\ Goto(c, "done") /\ result' = [result EXCEPT ![c] = Response("error", None)]
        /\ UNCHANGED link
  /\ attempt' = [attempt EXCEPT ![c] = 1]
  /\ UNCHANGED <<conn, retries, up, down, serverVars>>

(* The call returns.  The proxy closes its connection, a lone Invoke does  *)
(* not.                                                                    *)
Return(c, r) ==
  /\ Goto(c, "done") /\ result' = [result EXCEPT ![c] = r]
  /\ IF Shared(c) THEN UNCHANGED link ELSE Close(conn[c])
  /\ UNCHANGED attempt

(* Mutant: every attempt has a connection of its own.                      *)
MutAgain(c) ==
  IF ~Shared(c) /\ attempt[c] < retries
  THEN /\ attempt' = [attempt EXCEPT ![c] = @ + 1] /\ Goto(c, "encode")
       /\ link' = [link EXCEPT ![conn[c]] = "open"] /\ UNCHANGED result
  ELSE Return(c, Response("error", None))

(* Mutant: one attempt too many.                                           *)
MutAgainMore(c) ==
  IF ~Shared(c) /\ attempt[c] <= retries
  THEN /\ attempt' = [attempt EXCEPT ![c] = @ + 1] /\ Goto(c, "encode")
       /\ UNCHANGED <<link, result>>
  ELSE Return(c, Response("error", None))

(* Invoke has returned an error: the proxy invokes again, on the same      *)
(* connection.                                                             *)
Again(c) ==
  IF ~Shared(c) /\ attempt[c] < retries
  THEN /\ attempt' = [attempt EXCEPT ![c] = @ + 1] /\ Goto(c, "encode")
       /\ UNCHANGED <<link, result>>
  ELSE Return(c, Response("error", None))

(* The arguments are encoded, the same way at every attempt, or cannot be. *)
Encode(c) ==
  /\ pc[c] = "encode"
  /\ \/ Goto(c, "header") /\ UNCHANGED <<link, attempt, result>>
     \/ attempt[c] = 1 /\ Return(c, Response("error", None))
  /\ UNCHANGED <<conn, retries, up, down, serverVars>>

(* One write of Invoke.  After the other side has closed, it may go        *)
(* nowhere without an error and cause a reset; once one has failed, all    *)
(* fail.                                                                   *)
Write(c, piece, next) ==
  /\ pc[c] = piece
  /\ \/ /\ link[conn[c]] # "closed"
        /\ up' = [up EXCEPT ![conn[c]] = Append(@, <<c, piece>>)]
        /\ Goto(c, next) /\ UNCHANGED <<link, attempt, result, down>>
     \/ /\ link[conn[c]] = "closed" /\ attempt[c] = 1
        /\ down' \in {down, [down EXCEPT ![conn[c]] = NoResponse]}
        /\ Goto(c, next) /\ UNCHANGED <<up, link, attempt, result>>
     \/ link[conn[c]] = "closed" /\ Again(c) /\ UNCHANGED <<up, down>>
  /\ UNCHANGED <<conn, retries, serverVars>>
WriteHeader(c) == Write(c, "header", "body")
WriteBody(c)   == Write(c, "body", "wait")

(* readHandle of the client takes what comes; the id is not compared.      *)
Receive(c) ==
  /\ pc[c] = "wait" /\ down[conn[c]] \notin {NoResponse, Parts}
  /\ Return(c, down[conn[c]])
  /\ down' = [down EXCEPT ![conn[c]] = NoResponse]
  /\ UNCHANGED <<conn, retries, up, serverVars>>

(* Two readers on one connection take parts of one frame.                  *)
Split(k) ==
  /\ down[k] \notin {NoResponse, Parts}
  /\ \E c, d \in Calls : c # d /\ conn[c] = k /\ conn[d] = k /\ pc[c] = "wait" /\ pc[d] = "wait"
  /\ down' = [down EXCEPT ![k] = Parts]
  /\ UNCHANGED <<clientVars, link, up, serverVars>>

(* A part of a frame, and perhaps not the last: an error, which is         *)
(* answered with a code 500; or a length that is none, on which            *)
(* decodeFrame panics.  readHandle then closes the connection and sends    *)
(* nothing, and Invoke waits for ever.                                     *)
ReceivePart(c) ==
  /\ pc[c] = "wait" /\ down[conn[c]] = Parts
  /\ \/ Return(c, Response("cut", None))
     \/ Goto(c, "stuck") /\ Close(conn[c]) /\ UNCHANGED <<attempt, result>>
  /\ down' \in {down, [down EXCEPT ![conn[c]] = NoResponse]}
  /\ UNCHANGED <<conn, retries, up, serverVars>>

(* Mutant: an answer that was cut off is asked for again, on a new         *)
(* connection.                                                             *)
MutReceiveNothing(c) ==
  /\ pc[c] = "wait" /\ link[conn[c]] = "closed" /\ down[conn[c]] = NoResponse
  /\ Goto(c, "header") /\ UNCHANGED <<attempt, result>>
  /\ link' = [link EXCEPT ![conn[c]] = "backlog"]
  /\ up' = [up EXCEPT ![conn[c]] = <<>>]
  /\ reader' = [reader EXCEPT ![conn[c]] = "none"]
  /\ UNCHANGED <<conn, retries, down, limiter, listening, req, rspChan, writer, runs>>

(* The connection ends without a frame: a code 500, and no error.          *)
ReceiveNothing(c) ==
  /\ pc[c] = "wait" /\ link[conn[c]] = "closed" /\ down[conn[c]] = NoResponse
  /\ Return(c, Response("cut", None))
  /\ UNCHANGED <<conn, retries, up, down, serverVars>>

-----------------------------------------------------------------------------
(* The server *)

(* Run *)
Accept(k) ==
  /\ link[k] = "backlog" /\ listening
  /\ link' = [link EXCEPT ![k] = "open"]
  /\ reader' = [reader EXCEPT ![k] = "limit"]
  /\ UNCHANGED <<clientVars, up, down, limiter, listening, req, rspChan, writer, runs>>

(* Run goes on asking for connections; those not accepted are reset.       *)
Stop ==
  /\ listening /\ listening' = FALSE
  /\ link' = [k \in Conns |-> IF link[k] = "backlog" THEN "closed" ELSE link[k]]
  /\ UNCHANGED <<clientVars, up, down, limiter, reader, req, rspChan, writer, runs>>

Reader(k, l) == reader' = [reader EXCEPT ![k] = l]

(* Mutant: the connection is left open.                                    *)
MutPanic(k) == Reader(k, "panicked") /\ UNCHANGED <<link, rspChan>>

(* A panic of readHandle: the connection is closed, and nothing is given   *)
(* to writeHandle.                                                         *)
Panic(k) == Reader(k, "panicked") /\ Close(k) /\ UNCHANGED rspChan

(* Mutant: the channel is made once, for all connections.                  *)
MutAnswer(k, code, to) ==
  /\ Reader(k, "done")
  /\ \E j \in Conns :
       /\ rspChan[j] = NoResponse
       /\ rspChan' = [rspChan EXCEPT ![j] = Response(code, to)]
  /\ UNCHANGED link

Answer(k, code, to) ==
  /\ Reader(k, "done")
  /\ rspChan' = [rspChan EXCEPT ![k] = Response(code, to)]
  /\ UNCHANGED link

(* A server without a limiter panics on the nil one.                       *)
Limit(k) ==
  /\ reader[k] = "limit"
  /\ \/ limiter  /\ Reader(k, "read") /\ UNCHANGED <<link, rspChan>>
     \/ limiter  /\ Answer(k, "700", None)
     \/ ~limiter /\ Panic(k)
  /\ UNCHANGED <<clientVars, up, down, limiter, listening, req, writer, runs>>

Whole(k)   == Len(up[k]) >= 2 /\ up[k][2] = <<up[k][1][1], "body">>
Garbled(k) == Len(up[k]) >= 3 /\ ~Whole(k)
Short(k)   == \A i \in 2..Len(up[k]) : up[k][i] # <<up[k][1][1], "body">>

(* decodeFrame: a whole frame; the pieces of two calls taken for one,      *)
(* which UnCompress cannot read and panics on, as it closes the reader it  *)
(* has not got; or the end of the connection before the length announced.  *)
Decode(k) ==
  /\ reader[k] = "read"
  /\ \/ /\ Whole(k) /\ Reader(k, "call")
        /\ req' = [req EXCEPT ![k] = up[k][1][1]]
        /\ up' = [up EXCEPT ![k] = Tail(Tail(@))]
        /\ UNCHANGED <<link, rspChan>>
     \/ /\ Garbled(k) /\ Panic(k)
        /\ up' = [up EXCEPT ![k] = Tail(Tail(@))] /\ UNCHANGED req
     \/ /\ link[k] = "closed" /\ Short(k) /\ Answer(k, "500", None)
        /\ UNCHANGED <<req, up>>
  /\ UNCHANGED <<clientVars, down, limiter, listening, writer, runs>>

(* Mutant: a result that is no error is not sent.                          *)
MutServe(k) ==
  /\ reader[k] = "call"
  /\ runs' = [runs EXCEPT ![req[k]] = @ + 1]
  /\ Reader(k, "done") /\ UNCHANGED <<link, rspChan>>
  /\ UNCHANGED <<clientVars, up, down, limiter, listening, req, writer>>

(* No service of that name; no such method, whose zero Value panics; or    *)
(* the method runs and returns a result, an error, or panics.              *)
Serve(k) ==
  /\ reader[k] = "call"
  /\ \/ Answer(k, "500", None) /\ UNCHANGED runs
     \/ Panic(k) /\ UNCHANGED runs
     \/ /\ runs' = [runs EXCEPT ![req[k]] = @ + 1]
        /\ Answer(k, "200", req[k]) \/ Answer(k, "500", req[k]) \/ Panic(k)
  /\ UNCHANGED <<clientVars, up, down, limiter, listening, req, writer>>

(* writeHandle sends one response and closes; one that cannot be encoded   *)
(* is not sent.  Closing with pieces unread may lose it.                   *)
Respond(k) ==
  /\ writer[k] = "wait" /\ rspChan[k] # NoResponse
  /\ writer' = [writer EXCEPT ![k] = "done"] /\ Close(k)
  /\ \/ link[k] = "open" /\ down' = [down EXCEPT ![k] = rspChan[k]]
     \/ (link[k] = "closed" \/ up[k] # <<>> \/ rspChan[k].code = "200") /\ UNCHANGED down
  /\ UNCHANGED <<clientVars, up, limiter, listening, reader, req, rspChan, runs>>

(* The network fails, with or without what was on its way.                 *)
Cut(k) ==
  /\ link[k] \in {"backlog", "open"} /\ Close(k)
  /\ up' \in {up, [up EXCEPT ![k] = <<>>]}
  /\ UNCHANGED <<clientVars, down, serverVars>>

Invoke(c) ==
  \/ Connect(c) \/ Encode(c) \/ WriteHeader(c) \/ WriteBody(c)
  \/ Receive(c) \/ ReceivePart(c) \/ ReceiveNothing(c)

Handle(k) == Accept(k) \/ Limit(k) \/ Decode(k) \/ Serve(k) \/ Respond(k)

Next ==
  \/ \E c \in Calls : Invoke(c)
  \/ \E k \in Conns : Handle(k) \/ Split(k) \/ Cut(k)
  \/ Stop

Spec == Init /\ [][Next]_vars

(* The goroutines run, services return, and an end of the connection is    *)
(* noticed.                                                                *)
FairSpec ==
  /\ Spec
  /\ \A c \in Calls : WF_vars(Invoke(c))
  /\ \A k \in Conns : WF_vars(Handle(k))

-----------------------------------------------------------------------------
(* Properties *)

(* Types, and that the attempts of a call stay within its Retries.         *)
TypeOK ==
  /\ limiter \in BOOLEAN /\ retries \in Retries /\ listening \in BOOLEAN
  /\ conn \in [Calls -> Conns]
  /\ link \in [Conns -> {"new", "backlog", "open", "closed"}]
  /\ up \in [Conns -> Seq(Calls \X {"header", "body"})]
  /\ down \in [Conns -> Responses \cup {Parts}]
  /\ rspChan \in [Conns -> Responses]
  /\ reader \in [Conns -> {"none", "limit", "read", "call", "done", "panicked"}]
  /\ req \in [Conns -> Calls \cup {None}] /\ writer \in [Conns -> {"wait", "done"}]
  /\ pc \in [Calls -> {"idle", "encode", "header", "body", "wait", "done", "stuck"}]
  /\ attempt \in [Calls -> Nat] /\ \A c \in Calls : attempt[c] <= 1 \/ attempt[c] <= retries
  /\ runs \in [Calls -> Nat]
  /\ result \in [Calls -> Results]

(* A call runs its service at most once, with its retries: Invoke returns  *)
(* an error only before its request is complete, and the server reads one  *)
(* request of a connection.                                                *)
AtMostOnce == \A c \in Calls : runs[c] <= 1

(* A call of the proxy gets an answer to its own request or one to none,   *)
(* and success only if its service ran: true because a connection carries  *)
(* one request, since the client does not compare the ids.                 *)
AnswerIsOwn ==
  \A c \in Calls : ~Shared(c) =>
    /\ result[c].to \in {c, None}
    /\ result[c].code = "200" => result[c].to = c /\ runs[c] = 1

(* The retries of the proxy never help: after a write has failed on the    *)
(* connection, the call never runs and returns an error.                   *)
RetryNeverHelps ==
  \A c \in Calls :
    attempt[c] > 1 => runs[c] = 0 /\ result[c].code \in {"none", "error"}

(* Invoke waits for its answer without a timeout: every end of the         *)
(* server's goroutines answers or closes the connection, so it returns.    *)
(* The exception is a call that shares its connection and whose reader     *)
(* panics on a part of an answer.                                          *)
CallReturns ==
  \A c \in Calls : pc[c] # "idle" ~> pc[c] = "done" \/ (Shared(c) /\ pc[c] = "stuck")

(* Every return of the server's readHandle leaves a response for           *)
(* writeHandle, which would else wait for ever; a panic does not.          *)
WriterEnds == \A k \in Conns : reader[k] = "done" ~> writer[k] = "done"
=============================================================================
