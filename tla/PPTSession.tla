----------------------------- MODULE PPTSession -----------------------------
(***************************************************************************)
(* One PPT connection after its handshake: an OPeNDAPClient of the OLFS    *)
(* and the beslistener child that serves it (BESServerHandler::execute).   *)
(* The client sends one request after the other and copies each answer to  *)
(* its caller; messages are chunks on a TCP connection, which delivers     *)
(* what was written in order until one end closes it.                      *)
(*                                                                         *)
(* A chunk stands for its header and its body; `cut' marks the one whose   *)
(* body the end of the connection cuts off.  Its load is the set of what   *)
(* the body holds: parts of the response, the error document, or both.     *)
(***************************************************************************)
EXTENDS Naturals, Sequences

CONSTANTS
  MaxRequests,  \* bound: requests of the client
  MaxChunks,    \* bound: data chunks of a response
  CanDie        \* the child may be killed, or crash in a data handler

ASSUME SessionAssumption ==
  MaxRequests \in Nat /\ MaxChunks \in Nat /\ CanDie \in BOOLEAN

VARIABLES
  toServer,  \* chunks on the way to the child
  toClient,  \* chunks on the way to the client
  \* the client: NewPPTClient, its ChunkedInputStream and besTransaction()
  cpc,       \* where it is
  req,       \* number of the request it sent last
  isError,   \* local of readChunkedMessage()
  stuck,     \* availableInChunk() > 0: a chunk began whose body never came
  out, err,  \* the chunks written to the streams of the caller
  result,    \* how the last besTransaction() ended
  \* the child: BESServerHandler::execute, its PPTStreamBuf
  spc,       \* where it is
  exiting,   \* extensions["status"] is PPT_EXIT_NOW
  cur,       \* the request in ss
  buf,       \* what PPTStreamBuf holds
  answer     \* per request: chunks written, status, whether the answer ended

clientVars == <<cpc, req, isError, stuck, out, err, result>>
serverVars == <<spc, exiting, cur, buf, answer>>
vars == <<toServer, toClient, clientVars, serverVars>>

Requests == 1..MaxRequests

Loads == SUBSET {"response", "error"}
Chunk == [type : {"d", "x", "last"}, of : 0..MaxRequests, n : 0..MaxChunks + 1, load : Loads, cut : BOOLEAN]

Plain(type, of) == [type |-> type, of |-> of, n |-> 0, load |-> {}, cut |-> FALSE]
DataChunk(of, n, load) == [type |-> "d", of |-> of, n |-> n, load |-> load, cut |-> FALSE]

ClientOpen == cpc # "closed"
ServerOpen == spc # "gone"

Init ==
  /\ toServer = <<>> /\ toClient = <<>>
  /\ cpc = "idle" /\ req = 0 /\ isError = FALSE /\ stuck = FALSE
  /\ out = <<>> /\ err = <<>> /\ result = "none"
  /\ spc = "reading" /\ exiting = FALSE /\ cur = 0 /\ buf = {}
  /\ answer = [r \in Requests |-> [chunks |-> 0, status |-> "none", ended |-> FALSE]]

-----------------------------------------------------------------------------
(* The client. *)

\* besTransaction() ends; the client goes back to the pool, which keeps it
\* unless the end was a PPTException.
Ends(how) ==
  /\ result' = how
  /\ cpc' = "idle"

\* A PPTException: closeConnection(); returnClient() discards the client.
Fails ==
  /\ result' = "PPTException"
  /\ cpc' = "closed"

\* sendXMLRequest() writes the request to the chunked stream ...
SendRequest ==
  /\ cpc = "idle" /\ req < MaxRequests
  /\ req' = req + 1
  /\ out' = <<>> /\ err' = <<>> /\ result' = "none" /\ isError' = FALSE
  /\ toServer' = Append(toServer, DataChunk(req + 1, 0, {}))
  /\ cpc' = "sending"
  /\ UNCHANGED <<toClient, stuck, serverVars>>

\* ... and finish() adds the closing chunk.
SendLast ==
  /\ cpc = "sending"
  /\ toServer' = Append(toServer, Plain("last", req))
  /\ cpc' = "reading"
  /\ UNCHANGED <<toClient, req, isError, stuck, out, err, result, serverVars>>

\* A write fails: closeConnection(false).
SendFails ==
  /\ cpc = "sending" /\ ~ServerOpen
  /\ Fails
  /\ UNCHANGED <<toServer, toClient, req, isError, stuck, out, err, serverVars>>

\* readChunkedMessage() reads a chunk of the answer and passes its body on.
ReadData ==
  /\ cpc = "reading" /\ ~stuck /\ toClient # <<>>
  /\ LET c == Head(toClient) IN
     /\ c.type = "d" /\ ~c.cut
     /\ IF isError
          THEN err' = Append(err, c) /\ UNCHANGED out
          ELSE out' = Append(out, c) /\ UNCHANGED err
  /\ toClient' = Tail(toClient)
  /\ UNCHANGED <<toServer, cpc, req, isError, stuck, result, serverVars>>

\* The stream of the caller does not take the body: an IOException, for which
\* getResponse() closes the connection.
WriteFails ==
  /\ cpc = "reading" /\ ~stuck /\ toClient # <<>>
  /\ Head(toClient).type = "d"
  /\ toClient' = Tail(toClient)
  /\ toServer' = toServer \o <<Plain("x", req), Plain("last", req)>>
  /\ Fails
  /\ UNCHANGED <<req, isError, stuck, out, err, serverVars>>

\* An extension: status=error.  exit=true is only logged.
ReadExtension ==
  /\ cpc = "reading" /\ ~stuck /\ toClient # <<>>
  /\ Head(toClient).type = "x" /\ ~Head(toClient).cut
  /\ isError' = TRUE
  /\ toClient' = Tail(toClient)
  /\ UNCHANGED <<toServer, cpc, req, stuck, out, err, result, serverVars>>

\* Mutant: the closing chunk makes the caller forget the error.
ReadLastForgets ==
  /\ cpc = "reading" /\ ~stuck /\ toClient # <<>>
  /\ Head(toClient).type = "last"
  /\ toClient' = Tail(toClient)
  /\ Ends("true")
  /\ UNCHANGED <<toServer, req, isError, stuck, out, err, serverVars>>

\* The closing chunk: readChunkHeader() returns -1, and the answer is complete.
ReadLast ==
  /\ cpc = "reading" /\ ~stuck /\ toClient # <<>>
  /\ Head(toClient).type = "last"
  /\ toClient' = Tail(toClient)
  /\ Ends(IF isError THEN "false" ELSE "true")
  /\ UNCHANGED <<toServer, req, isError, stuck, out, err, serverVars>>

\* Mutant: the end of the connection is not taken for the end of the message.
ReadEndLoops ==
  /\ cpc = "reading" /\ ~stuck /\ toClient = <<>> /\ ~ServerOpen
  /\ UNCHANGED vars

\* The connection ends where a header was due: readChunkHeader() returns -1
\* as it does for the closing chunk, and readChunkedMessage() cannot tell them
\* apart.
ReadEnd ==
  /\ cpc = "reading" /\ ~stuck /\ toClient = <<>> /\ ~ServerOpen
  /\ Ends(IF isError THEN "false" ELSE "true")
  /\ UNCHANGED <<toServer, toClient, req, isError, stuck, out, err, serverVars>>

\* It ends in a body: what came of it is passed on, then write(buffer, 0, -1)
\* throws an unchecked exception, and the client goes back to the pool with
\* the rest of the chunk to read.
ReadCut ==
  /\ cpc = "reading" /\ ~ServerOpen
  /\ stuck \/ (toClient # <<>> /\ Head(toClient).cut)
  /\ stuck' = TRUE
  /\ toClient' = <<>>
  /\ Ends("unchecked")
  /\ UNCHANGED <<toServer, req, isError, out, err, serverVars>>

\* Mutant: the client goes back to the pool as if it were good.
TimesOutReturns ==
  /\ cpc = "reading" /\ toClient = <<>> /\ ServerOpen
  /\ Ends("PPTException")
  /\ UNCHANGED <<toServer, toClient, req, isError, stuck, out, err, serverVars>>

\* getResponse() catches an IOException and closes the connection: nothing
\* comes for 300 seconds ...
TimesOut ==
  /\ cpc = "reading" /\ toClient = <<>> /\ ServerOpen
  /\ toServer' = toServer \o <<Plain("x", req), Plain("last", req)>>
  /\ Fails
  /\ UNCHANGED <<toClient, req, isError, stuck, out, err, serverVars>>

\* ... or the connection is reset, because the child ended before it had read
\* everything; what was on the way may be lost.
Reset ==
  /\ cpc = "reading" /\ ~ServerOpen /\ toServer # <<>>
  /\ Fails
  /\ toClient' = <<>>
  /\ UNCHANGED <<toServer, req, isError, stuck, out, err, serverVars>>

\* The pool shuts an idle client down: closeConnection(true).
Shutdown ==
  /\ cpc = "idle"
  /\ toServer' = toServer \o <<Plain("x", req), Plain("last", req)>>
  /\ cpc' = "closed"
  /\ UNCHANGED <<toClient, req, isError, stuck, out, err, result, serverVars>>

\* The OLFS is killed, or its host gives the connection up.
ClientDies ==
  /\ ClientOpen
  /\ cpc' = "closed"
  /\ UNCHANGED <<toServer, toClient, req, isError, stuck, out, err, result, serverVars>>

-----------------------------------------------------------------------------
(* The child. *)

\* Chunks for a client that has gone are lost.
Write(c) == toClient' = IF ClientOpen THEN Append(toClient, c) ELSE toClient

\* PPTConnection::receive() reads a chunk of the request.
Receive ==
  /\ spc = "reading" /\ toServer # <<>>
  /\ toServer' = Tail(toServer)
  /\ LET c == Head(toServer) IN
     \/ /\ c.type = "d"
        /\ cur' = c.of
        /\ UNCHANGED <<spc, exiting>>
     \/ /\ c.type = "x"
        /\ exiting' = TRUE
        /\ UNCHANGED <<spc, cur>>
     \/ /\ c.type = "last"
        /\ spc' = IF exiting THEN "gone" ELSE "working"
        /\ UNCHANGED <<exiting, cur>>
  /\ UNCHANGED <<toClient, buf, answer, clientVars>>

\* Mutant: the read of 0 bytes is taken for an interrupted call.
ReceiveEndRetries ==
  /\ spc = "reading" /\ toServer = <<>> /\ ~ClientOpen
  /\ UNCHANGED vars

\* The client has closed: Socket::receive() throws, and the child ends.
ReceiveEnd ==
  /\ spc = "reading" /\ toServer = <<>> /\ ~ClientOpen
  /\ spc' = "gone"
  /\ UNCHANGED <<toServer, toClient, exiting, cur, buf, answer, clientVars>>

\* execute_request(): the response is printed to cout, which fills the buffer.
PrintResponse ==
  /\ spc = "working" /\ buf = {} /\ answer[cur].chunks < MaxChunks
  /\ buf' = {"response"}
  /\ UNCHANGED <<toServer, toClient, spc, exiting, cur, answer, clientVars>>

\* Mutant: the buffer is not reset.
SyncKeeps ==
  /\ buf # {}
  /\ Write(DataChunk(cur, answer[cur].chunks + 1, buf))
  /\ UNCHANGED buf
  /\ answer' = [answer EXCEPT ![cur].chunks = @ + 1]

\* PPTStreamBuf::sync(): what the buffer holds becomes a chunk.
Sync ==
  /\ buf # {}
  /\ Write(DataChunk(cur, answer[cur].chunks + 1, buf))
  /\ buf' = {}
  /\ answer' = [answer EXCEPT ![cur].chunks = @ + 1]

\* The buffer is full: overflow().
Overflow ==
  /\ spc = "working"
  /\ Sync
  /\ UNCHANGED <<toServer, spc, exiting, cur, clientVars>>

\* execute_request() returns 0.
Succeed ==
  /\ spc = "working"
  /\ spc' = "finishing"
  /\ answer' = [answer EXCEPT ![cur].status = "ok"]
  /\ UNCHANGED <<toServer, toClient, exiting, cur, buf, clientVars>>

\* It returns the number of an error, also after parts of the response.
GoWrong ==
  /\ spc = "working"
  /\ spc' = "flushing"
  /\ \E s \in {"error", "fatal"} : answer' = [answer EXCEPT ![cur].status = s]
  /\ UNCHANGED <<toServer, toClient, exiting, cur, buf, clientVars>>

\* cout << flush
Flush ==
  /\ spc = "flushing"
  /\ spc' = "telling"
  /\ Sync \/ (buf = {} /\ UNCHANGED <<toClient, buf, answer>>)
  /\ UNCHANGED <<toServer, exiting, cur, clientVars>>

\* sendExtensions() writes status=error to the socket.
Tell ==
  /\ spc = "telling"
  /\ Write(Plain("x", cur))
  /\ spc' = "explaining"
  /\ UNCHANGED <<toServer, exiting, cur, buf, answer, clientVars>>

\* That throws when the client has gone, and the child ends.
TellFails ==
  /\ spc = "telling" /\ ~ClientOpen
  /\ spc' = "gone"
  /\ UNCHANGED <<toServer, toClient, exiting, cur, buf, answer, clientVars>>

\* finish_with_error() prints the error document to cout.
Explain ==
  /\ spc = "explaining"
  /\ buf' = buf \cup {"error"}
  /\ spc' = "finishing"
  /\ UNCHANGED <<toServer, toClient, exiting, cur, answer, clientVars>>

\* PPTStreamBuf::finish() empties the buffer ...
Finish ==
  /\ spc = "finishing"
  /\ spc' = "last"
  /\ Sync \/ (buf = {} /\ UNCHANGED <<toClient, buf, answer>>)
  /\ UNCHANGED <<toServer, exiting, cur, clientVars>>

\* ... and writes the closing chunk.  After a fatal error the child closes
\* the connection and exits, otherwise it waits for the next request.
WriteLast ==
  /\ spc = "last"
  /\ Write(Plain("last", cur))
  /\ answer' = [answer EXCEPT ![cur].ended = TRUE]
  /\ spc' = IF answer[cur].status = "fatal" THEN "gone" ELSE "reading"
  /\ UNCHANGED <<toServer, exiting, cur, buf, clientVars>>

\* The child is killed or crashes, perhaps in the middle of a chunk.
Die ==
  /\ CanDie /\ ServerOpen
  /\ spc' = "gone"
  /\ \/ UNCHANGED toClient
     \/ /\ spc \in {"working", "flushing", "finishing"} /\ buf # {}
        /\ Write([DataChunk(cur, answer[cur].chunks + 1, buf) EXCEPT !.cut = TRUE])
     \/ spc = "telling" /\ Write([Plain("x", cur) EXCEPT !.cut = TRUE])
  /\ UNCHANGED <<toServer, exiting, cur, buf, answer, clientVars>>

-----------------------------------------------------------------------------
Read == ReadData \/ ReadExtension \/ ReadLast \/ ReadEnd \/ ReadCut
ClientStep == SendLast \/ SendFails \/ Read \/ WriteFails \/ TimesOut \/ Reset
Serve == Receive \/ ReceiveEnd \/ PrintResponse \/ Overflow \/ Succeed \/ GoWrong \/ Flush
           \/ Tell \/ TellFails \/ Explain \/ Finish \/ WriteLast

Next == SendRequest \/ ClientStep \/ Shutdown \/ ClientDies \/ Serve \/ Die

\* Both processes are scheduled; a read that nothing answers times out.
Spec == Init /\ [][Next]_vars /\ WF_vars(ClientStep) /\ WF_vars(Serve)

-----------------------------------------------------------------------------
(* Properties. *)

TypeOK ==
  /\ toServer \in Seq(Chunk) /\ toClient \in Seq(Chunk)
  /\ cpc \in {"idle", "sending", "reading", "closed"}
  /\ req \in 0..MaxRequests /\ isError \in BOOLEAN /\ stuck \in BOOLEAN
  /\ out \in Seq(Chunk) /\ err \in Seq(Chunk)
  /\ result \in {"none", "true", "false", "PPTException", "unchecked"}
  /\ spc \in {"reading", "working", "flushing", "telling", "explaining", "finishing", "last", "gone"}
  /\ exiting \in BOOLEAN /\ cur \in 0..MaxRequests /\ buf \in Loads
  /\ answer \in [Requests -> [chunks : 0..MaxChunks + 1, ended : BOOLEAN,
                              status : {"none", "ok", "error", "fatal"}]]

\* The caller gets parts of the answer to its own request only, in the order
\* in which they were written and with none left out: no answer, late or
\* half read, is ever taken for part of a later one.  The error document never
\* gets into the data, nor data into the error document, although both go
\* through one buffer and the extension that separates them does not.
OwnAnswer ==
  LET got == out \o err IN
  /\ \A i \in 1..Len(got) : got[i].of = req /\ got[i].n = i
  /\ \A i \in 1..Len(out) : out[i].load = {"response"}
  /\ \A i \in 1..Len(err) : err[i].load = {"error"}

Returned == result \in {"true", "false"}

\* What besTransaction() returns agrees with what the child did: all of its
\* answer has arrived, and "false" is returned for errors only.
AnswerIsWhole ==
  /\ answer[req].ended
  /\ Len(out) + Len(err) = answer[req].chunks
  /\ result = "true" <=> answer[req].status = "ok"

\* A transaction that returns has the whole answer, unless the child ended
\* before it had written it.
WholeOrCutShort ==
  Returned => AnswerIsWhole \/ (~ServerOpen /\ ~answer[req].ended)

\* Every transaction ends, whatever becomes of the child.
AnswerEnds == cpc = "reading" ~> cpc # "reading"

\* The child ends after its client has closed the connection, in the middle
\* of a request or of an answer too: none is left behind.
ChildEnds == cpc = "closed" ~> spc = "gone"
=============================================================================
