-------------------------- MODULE PPTSession_proofs --------------------------
(***************************************************************************)
(* What a caller gets over a PPT connection is the answer to its own       *)
(* request, in order, and all of it if the transaction returns, for any    *)
(* number of requests and chunks and whenever either end dies.             *)
(***************************************************************************)
EXTENDS PPTSession, SequenceTheorems, TLAPS

\* What the client has written and the child has not read: a request, then
\* the extension with which closeConnection(true) ends the session.
D == DataChunk(req, 0, {})
L == Plain("last", req)
X == Plain("x", req)
Quit == {<<>>, <<X, L>>}

Fresh == [chunks |-> 0, status |-> "none", ended |-> FALSE]

\* The child reads requests: what it can find, and where the client is then.
Listening ==
  \/ cpc = "idle" /\ toServer = <<>> /\ ~exiting
  \/ /\ req > 0 /\ answer[req] = Fresh /\ ~exiting
     /\ \/ cpc = "sending" /\ (toServer = <<D>> \/ (toServer = <<>> /\ cur = req))
        \/ cpc = "reading" /\ (toServer = <<D, L>> \/ (toServer = <<L>> /\ cur = req))
        \/ cpc = "closed" /\ toServer \in {<<D>>, <<D, L>>, <<D, L, X, L>>}
        \/ cpc = "closed" /\ toServer \in {<<L>>, <<L, X, L>>} /\ cur = req
  \/ cpc = "reading" /\ toServer = <<>> /\ ~exiting /\ answer[req].ended
  \/ cpc = "closed" /\ toServer \in Quit /\ ~exiting
  \/ cpc = "closed" /\ toServer = <<L>> /\ exiting

\* The child answers the client's last request.
Answering ==
  /\ req > 0 /\ cur = req /\ ~exiting
  /\ (cpc = "reading" /\ toServer = <<>>) \/ (cpc = "closed" /\ toServer \in Quit)

InboxInv ==
  /\ \A r \in Requests : r > req => answer[r] = Fresh
  /\ cpc \in {"sending", "reading"} => req > 0
  /\ cpc = "sending" => answer[req] = Fresh
  /\ ServerOpen => IF spc = "reading" THEN Listening ELSE Answering

\* How far the answer of the child is.
ServerInv ==
  LET a == answer[req] IN
  /\ spc = "reading" => buf = {}
  /\ spc \in {"working", "flushing", "telling", "explaining", "finishing", "last"} => ~ a.ended
  /\ spc = "working" => a.status = "none"
  /\ spc \in {"flushing", "telling", "explaining"} => a.status \in {"error", "fatal"}
  /\ spc \in {"finishing", "last"} => a.status # "none"
  /\ spc \in {"working", "flushing"} \/ (spc = "finishing" /\ a.status = "ok") =>
       \/ buf = {} /\ a.chunks <= MaxChunks
       \/ buf = {"response"} /\ a.chunks < MaxChunks
  /\ spc \in {"telling", "explaining"} => buf = {} /\ a.chunks <= MaxChunks
  /\ spc = "finishing" /\ a.status # "ok" => buf = {"error"} /\ a.chunks <= MaxChunks
  /\ spc = "last" => buf = {}

\* The k-th chunk of an answer with p chunks of a response: after these the
\* closing chunk, or the extension and the error document before it.
Message(p, k) ==
  IF k <= p THEN DataChunk(req, k, {"response"})
  ELSE IF answer[req].status = "ok" THEN Plain("last", req)
  ELSE IF k = p + 1 THEN Plain("x", req)
  ELSE IF k = p + 2 THEN DataChunk(req, p + 1, {"error"})
  ELSE Plain("last", req)

\* How many of the chunks the client has read.
Consumed == Len(out) + Len(err) + (IF isError THEN 1 ELSE 0)

\* The child is about to write the chunk after the w-th.
Stage(p, w) ==
  LET a == answer[req] IN
  /\ w >= p /\ a.chunks = (IF w >= p + 2 THEN p + 1 ELSE p)
  /\ a.status = "none" => w = p
  /\ a.status = "ok" => w <= p + 1
  /\ a.status \in {"error", "fatal"} => w <= p + 3
  /\ a.ended <=> (a.status = "ok" /\ w = p + 1) \/ (a.status \in {"error", "fatal"} /\ w = p + 3)
  /\ spc = "reading" => a.ended \/ w = 0
  /\ spc \in {"working", "flushing", "telling"} => w = p
  /\ spc \in {"finishing", "last"} /\ a.status = "ok" => w = p
  /\ spc = "explaining" \/ (spc = "finishing" /\ a.status # "ok") => w = p + 1
  /\ spc = "last" /\ a.status # "ok" => w = p + 2

\* The w chunks that have been written and were not read are on the way, and
\* after them perhaps the one that was cut off.
OnTheWay(p, w) ==
  /\ IF isError THEN Len(out) = p /\ Len(err) \in {0, 1} /\ answer[req].status \in {"error", "fatal"}
                ELSE Len(out) <= p /\ err = <<>>
  /\ \A i \in 1..Len(toClient) : Consumed + i <= w => toClient[i] = Message(p, Consumed + i)
  /\ \/ Consumed + Len(toClient) = w
     \/ /\ toClient # <<>> /\ Consumed + Len(toClient) = w + 1 /\ ~ServerOpen /\ ~answer[req].ended
        /\ toClient[Len(toClient)].cut /\ toClient[Len(toClient)].type # "last"

StreamInv ==
  /\ cpc \in {"idle", "sending"} => toClient = <<>>
  /\ cpc \in {"sending", "reading"} => \E p, w \in Nat : Stage(p, w) /\ OnTheWay(p, w)

\* What the caller has got.
OutInv ==
  /\ \A i \in 1..Len(out) : out[i] = DataChunk(req, i, {"response"})
  /\ \A i \in 1..Len(err) : err[i] = DataChunk(req, Len(out) + i, {"error"})

\* Nothing changes an answer after the transaction returned.
ResultInv ==
  /\ Returned => req > 0 /\ cpc \in {"idle", "closed"}
  /\ Returned /\ ServerOpen => spc = "reading" /\ (toServer \in Quit \/ exiting)
  /\ WholeOrCutShort

IInv == TypeOK /\ InboxInv /\ ServerInv /\ StreamInv /\ OutInv /\ ResultInv

-----------------------------------------------------------------------------
\* Every conjunct of IInv holds at the beginning.
LEMMA InitInv == Init => IInv
<1> SUFFICES ASSUME Init PROVE IInv
  OBVIOUS
<1>1. req \in 0..MaxRequests /\ answer \in [Requests -> {Fresh}]
  BY SessionAssumption DEF Init, Fresh
<1>2. TypeOK
  <2>1. 0 \in 0..MaxRequests /\ Fresh \in [chunks : 0..MaxChunks + 1, ended : BOOLEAN,
                                         status : {"none", "ok", "error", "fatal"}]
    BY SessionAssumption DEF Fresh
  <2>2. toServer \in Seq(Chunk) /\ toClient \in Seq(Chunk) /\ out \in Seq(Chunk) /\ err \in Seq(Chunk)
    BY EmptySeq DEF Init
  <2> QED
    BY <1>1, <2>1, <2>2 DEF Init, TypeOK, Loads
<1>3. InboxInv /\ ServerInv /\ StreamInv /\ OutInv
  BY <1>1 DEF Init, InboxInv, Listening, ServerInv, StreamInv, OutInv
<1>4. ResultInv
  BY DEF Init, ResultInv, WholeOrCutShort, Returned
<1> QED
  BY <1>2, <1>3, <1>4 DEF IInv

-----------------------------------------------------------------------------
(* Sequences. *)

LEMMA TailFacts ==
  ASSUME NEW S, NEW s \in Seq(S), s # <<>>
  PROVE  /\ Tail(s) \in Seq(S) /\ Head(s) = s[1] /\ Head(s) \in S
         /\ Len(s) \in Nat \ {0} /\ Len(Tail(s)) = Len(s) - 1
         /\ \A i \in 1..Len(s) - 1 : Tail(s)[i] = s[i + 1]
  OBVIOUS

\* What is on the way to the child is short.
LEMMA ShortTails ==
  ASSUME NEW a, NEW b, NEW c, NEW d
  PROVE  /\ Head(<<a>>) = a /\ Tail(<<a>>) = <<>>
         /\ Head(<<a, b>>) = a /\ Tail(<<a, b>>) = <<b>>
         /\ Head(<<a, b, c>>) = a /\ Tail(<<a, b, c>>) = <<b, c>>
         /\ Head(<<a, b, c, d>>) = a /\ Tail(<<a, b, c, d>>) = <<b, c, d>>
  OBVIOUS

LEMMA ShortAppends ==
  ASSUME NEW a, NEW b
  PROVE  Append(<<>>, a) = <<a>> /\ Append(<<a>>, b) = <<a, b>>
<1> DEFINE S == {a, b}
<1>1. <<a>> \in Seq(S) /\ <<a, b>> \in Seq(S)
  OBVIOUS
<1> HIDE DEF S
<1>2. /\ Append(<<a>>, b) \in Seq(S) /\ Len(Append(<<a>>, b)) = 2
      /\ \A i \in 1..2 : Append(<<a>>, b)[i] = <<a, b>>[i]
  BY <1>1, AppendProperties DEF S
<1>3. Append(<<a>>, b) = <<a, b>>
  BY <1>1, <1>2, SeqEqual
<1>4. Append(<<>>, a) = <<a>>
  OBVIOUS
<1> QED
  BY <1>3, <1>4

LEMMA ShortConcat3 ==
  ASSUME NEW a, NEW b, NEW c
  PROVE  <<a>> \o <<b, c>> = <<a, b, c>>
<1> DEFINE S == {a, b, c}
<1>1. <<a>> \in Seq(S) /\ <<b, c>> \in Seq(S) /\ <<a, b, c>> \in Seq(S)
  OBVIOUS
<1> HIDE DEF S
<1>2. /\ <<a>> \o <<b, c>> \in Seq(S) /\ Len(<<a>> \o <<b, c>>) = 3
      /\ \A i \in 1..3 : (<<a>> \o <<b, c>>)[i] = <<a, b, c>>[i]
  BY <1>1, ConcatProperties
<1> QED
  BY <1>1, <1>2, SeqEqual

LEMMA ShortConcat4 ==
  ASSUME NEW a, NEW b, NEW c, NEW d
  PROVE  <<a, b>> \o <<c, d>> = <<a, b, c, d>>
<1> DEFINE S == {a, b, c, d}
<1>1. <<a, b>> \in Seq(S) /\ <<c, d>> \in Seq(S) /\ <<a, b, c, d>> \in Seq(S)
  OBVIOUS
<1> HIDE DEF S
<1>2. /\ <<a, b>> \o <<c, d>> \in Seq(S) /\ Len(<<a, b>> \o <<c, d>>) = 4
      /\ \A i \in 1..4 : (<<a, b>> \o <<c, d>>)[i] = <<a, b, c, d>>[i]
  BY <1>1, ConcatProperties
<1> QED
  BY <1>1, <1>2, SeqEqual

\* The types of what the request under way consists of.
LEMMA Types ==
  ASSUME TypeOK
  PROVE  /\ MaxChunks \in Nat /\ req \in 0..MaxRequests
         /\ req > 0 => /\ req \in Requests /\ answer[req].ended \in BOOLEAN
                       /\ answer[req].chunks \in 0..MaxChunks + 1
                       /\ answer[req].status \in {"none", "ok", "error", "fatal"}
         /\ D \in Chunk /\ D.type = "d" /\ D.of = req
         /\ L \in Chunk /\ L.type = "last" /\ X \in Chunk /\ X.type = "x"
         /\ Len(out) \in Nat /\ Len(err) \in Nat /\ Len(toClient) \in Nat
  BY SessionAssumption DEF TypeOK, Requests, D, L, X, DataChunk, Plain, Chunk, Loads

\* What is on the way to the child, when the client adds to it or the child reads.
LEMMA Inbox ==
  /\ Append(<<>>, D) = <<D>> /\ Append(<<>>, L) = <<L>> /\ Append(<<D>>, L) = <<D, L>>
  /\ <<>> \o <<X, L>> = <<X, L>> /\ <<L>> \o <<X, L>> = <<L, X, L>>
  /\ <<D, L>> \o <<X, L>> = <<D, L, X, L>>
  /\ Head(<<D>>) = D /\ Tail(<<D>>) = <<>> /\ Head(<<L>>) = L /\ Tail(<<L>>) = <<>>
  /\ Head(<<D, L>>) = D /\ Tail(<<D, L>>) = <<L>> /\ Head(<<X, L>>) = X /\ Tail(<<X, L>>) = <<L>>
  /\ Head(<<L, X, L>>) = L /\ Tail(<<L, X, L>>) = <<X, L>>
  /\ Head(<<D, L, X, L>>) = D /\ Tail(<<D, L, X, L>>) = <<L, X, L>>
  /\ \A s \in {<<D>>, <<L>>, <<D, L>>, <<L, X, L>>, <<D, L, X, L>>} : s # <<>> /\ s # <<X, L>>
  /\ \A s \in {<<>>, <<D>>, <<D, L>>, <<X, L>>, <<L, X, L>>, <<D, L, X, L>>} : s # <<L>>
<1>1. Append(<<>>, D) = <<D>> /\ Append(<<>>, L) = <<L>> /\ Append(<<D>>, L) = <<D, L>>
  BY ShortAppends
<1>2. <<>> \o <<X, L>> = <<X, L>>
  BY ConcatEmptySeq
<1>3. <<L>> \o <<X, L>> = <<L, X, L>> /\ <<D, L>> \o <<X, L>> = <<D, L, X, L>>
  BY ShortConcat3, ShortConcat4
<1>4. /\ Head(<<D>>) = D /\ Tail(<<D>>) = <<>> /\ Head(<<L>>) = L /\ Tail(<<L>>) = <<>>
      /\ Head(<<D, L>>) = D /\ Tail(<<D, L>>) = <<L>> /\ Head(<<X, L>>) = X /\ Tail(<<X, L>>) = <<L>>
  BY ShortTails
<1>5. /\ Head(<<L, X, L>>) = L /\ Tail(<<L, X, L>>) = <<X, L>>
      /\ Head(<<D, L, X, L>>) = D /\ Tail(<<D, L, X, L>>) = <<L, X, L>>
  BY ShortTails
<1>6. D # X /\ D # L /\ X # L
  BY DEF D, L, X, DataChunk, Plain
<1>7. \A s \in {<<D>>, <<L>>, <<D, L>>, <<L, X, L>>, <<D, L, X, L>>} : s # <<>> /\ s # <<X, L>>
  BY <1>6
<1>8. \A s \in {<<>>, <<D>>, <<D, L>>, <<X, L>>, <<L, X, L>>, <<D, L, X, L>>} : s # <<L>>
  BY <1>6
<1> QED
  BY <1>1, <1>2, <1>3, <1>4, <1>5, <1>7, <1>8

\* closeConnection(true)
LEMMA CloseFacts ==
  ASSUME IInv, cpc \in {"idle", "reading"}, cpc' = "closed",
         toServer' = toServer \o <<Plain("x", req), Plain("last", req)>>,
         UNCHANGED <<req, spc, exiting, cur, answer>>
  PROVE  /\ InboxInv' /\ toServer' \in Seq(Chunk)
         /\ ServerOpen /\ (cpc = "idle" \/ spc # "reading") => toServer' \in Quit /\ toServer' \in Quit'
<1>1. toServer' = toServer \o <<X, L>> /\ D' = D /\ L' = L /\ X' = X
  BY DEF D, L, X
<1>2. toServer' \in Seq(Chunk)
  BY <1>1, Types, ConcatProperties DEF IInv, TypeOK
<1>3. CASE spc = "reading"
  <2>1. Listening => Listening' /\ (cpc = "idle" => toServer' \in Quit /\ toServer' \in Quit')
    BY <1>1, Inbox DEF Listening, Quit
  <2> QED
    BY <1>2, <1>3, <2>1 DEF IInv, InboxInv, ServerOpen
<1>4. CASE spc # "reading"
  <2>1. Answering => Answering' /\ toServer' \in Quit /\ toServer' \in Quit'
    BY <1>1, Inbox DEF Answering, Quit
  <2> QED
    BY <1>2, <1>4, <2>1 DEF IInv, InboxInv, ServerOpen
<1> QED
  BY <1>3, <1>4

\* The child writes the next chunk.
LEMMA WayGrows ==
  ASSUME TypeOK, NEW p \in Nat, NEW w \in Nat, OnTheWay(p, w), ServerOpen, NEW q \in {p, p + 1}, NEW c \in Chunk,
         toClient' = Append(toClient, c), UNCHANGED <<req, isError, out, err>>,
         isError => q = p /\ answer'[req].status = answer[req].status,
         \A k \in 1..w : Message(q, k)' = Message(p, k), Message(q, w + 1)' = c
  PROVE  OnTheWay(q, w + 1)'
<1>1. /\ Len(toClient) \in Nat /\ Len(toClient') = Len(toClient) + 1 /\ toClient'[Len(toClient) + 1] = c
      /\ \A i \in 1..Len(toClient) : toClient'[i] = toClient[i]
  BY AppendProperties DEF TypeOK
<1>2. Consumed \in Nat /\ Consumed' = Consumed /\ Consumed + Len(toClient) = w
  BY DEF TypeOK, Consumed, OnTheWay
<1>3. Consumed' + Len(toClient') = w + 1
  BY <1>1, <1>2
<1>4. ASSUME NEW i \in 1..Len(toClient') PROVE toClient'[i] = Message(q, Consumed + i)'
  <2>1. CASE i = Len(toClient) + 1
    BY <1>1, <1>2, <2>1
  <2>2. CASE i \in 1..Len(toClient)
    BY <1>1, <1>2, <2>2 DEF OnTheWay
  <2> QED
    BY <1>1, <2>1, <2>2
<1>5. (IF isError THEN Len(out) = q /\ Len(err) \in {0, 1} /\ answer[req].status \in {"error", "fatal"}
                  ELSE Len(out) <= q /\ err = <<>>)'
  BY DEF TypeOK, OnTheWay
<1> QED
  BY <1>2, <1>3, <1>4, <1>5 DEF OnTheWay

\* A chunk whose body is cut off.
LEMMA CutChunk ==
  ASSUME NEW e \in Chunk
  PROVE  LET f == [e EXCEPT !.cut = TRUE] IN f \in Chunk /\ f.cut /\ f.type = e.type
  BY DEF Chunk

\* The client reads the next chunk.
LEMMA WayShrinks ==
  ASSUME TypeOK, NEW p \in Nat, NEW w \in Nat, OnTheWay(p, w), toClient # <<>>, ~toClient[1].cut,
         toClient' = Tail(toClient), UNCHANGED <<req, answer, spc>>, Consumed' = Consumed + 1,
         (IF isError THEN Len(out) = p /\ Len(err) \in {0, 1} /\ answer[req].status \in {"error", "fatal"}
                     ELSE Len(out) <= p /\ err = <<>>)'
  PROVE  OnTheWay(p, w)'
<1>1. /\ Len(toClient) \in Nat \ {0} /\ Len(toClient') = Len(toClient) - 1
      /\ \A i \in 1..Len(toClient) - 1 : toClient'[i] = toClient[i + 1]
  BY TailFacts DEF TypeOK
<1>2. Consumed \in Nat
  BY DEF TypeOK, Consumed
<1>3. ASSUME NEW i \in 1..Len(toClient'), Consumed' + i <= w PROVE toClient'[i] = Message(p, Consumed + i)'
  <2>1. i + 1 \in 1..Len(toClient) /\ Consumed + (i + 1) <= w /\ toClient'[i] = toClient[i + 1]
    BY <1>1, <1>2, <1>3
  <2>2. toClient[i + 1] = Message(p, Consumed + (i + 1))
    BY <2>1 DEF OnTheWay
  <2> QED
    BY <1>2, <2>1, <2>2 DEF Message
<1>4. \/ Consumed' + Len(toClient') = w
      \/ /\ toClient' # <<>> /\ Consumed' + Len(toClient') = w + 1 /\ ~ServerOpen' /\ ~answer'[req].ended
         /\ toClient'[Len(toClient')].cut /\ toClient'[Len(toClient')].type # "last"
  <2>1. CASE Consumed + Len(toClient) = w
    BY <1>1, <1>2, <2>1
  <2>2. CASE Consumed + Len(toClient) # w
    <3>1. Len(toClient) # 1
      BY <2>2 DEF OnTheWay
    <3>2. toClient' # <<>> /\ toClient'[Len(toClient')] = toClient[Len(toClient)]
      <4>1. Len(toClient') \in 1..Len(toClient) - 1 /\ Len(toClient') + 1 = Len(toClient) /\ Len(toClient') # 0
        BY <1>1, <3>1
      <4>2. toClient' # <<>>
        BY <4>1, EmptySeq
      <4> DEFINE k == Len(toClient')
      <4>3. k \in 1..Len(toClient) - 1 /\ k + 1 = Len(toClient)
        BY <4>1
      <4> HIDE DEF k
      <4>4. toClient'[k] = toClient[k + 1]
        BY <1>1, <4>3
      <4> QED
        BY <4>2, <4>3, <4>4 DEF k
    <3>3. /\ Consumed + Len(toClient) = w + 1 /\ ~ServerOpen /\ ~answer[req].ended
          /\ toClient[Len(toClient)].cut /\ toClient[Len(toClient)].type # "last"
      BY <2>2 DEF OnTheWay
    <3>4. Consumed' + Len(toClient') = w + 1 /\ ~ServerOpen' /\ ~answer'[req].ended
      BY <1>1, <1>2, <3>3 DEF ServerOpen
    <3> QED
      BY <3>2, <3>3, <3>4
  <2> QED
    BY <2>1, <2>2
<1> QED
  BY <1>3, <1>4 DEF OnTheWay

\* PPTStreamBuf::sync() while the child answers.
LEMMA SyncFacts ==
  ASSUME IInv, Sync, spc \in {"working", "flushing", "finishing"}
  PROVE  /\ req \in Requests /\ cur = req /\ cpc \in {"reading", "closed"} /\ answer[req].chunks \in 0..MaxChunks
         /\ answer' \in [Requests -> [chunks : 0..MaxChunks + 1, ended : BOOLEAN,
                                     status : {"none", "ok", "error", "fatal"}]]
         /\ answer'[req].chunks = answer[req].chunks + 1 /\ answer'[req].status = answer[req].status
         /\ answer'[req].ended = answer[req].ended /\ \A r \in Requests \ {req} : answer'[r] = answer[r]
         /\ buf' = {} /\ DataChunk(req, answer[req].chunks + 1, buf) \in Chunk
         /\ toClient' \in Seq(Chunk)
         /\ cpc = "closed" => toClient' = toClient
         /\ cpc = "reading" =>
              toServer = <<>> /\ toClient' = Append(toClient, DataChunk(req, answer[req].chunks + 1, buf))
<1>1. ServerOpen /\ req > 0 /\ cur = req /\ cpc \in {"reading", "closed"} /\ (cpc = "reading" => toServer = <<>>)
  BY DEF IInv, InboxInv, Answering, ServerOpen
<1>2. req \in Requests /\ answer[req].chunks \in 0..MaxChunks + 1 /\ MaxChunks \in Nat
  BY <1>1, Types DEF IInv
<1>3. answer[req].chunks \in 0..MaxChunks
  BY <1>2 DEF IInv, ServerInv, Sync
<1>4. DataChunk(req, answer[req].chunks + 1, buf) \in Chunk
  BY <1>2, <1>3 DEF IInv, TypeOK, DataChunk, Chunk
<1>5. toClient' \in Seq(Chunk)
  BY <1>1, <1>4, AppendProperties DEF IInv, TypeOK, Sync, Write
<1>6. answer' = [answer EXCEPT ![req].chunks = @ + 1]
  BY <1>1 DEF Sync
<1>7. answer' \in [Requests -> [chunks : 0..MaxChunks + 1, ended : BOOLEAN,
                               status : {"none", "ok", "error", "fatal"}]]
  <2> DEFINE a == [answer[req] EXCEPT !.chunks = @ + 1]
  <2>1. a \in [chunks : 0..MaxChunks + 1, ended : BOOLEAN, status : {"none", "ok", "error", "fatal"}]
    <3>1. answer[req] \in [chunks : 0..MaxChunks + 1, ended : BOOLEAN, status : {"none", "ok", "error", "fatal"}]
      BY <1>2 DEF IInv, TypeOK
    <3>2. answer[req].chunks + 1 \in 0..MaxChunks + 1
      BY <1>2, <1>3
    <3> QED
      BY <3>1, <3>2
  <2>2. answer' = [answer EXCEPT ![req] = a]
    BY <1>6
  <2> HIDE DEF a
  <2> QED
    BY <1>2, <2>1, <2>2 DEF IInv, TypeOK
<1> QED
  BY <1>1, <1>2, <1>3, <1>4, <1>5, <1>6, <1>7 DEF IInv, TypeOK, Sync, Write, ClientOpen

-----------------------------------------------------------------------------
(* The actions. *)

LEMMA SendRequestInv ==
  ASSUME IInv, SendRequest
  PROVE  IInv'
<1> USE DEF SendRequest, serverVars
<1>t. /\ MaxChunks \in Nat /\ req \in 0..MaxRequests /\ D \in Chunk /\ L \in Chunk /\ X \in Chunk
      /\ req > 0 => /\ req \in Requests /\ answer[req].ended \in BOOLEAN
                    /\ answer[req].chunks \in 0..MaxChunks + 1
                    /\ answer[req].status \in {"none", "ok", "error", "fatal"}
      /\ Len(out) \in Nat /\ Len(err) \in Nat /\ Len(toClient) \in Nat
  BY Types DEF IInv
<1>1. TypeOK'
  <2>1. req' \in 0..MaxRequests /\ D' \in Chunk
    BY <1>t, SessionAssumption DEF D, DataChunk, Chunk, Loads
  <2>2. toServer' \in Seq(Chunk)
    BY <2>1, AppendProperties DEF IInv, TypeOK, D
  <2>3. out' \in Seq(Chunk) /\ err' \in Seq(Chunk)
    BY EmptySeq
  <2> QED
    BY <2>1, <2>2, <2>3 DEF IInv, TypeOK
<1>2. InboxInv'
  <2>1. req' = req + 1 /\ req' \in Requests /\ answer'[req'] = Fresh /\ \A r \in Requests : r > req' => answer'[r] = Fresh
    BY <1>t, SessionAssumption DEF IInv, InboxInv, Requests
  <2>2. ServerOpen => spc = "reading" /\ ~exiting /\ toServer' = <<D>>'
    <3>1. ServerOpen => spc = "reading" /\ ~exiting /\ toServer = <<>>
      BY DEF IInv, InboxInv, Listening, Answering
    <3>2. Append(<<>>, DataChunk(req + 1, 0, {})) = <<D>>'
      BY ShortAppends DEF D
    <3> QED
      BY <3>1, <3>2
  <2> QED
    BY <1>t, <2>1, <2>2 DEF InboxInv, Listening, ServerOpen, Fresh
<1>3. ServerInv'
  BY <1>t DEF IInv, TypeOK, ServerInv, InboxInv, Listening, Answering, ServerOpen
<1>4. StreamInv'
  <2>1. req' = req + 1 /\ answer'[req'] = Fresh
    BY <1>t, SessionAssumption DEF IInv, InboxInv, Requests
  <2>2. spc \in {"reading", "gone"}
    BY DEF IInv, TypeOK, InboxInv, Listening, Answering, ServerOpen
  <2>3. toClient = <<>> /\ Consumed' = 0
    BY DEF IInv, StreamInv, Consumed
  <2>4. Stage(0, 0)' /\ OnTheWay(0, 0)'
    BY <2>1, <2>2, <2>3 DEF Stage, OnTheWay, Fresh
  <2> QED
    BY <2>3, <2>4 DEF StreamInv
<1>5. OutInv'
  BY <1>t DEF IInv, OutInv
<1>6. ResultInv'
  BY <1>t DEF IInv, ResultInv, WholeOrCutShort, AnswerIsWhole, Returned, ServerOpen
<1> QED
  BY <1>1, <1>2, <1>3, <1>4, <1>5, <1>6 DEF IInv

LEMMA SendLastInv ==
  ASSUME IInv, SendLast
  PROVE  IInv'
<1> USE DEF SendLast, serverVars
<1>t. /\ MaxChunks \in Nat /\ req \in 0..MaxRequests /\ D \in Chunk /\ L \in Chunk /\ X \in Chunk
      /\ req > 0 => /\ req \in Requests /\ answer[req].ended \in BOOLEAN
                    /\ answer[req].chunks \in 0..MaxChunks + 1
                    /\ answer[req].status \in {"none", "ok", "error", "fatal"}
      /\ Len(out) \in Nat /\ Len(err) \in Nat /\ Len(toClient) \in Nat
  BY Types DEF IInv
<1>1. TypeOK'
  BY <1>t DEF IInv, TypeOK, Loads, Chunk, DataChunk, Plain, InboxInv, ServerInv, ServerOpen, Requests
<1>2. InboxInv'
  <2>1. D' = D /\ L' = L /\ toServer' = Append(toServer, L)
    BY DEF D, L
  <2>2. ServerOpen => /\ spc = "reading" /\ answer[req] = Fresh /\ ~exiting
                      /\ toServer = <<D>> \/ (toServer = <<>> /\ cur = req)
    BY DEF IInv, InboxInv, Listening, Answering
  <2>3. ServerOpen => toServer' = <<D, L>> \/ (toServer' = <<L>> /\ cur = req)
    BY <2>1, <2>2, Inbox
  <2> QED
    BY <2>1, <2>2, <2>3 DEF IInv, InboxInv, Listening, Answering, ServerOpen, Fresh
<1>3. ServerInv'
  BY <1>t DEF IInv, ServerInv, ServerOpen
<1>4. StreamInv'
  BY <1>t DEF IInv, StreamInv, Stage, OnTheWay, ServerOpen, Consumed, Message
<1>5. OutInv'
  BY <1>t DEF IInv, OutInv
<1>6. ResultInv'
  BY <1>t DEF IInv, ResultInv, WholeOrCutShort, AnswerIsWhole, Returned, ServerOpen
<1> QED
  BY <1>1, <1>2, <1>3, <1>4, <1>5, <1>6 DEF IInv

LEMMA SendFailsInv ==
  ASSUME IInv, SendFails
  PROVE  IInv'
<1> USE DEF SendFails, ServerOpen, serverVars, Fails
<1>t. /\ MaxChunks \in Nat /\ req \in 0..MaxRequests /\ D \in Chunk /\ L \in Chunk /\ X \in Chunk
      /\ req > 0 => /\ req \in Requests /\ answer[req].ended \in BOOLEAN
                    /\ answer[req].chunks \in 0..MaxChunks + 1
                    /\ answer[req].status \in {"none", "ok", "error", "fatal"}
      /\ Len(out) \in Nat /\ Len(err) \in Nat /\ Len(toClient) \in Nat
  BY Types DEF IInv
<1>1. TypeOK'
  BY <1>t DEF IInv, TypeOK
<1>2. InboxInv'
  BY <1>t DEF IInv, InboxInv, Listening, Answering, ServerOpen
<1>3. ServerInv'
  BY <1>t DEF IInv, ServerInv, ServerOpen
<1>4. StreamInv'
  BY <1>t DEF IInv, StreamInv, Stage, OnTheWay, ServerOpen, Consumed, Message
<1>5. OutInv'
  BY <1>t DEF IInv, OutInv
<1>6. ResultInv'
  BY <1>t DEF IInv, ResultInv, WholeOrCutShort, AnswerIsWhole, Returned, ServerOpen
<1> QED
  BY <1>1, <1>2, <1>3, <1>4, <1>5, <1>6 DEF IInv

LEMMA ReadDataInv ==
  ASSUME IInv, ReadData
  PROVE  IInv'
<1> USE DEF ReadData, serverVars
<1>t. /\ MaxChunks \in Nat /\ req \in 0..MaxRequests /\ D \in Chunk /\ L \in Chunk /\ X \in Chunk
      /\ req > 0 => /\ req \in Requests /\ answer[req].ended \in BOOLEAN
                    /\ answer[req].chunks \in 0..MaxChunks + 1
                    /\ answer[req].status \in {"none", "ok", "error", "fatal"}
      /\ Len(out) \in Nat /\ Len(err) \in Nat /\ Len(toClient) \in Nat
  BY Types DEF IInv
<1>s. PICK p, w \in Nat : Stage(p, w) /\ OnTheWay(p, w)
  BY DEF IInv, StreamInv
<1>r. /\ Tail(toClient) \in Seq(Chunk) /\ Head(toClient) = toClient[1] /\ Head(toClient) \in Chunk
      /\ Len(toClient) \in Nat \ {0} /\ Len(Tail(toClient)) = Len(toClient) - 1
      /\ \A i \in 1..Len(toClient) - 1 : Tail(toClient)[i] = toClient[i + 1]
  BY TailFacts DEF IInv, TypeOK
<1>h. /\ Consumed \in Nat /\ Consumed + 1 <= w /\ toClient[1] = Message(p, Consumed + 1)
  <2>1. Consumed \in Nat
    BY <1>t DEF Consumed, IInv, TypeOK
  <2> QED
    BY <1>s, <1>r, <2>1 DEF OnTheWay
<1>d. \/ /\ isError /\ Len(out) = p /\ err = <<>> /\ Consumed = p + 1 /\ answer[req].status \in {"error", "fatal"}
         /\ toClient[1] = DataChunk(req, p + 1, {"error"}) /\ err' = Append(err, toClient[1]) /\ out' = out
      \/ /\ ~isError /\ Len(out) < p /\ err = <<>> /\ Consumed = Len(out)
         /\ toClient[1] = DataChunk(req, Len(out) + 1, {"response"}) /\ out' = Append(out, toClient[1]) /\ err' = err
  <2>1. toClient[1].type = "d"
    BY <1>r
  <2>2. CASE isError
    <3>1. Len(out) = p /\ Len(err) \in {0, 1} /\ answer[req].status \in {"error", "fatal"} /\ Consumed = p + Len(err) + 1
      BY <1>s, <2>2 DEF OnTheWay, Consumed
    <3>2. Len(err) = 0
      BY <1>t, <1>h, <2>1, <3>1 DEF Message, Plain
    <3>3. err = <<>>
      BY <3>2, EmptySeq DEF IInv, TypeOK
    <3> QED
      BY <1>r, <1>h, <2>2, <3>1, <3>2, <3>3 DEF Message
  <2>3. CASE ~isError
    <3>1. Len(out) <= p /\ err = <<>> /\ Consumed = Len(out)
      BY <1>t, <1>s, <2>3 DEF OnTheWay, Consumed
    <3>2. Len(out) # p
      <4>1. answer[req].status # "none" \/ Consumed + 1 <= p
        BY <1>s, <1>h DEF Stage
      <4> QED
        BY <1>t, <1>h, <2>1, <3>1, <4>1 DEF Message, Plain
    <3> QED
      BY <1>t, <1>r, <1>h, <2>3, <3>1, <3>2 DEF Message
  <2> QED
    BY <2>2, <2>3
<1>e. /\ Append(err, toClient[1]) \in Seq(Chunk) /\ Len(Append(err, toClient[1])) = Len(err) + 1
      /\ Append(err, toClient[1])[Len(err) + 1] = toClient[1]
      /\ \A i \in 1..Len(err) : Append(err, toClient[1])[i] = err[i]
      /\ Append(out, toClient[1]) \in Seq(Chunk) /\ Len(Append(out, toClient[1])) = Len(out) + 1
      /\ Append(out, toClient[1])[Len(out) + 1] = toClient[1]
      /\ \A i \in 1..Len(out) : Append(out, toClient[1])[i] = out[i]
  BY <1>r, AppendProperties DEF IInv, TypeOK
<1>1. TypeOK'
  <2>1. out' \in Seq(Chunk) /\ err' \in Seq(Chunk)
    BY <1>d, <1>e DEF IInv, TypeOK
  <2> QED
    BY <1>r, <2>1 DEF IInv, TypeOK
<1>2. InboxInv'
  BY <1>t, <1>s, <1>r, <1>h, <1>d, <1>e
    DEF IInv, TypeOK, InboxInv, Listening, Answering, ServerInv, ServerOpen, D, L, X, Quit, Fresh, DataChunk,
         Plain
<1>3. ServerInv'
  BY <1>t, <1>s, <1>r, <1>h, <1>d, <1>e
    DEF IInv, TypeOK, ServerInv, InboxInv, Listening, Answering, ServerOpen, Loads, Fresh, Requests
<1>4. StreamInv'
  <2>1. Len(Append(err, toClient[1])) = Len(err) + 1 /\ Len(Append(out, toClient[1])) = Len(out) + 1
    BY <1>r, AppendProperties DEF IInv, TypeOK
  <2>2. Consumed' = Consumed + 1
    BY <1>t, <1>d, <2>1 DEF Consumed
  <2>3. (IF isError THEN Len(out) = p /\ Len(err) \in {0, 1} /\ answer[req].status \in {"error", "fatal"}
                    ELSE Len(out) <= p /\ err = <<>>)'
    <3>1. CASE isError
      <4>1. Len(err) = 0
        BY <1>d, <3>1
      <4> QED
        BY <1>d, <2>1, <3>1, <4>1
    <3>2. CASE ~isError
      BY <1>t, <1>d, <2>1, <3>2
    <3> QED
      BY <3>1, <3>2
  <2>4. OnTheWay(p, w)'
    BY <1>s, <1>r, <2>2, <2>3, WayShrinks DEF IInv
  <2>5. Stage(p, w)'
    BY <1>s DEF Stage
  <2> QED
    BY <2>4, <2>5 DEF StreamInv
<1>5. OutInv'
  <2>1. CASE isError
    <3>1. Len(err') = 1 /\ err'[1] = DataChunk(req, Len(out) + 1, {"error"}) /\ out' = out
      BY <1>d, <1>e, <2>1
    <3> QED
      BY <3>1 DEF IInv, OutInv
  <2>2. CASE ~isError
    <3>1. Len(out') = Len(out) + 1 /\ out'[Len(out) + 1] = DataChunk(req, Len(out) + 1, {"response"}) /\ err' = <<>>
      BY <1>d, <1>e, <2>2
    <3>2. \A i \in 1..Len(out) : out'[i] = DataChunk(req, i, {"response"})
      BY <1>d, <1>e, <2>2 DEF IInv, OutInv
    <3> QED
      BY <1>t, <3>1, <3>2 DEF OutInv
  <2> QED
    BY <2>1, <2>2
<1>6. ResultInv'
  BY <1>t, <1>s, <1>r, <1>h, <1>d, <1>e
    DEF IInv, ResultInv, WholeOrCutShort, AnswerIsWhole, Returned, ServerOpen
<1> QED
  BY <1>1, <1>2, <1>3, <1>4, <1>5, <1>6 DEF IInv

LEMMA WriteFailsInv ==
  ASSUME IInv, WriteFails
  PROVE  IInv'
<1> USE DEF WriteFails, serverVars, Fails
<1>t. /\ MaxChunks \in Nat /\ req \in 0..MaxRequests /\ D \in Chunk /\ L \in Chunk /\ X \in Chunk
      /\ req > 0 => /\ req \in Requests /\ answer[req].ended \in BOOLEAN
                    /\ answer[req].chunks \in 0..MaxChunks + 1
                    /\ answer[req].status \in {"none", "ok", "error", "fatal"}
      /\ Len(out) \in Nat /\ Len(err) \in Nat /\ Len(toClient) \in Nat
  BY Types DEF IInv
<1>r. /\ Tail(toClient) \in Seq(Chunk) /\ Head(toClient) = toClient[1] /\ Head(toClient) \in Chunk
      /\ Len(toClient) \in Nat \ {0} /\ Len(Tail(toClient)) = Len(toClient) - 1
      /\ \A i \in 1..Len(toClient) - 1 : Tail(toClient)[i] = toClient[i + 1]
  BY TailFacts DEF IInv, TypeOK
<1>1. TypeOK'
  BY <1>r, CloseFacts DEF IInv, TypeOK
<1>2. InboxInv'
  BY CloseFacts
<1>3. ServerInv'
  BY <1>t, <1>r DEF IInv, ServerInv, ServerOpen
<1>4. StreamInv'
  BY <1>t, <1>r DEF IInv, StreamInv, Stage, OnTheWay, ServerOpen, Consumed, Message
<1>5. OutInv'
  BY <1>t, <1>r DEF IInv, OutInv
<1>6. ResultInv'
  BY <1>t, <1>r DEF IInv, ResultInv, WholeOrCutShort, AnswerIsWhole, Returned, ServerOpen
<1> QED
  BY <1>1, <1>2, <1>3, <1>4, <1>5, <1>6 DEF IInv

LEMMA ReadExtensionInv ==
  ASSUME IInv, ReadExtension
  PROVE  IInv'
<1> USE DEF ReadExtension, serverVars
<1>t. /\ MaxChunks \in Nat /\ req \in 0..MaxRequests /\ D \in Chunk /\ L \in Chunk /\ X \in Chunk
      /\ req > 0 => /\ req \in Requests /\ answer[req].ended \in BOOLEAN
                    /\ answer[req].chunks \in 0..MaxChunks + 1
                    /\ answer[req].status \in {"none", "ok", "error", "fatal"}
      /\ Len(out) \in Nat /\ Len(err) \in Nat /\ Len(toClient) \in Nat
  BY Types DEF IInv
<1>s. PICK p, w \in Nat : Stage(p, w) /\ OnTheWay(p, w)
  BY DEF IInv, StreamInv
<1>r. /\ Tail(toClient) \in Seq(Chunk) /\ Head(toClient) = toClient[1] /\ Head(toClient) \in Chunk
      /\ Len(toClient) \in Nat \ {0} /\ Len(Tail(toClient)) = Len(toClient) - 1
      /\ \A i \in 1..Len(toClient) - 1 : Tail(toClient)[i] = toClient[i + 1]
  BY TailFacts DEF IInv, TypeOK
<1>h. /\ Consumed \in Nat /\ Consumed + 1 <= w /\ toClient[1] = Message(p, Consumed + 1)
  <2>1. Consumed \in Nat
    BY <1>t DEF Consumed, IInv, TypeOK
  <2> QED
    BY <1>s, <1>r, <2>1 DEF OnTheWay
<1>1. TypeOK'
  BY <1>t, <1>s, <1>r, <1>h, AppendProperties, ConcatProperties
    DEF IInv, TypeOK, Loads, InboxInv, ServerInv, ServerOpen, L, X, D, DataChunk, Plain, Chunk
<1>2. InboxInv'
  BY <1>t, <1>s, <1>r, <1>h
    DEF IInv, TypeOK, InboxInv, Listening, Answering, ServerInv, ServerOpen, D, L, X, Quit, Fresh, DataChunk,
         Plain
<1>3. ServerInv'
  BY <1>t, <1>s, <1>r, <1>h
    DEF IInv, TypeOK, ServerInv, InboxInv, Listening, Answering, ServerOpen, Loads, Fresh, Requests
<1>4. StreamInv'
  <2>1. toClient[1].type = "x"
    BY <1>r
  <2>2. ~isError /\ Consumed = p /\ Len(out) = p /\ err = <<>> /\ answer[req].status \in {"error", "fatal"}
    <3>1. CASE isError
      <4>1. Len(out) = p /\ Len(err) \in {0, 1} /\ answer[req].status \in {"error", "fatal"} /\ Consumed = p + Len(err) + 1
        BY <1>s, <3>1 DEF OnTheWay, Consumed
      <4> QED
        BY <1>t, <1>h, <2>1, <4>1 DEF Message, Plain, DataChunk
    <3>2. CASE ~isError
      <4>1. Len(out) <= p /\ err = <<>> /\ Consumed = Len(out)
        BY <1>t, <1>s, <3>2 DEF OnTheWay, Consumed
      <4>2. Len(out) = p
        BY <1>t, <1>h, <2>1, <4>1 DEF Message, DataChunk
      <4>3. answer[req].status \in {"error", "fatal"}
        <5>1. answer[req].status # "none"
          BY <1>s, <1>h, <4>1, <4>2 DEF Stage
        <5>2. answer[req].status # "ok"
          BY <1>t, <1>h, <2>1, <4>1, <4>2 DEF Message, Plain
        <5>3. req > 0
          BY DEF IInv, InboxInv
        <5> QED
          BY <1>t, <5>1, <5>2, <5>3
      <4> QED
        BY <3>2, <4>1, <4>2, <4>3
    <3> QED
      BY <3>1, <3>2
  <2>3. Consumed' = Consumed + 1
    BY <1>t, <2>2 DEF Consumed
  <2>4. OnTheWay(p, w)'
    BY <1>t, <1>s, <1>r, <2>2, <2>3, WayShrinks DEF IInv
  <2>5. Stage(p, w)'
    BY <1>s DEF Stage
  <2> QED
    BY <2>4, <2>5 DEF StreamInv
<1>5. OutInv'
  BY <1>t, <1>s, <1>r, <1>h DEF IInv, OutInv
<1>6. ResultInv'
  BY <1>t, <1>s, <1>r, <1>h DEF IInv, ResultInv, WholeOrCutShort, AnswerIsWhole, Returned, ServerOpen
<1> QED
  BY <1>1, <1>2, <1>3, <1>4, <1>5, <1>6 DEF IInv

LEMMA ReadLastInv ==
  ASSUME IInv, ReadLast
  PROVE  IInv'
<1> USE DEF ReadLast, serverVars, Ends
<1>x. result' \in {"true", "false"} /\ cpc' = "idle" /\ (result' = "true" <=> ~isError)
  OBVIOUS
<1> HIDE DEF Ends
<1>t. /\ MaxChunks \in Nat /\ req \in 0..MaxRequests /\ D \in Chunk /\ L \in Chunk /\ X \in Chunk
      /\ req > 0 => /\ req \in Requests /\ answer[req].ended \in BOOLEAN
                    /\ answer[req].chunks \in 0..MaxChunks + 1
                    /\ answer[req].status \in {"none", "ok", "error", "fatal"}
      /\ Len(out) \in Nat /\ Len(err) \in Nat /\ Len(toClient) \in Nat
  BY Types DEF IInv
<1>s. PICK p, w \in Nat : Stage(p, w) /\ OnTheWay(p, w)
  BY DEF IInv, StreamInv
<1>r. /\ Tail(toClient) \in Seq(Chunk) /\ Head(toClient) = toClient[1] /\ Head(toClient) \in Chunk
      /\ Len(toClient) \in Nat \ {0} /\ Len(Tail(toClient)) = Len(toClient) - 1
      /\ \A i \in 1..Len(toClient) - 1 : Tail(toClient)[i] = toClient[i + 1]
  BY TailFacts DEF IInv, TypeOK
<1>h. Consumed \in Nat /\ Consumed + 1 <= w /\ toClient[1] = Message(p, Consumed + 1)
  <2>1. Consumed \in Nat
    BY <1>t DEF Consumed, IInv, TypeOK
  <2> QED
    BY <1>s, <1>r, <2>1 DEF OnTheWay
<1>d. \/ ~isError /\ answer[req].status = "ok" /\ Len(out) = p /\ err = <<>> /\ Consumed = p
      \/ isError /\ answer[req].status \in {"error", "fatal"} /\ Len(out) = p /\ Len(err) = 1 /\ Consumed = p + 2
  <2>1. toClient[1].type = "last"
    BY <1>r
  <2>2. CASE isError
    <3>1. Len(out) = p /\ Len(err) \in {0, 1} /\ answer[req].status \in {"error", "fatal"} /\ Consumed = p + Len(err) + 1
      BY <1>s, <2>2 DEF OnTheWay, Consumed
    <3>2. Len(err) # 0
      BY <1>t, <1>h, <2>1, <3>1 DEF Message, DataChunk
    <3> QED
      <4>1. Len(err) = 1
        BY <3>1, <3>2
      <4>2. Consumed = p + 2
        BY <1>s, <3>1, <4>1
      <4> QED
        BY <2>2, <3>1, <4>1, <4>2
  <2>3. CASE ~isError
    <3>1. Len(out) <= p /\ err = <<>> /\ Consumed = Len(out)
      BY <1>t, <1>s, <2>3 DEF OnTheWay, Consumed
    <3>2. Len(out) = p
      BY <1>t, <1>h, <2>1, <3>1 DEF Message, DataChunk
    <3> QED
      BY <1>t, <1>h, <2>1, <2>3, <3>1, <3>2 DEF Message, Plain
  <2> QED
    BY <2>2, <2>3
<1>e. answer[req].ended /\ Len(out) + Len(err) = answer[req].chunks /\ Consumed + 1 = w
  <2>2. CASE answer[req].status = "ok"
    BY <1>t, <1>s, <1>h, <1>d, <2>2 DEF Stage
  <2>3. CASE answer[req].status \in {"error", "fatal"}
    <3>1. Consumed = p + 2 /\ Len(out) + Len(err) = p + 1
      BY <1>t, <1>s, <1>d, <2>3
    <3>2. w = p + 3
      BY <1>s, <1>h, <2>3, <3>1 DEF Stage
    <3>3. answer[req].ended /\ answer[req].chunks = p + 1
      BY <1>s, <2>3, <3>2 DEF Stage
    <3> QED
      BY <3>1, <3>2, <3>3
  <2> QED
    BY <1>d, <2>2, <2>3
<1>f. Len(toClient) = 1 /\ toClient' = <<>>
  <2>1. Len(toClient) = 1
    BY <1>s, <1>r, <1>h, <1>e DEF OnTheWay
  <2> QED
    BY <1>r, <2>1, EmptySeq
<1>g. ServerOpen => spc = "reading" /\ toServer = <<>> /\ ~exiting
  <2>1. spc \in {"reading", "gone"}
    BY <1>e DEF IInv, TypeOK, ServerInv
  <2>2. answer[req] # Fresh
    BY <1>e DEF Fresh
  <2> QED
    BY <2>1, <2>2 DEF IInv, InboxInv, Listening, ServerOpen
<1>1. TypeOK'
  BY <1>t, <1>x, <1>d, <1>e, <1>f, <1>g DEF IInv, TypeOK
<1>2. InboxInv'
  <2>1. ServerOpen => Listening'
    BY <1>x, <1>g DEF Listening
  <2> QED
    BY <1>x, <1>g, <2>1 DEF IInv, InboxInv, ServerOpen
<1>3. ServerInv'
  BY <1>t, <1>x, <1>d, <1>e, <1>f, <1>g DEF IInv, ServerInv, ServerOpen
<1>4. StreamInv'
  BY <1>x, <1>f DEF IInv, StreamInv
<1>5. OutInv'
  BY <1>t, <1>x, <1>d, <1>e, <1>f, <1>g DEF IInv, OutInv
<1>6. ResultInv'
  <2>1. req > 0
    BY DEF IInv, InboxInv
  <2>2. AnswerIsWhole'
    BY <1>x, <1>d, <1>e, <2>1 DEF AnswerIsWhole
  <2>3. ServerOpen => toServer' \in Quit'
    BY <1>x, <1>g DEF Quit
  <2> QED
    BY <1>x, <1>g, <2>1, <2>2, <2>3 DEF ResultInv, WholeOrCutShort, Returned, ServerOpen
<1> QED
  BY <1>1, <1>2, <1>3, <1>4, <1>5, <1>6 DEF IInv

LEMMA ReadEndInv ==
  ASSUME IInv, ReadEnd
  PROVE  IInv'
<1> USE DEF ReadEnd, ServerOpen, serverVars, Ends
<1>t. /\ MaxChunks \in Nat /\ req \in 0..MaxRequests /\ D \in Chunk /\ L \in Chunk /\ X \in Chunk
      /\ req > 0 => /\ req \in Requests /\ answer[req].ended \in BOOLEAN
                    /\ answer[req].chunks \in 0..MaxChunks + 1
                    /\ answer[req].status \in {"none", "ok", "error", "fatal"}
      /\ Len(out) \in Nat /\ Len(err) \in Nat /\ Len(toClient) \in Nat
  BY Types DEF IInv
<1>s. PICK p, w \in Nat : Stage(p, w) /\ OnTheWay(p, w)
  BY DEF IInv, StreamInv
<1>1. TypeOK'
  BY <1>t, <1>s DEF IInv, TypeOK
<1>2. InboxInv'
  BY <1>t, <1>s DEF IInv, InboxInv, Listening, Answering, ServerOpen
<1>3. ServerInv'
  BY <1>t, <1>s DEF IInv, ServerInv, ServerOpen
<1>4. StreamInv'
  BY <1>t, <1>s DEF IInv, StreamInv, Stage, OnTheWay, ServerOpen, Consumed, Message
<1>5. OutInv'
  BY <1>t, <1>s DEF IInv, OutInv
<1>6. ResultInv'
  <2>1. Consumed = w
    <3>1. Consumed \in Nat /\ Len(toClient) = 0
      BY <1>t DEF Consumed, IInv, TypeOK
    <3> QED
      BY <1>s, <3>1 DEF OnTheWay
  <2>2. ~answer[req].ended
    <3>1. CASE isError
      <4>1. Consumed = p + Len(err) + 1 /\ Len(err) \in {0, 1} /\ answer[req].status \in {"error", "fatal"}
        BY <1>s, <3>1 DEF OnTheWay, Consumed
      <4>2. w # p + 3
        <5>1. CASE Len(err) = 0
          BY <1>s, <2>1, <4>1, <5>1
        <5>2. CASE Len(err) = 1
          BY <1>s, <2>1, <4>1, <5>2
        <5> QED
          BY <4>1, <5>1, <5>2
      <4> QED
        BY <1>s, <4>1, <4>2 DEF Stage
    <3>2. CASE ~isError
      BY <1>t, <1>s, <2>1, <3>2 DEF Stage, OnTheWay, Consumed
    <3> QED
      BY <3>1, <3>2
  <2>3. req > 0
    BY DEF IInv, InboxInv
  <2> QED
    BY <2>2, <2>3 DEF ResultInv, WholeOrCutShort, Returned, ServerOpen
<1> QED
  BY <1>1, <1>2, <1>3, <1>4, <1>5, <1>6 DEF IInv

LEMMA ReadCutInv ==
  ASSUME IInv, ReadCut
  PROVE  IInv'
<1> USE DEF ReadCut, ServerOpen, serverVars, Ends
<1>t. /\ MaxChunks \in Nat /\ req \in 0..MaxRequests /\ D \in Chunk /\ L \in Chunk /\ X \in Chunk
      /\ req > 0 => /\ req \in Requests /\ answer[req].ended \in BOOLEAN
                    /\ answer[req].chunks \in 0..MaxChunks + 1
                    /\ answer[req].status \in {"none", "ok", "error", "fatal"}
      /\ Len(out) \in Nat /\ Len(err) \in Nat /\ Len(toClient) \in Nat
  BY Types DEF IInv
<1>s. PICK p, w \in Nat : Stage(p, w) /\ OnTheWay(p, w)
  BY DEF IInv, StreamInv
<1>1. TypeOK'
  BY <1>t, <1>s DEF IInv, TypeOK
<1>2. InboxInv'
  BY <1>t, <1>s DEF IInv, InboxInv, Listening, Answering, ServerOpen
<1>3. ServerInv'
  BY <1>t, <1>s DEF IInv, ServerInv, ServerOpen
<1>4. StreamInv'
  BY <1>t, <1>s DEF IInv, StreamInv, Stage, OnTheWay, ServerOpen, Consumed, Message
<1>5. OutInv'
  BY <1>t, <1>s DEF IInv, OutInv
<1>6. ResultInv'
  BY <1>t, <1>s DEF IInv, ResultInv, WholeOrCutShort, AnswerIsWhole, Returned, ServerOpen
<1> QED
  BY <1>1, <1>2, <1>3, <1>4, <1>5, <1>6 DEF IInv

LEMMA TimesOutInv ==
  ASSUME IInv, TimesOut
  PROVE  IInv'
<1> USE DEF TimesOut, ServerOpen, serverVars, Fails
<1>t. /\ MaxChunks \in Nat /\ req \in 0..MaxRequests /\ D \in Chunk /\ L \in Chunk /\ X \in Chunk
      /\ req > 0 => /\ req \in Requests /\ answer[req].ended \in BOOLEAN
                    /\ answer[req].chunks \in 0..MaxChunks + 1
                    /\ answer[req].status \in {"none", "ok", "error", "fatal"}
      /\ Len(out) \in Nat /\ Len(err) \in Nat /\ Len(toClient) \in Nat
  BY Types DEF IInv
<1>1. TypeOK'
  BY CloseFacts DEF IInv, TypeOK
<1>2. InboxInv'
  BY CloseFacts
<1>3. ServerInv'
  BY <1>t DEF IInv, ServerInv, ServerOpen
<1>4. StreamInv'
  BY <1>t DEF IInv, StreamInv, Stage, OnTheWay, ServerOpen, Consumed, Message
<1>5. OutInv'
  BY <1>t DEF IInv, OutInv
<1>6. ResultInv'
  BY <1>t DEF IInv, ResultInv, WholeOrCutShort, AnswerIsWhole, Returned, ServerOpen
<1> QED
  BY <1>1, <1>2, <1>3, <1>4, <1>5, <1>6 DEF IInv

LEMMA ResetInv ==
  ASSUME IInv, Reset
  PROVE  IInv'
<1> USE DEF Reset, ServerOpen, serverVars, Fails
<1>t. /\ MaxChunks \in Nat /\ req \in 0..MaxRequests /\ D \in Chunk /\ L \in Chunk /\ X \in Chunk
      /\ req > 0 => /\ req \in Requests /\ answer[req].ended \in BOOLEAN
                    /\ answer[req].chunks \in 0..MaxChunks + 1
                    /\ answer[req].status \in {"none", "ok", "error", "fatal"}
      /\ Len(out) \in Nat /\ Len(err) \in Nat /\ Len(toClient) \in Nat
  BY Types DEF IInv
<1>1. TypeOK'
  BY <1>t DEF IInv, TypeOK
<1>2. InboxInv'
  BY <1>t DEF IInv, InboxInv, Listening, Answering, ServerOpen
<1>3. ServerInv'
  BY <1>t DEF IInv, ServerInv, ServerOpen
<1>4. StreamInv'
  BY <1>t DEF IInv, StreamInv, Stage, OnTheWay, ServerOpen, Consumed, Message
<1>5. OutInv'
  BY <1>t DEF IInv, OutInv
<1>6. ResultInv'
  BY <1>t DEF IInv, ResultInv, WholeOrCutShort, AnswerIsWhole, Returned, ServerOpen
<1> QED
  BY <1>1, <1>2, <1>3, <1>4, <1>5, <1>6 DEF IInv

LEMMA ShutdownInv ==
  ASSUME IInv, Shutdown
  PROVE  IInv'
<1> USE DEF Shutdown, serverVars
<1>t. /\ MaxChunks \in Nat /\ req \in 0..MaxRequests /\ D \in Chunk /\ L \in Chunk /\ X \in Chunk
      /\ req > 0 => /\ req \in Requests /\ answer[req].ended \in BOOLEAN
                    /\ answer[req].chunks \in 0..MaxChunks + 1
                    /\ answer[req].status \in {"none", "ok", "error", "fatal"}
      /\ Len(out) \in Nat /\ Len(err) \in Nat /\ Len(toClient) \in Nat
  BY Types DEF IInv
<1>1. TypeOK'
  BY CloseFacts DEF IInv, TypeOK
<1>2. InboxInv'
  BY CloseFacts
<1>3. ServerInv'
  BY <1>t DEF IInv, ServerInv, ServerOpen
<1>4. StreamInv'
  BY <1>t DEF IInv, StreamInv, Stage, OnTheWay, ServerOpen, Consumed, Message
<1>5. OutInv'
  BY <1>t DEF IInv, OutInv
<1>6. ResultInv'
  <2>1. ServerOpen => toServer' \in Quit'
    BY CloseFacts
  <2> QED
    BY <2>1 DEF IInv, ResultInv, WholeOrCutShort, AnswerIsWhole, Returned, ServerOpen
<1> QED
  BY <1>1, <1>2, <1>3, <1>4, <1>5, <1>6 DEF IInv

LEMMA ClientDiesInv ==
  ASSUME IInv, ClientDies
  PROVE  IInv'
<1> USE DEF ClientDies, ClientOpen, serverVars
<1>t. /\ MaxChunks \in Nat /\ req \in 0..MaxRequests /\ D \in Chunk /\ L \in Chunk /\ X \in Chunk
      /\ req > 0 => /\ req \in Requests /\ answer[req].ended \in BOOLEAN
                    /\ answer[req].chunks \in 0..MaxChunks + 1
                    /\ answer[req].status \in {"none", "ok", "error", "fatal"}
      /\ Len(out) \in Nat /\ Len(err) \in Nat /\ Len(toClient) \in Nat
  BY Types DEF IInv
<1>1. TypeOK'
  BY <1>t DEF IInv, TypeOK
<1>2. InboxInv'
  BY <1>t DEF IInv, InboxInv, Listening, Answering, ServerOpen, D, L, X, Quit, Fresh
<1>3. ServerInv'
  BY <1>t DEF IInv, ServerInv, ServerOpen
<1>4. StreamInv'
  BY <1>t DEF IInv, StreamInv, Stage, OnTheWay, ServerOpen, Consumed, Message
<1>5. OutInv'
  BY <1>t DEF IInv, OutInv
<1>6. ResultInv'
  BY <1>t
    DEF IInv, ResultInv, WholeOrCutShort, AnswerIsWhole, Returned, ServerOpen, InboxInv, Listening, Answering,
         Quit
<1> QED
  BY <1>1, <1>2, <1>3, <1>4, <1>5, <1>6 DEF IInv

LEMMA ReceiveInv ==
  ASSUME IInv, Receive
  PROVE  IInv'
<1> USE DEF Receive, clientVars
<1>t. /\ MaxChunks \in Nat /\ req \in 0..MaxRequests /\ D \in Chunk /\ L \in Chunk /\ X \in Chunk
      /\ req > 0 => /\ req \in Requests /\ answer[req].ended \in BOOLEAN
                    /\ answer[req].chunks \in 0..MaxChunks + 1
                    /\ answer[req].status \in {"none", "ok", "error", "fatal"}
      /\ Len(out) \in Nat /\ Len(err) \in Nat /\ Len(toClient) \in Nat
  BY Types DEF IInv
<1>a. Listening /\ toServer \in Seq(Chunk) /\ Head(toServer) \in Chunk /\ Tail(toServer) \in Seq(Chunk) /\ ServerOpen
  BY TailFacts DEF IInv, TypeOK, InboxInv, ServerOpen
<1>b. \/ /\ \/ toServer = <<D>> /\ toServer' = <<>> /\ cpc \in {"sending", "closed"}
            \/ toServer = <<D, L>> /\ toServer' = <<L>> /\ cpc \in {"reading", "closed"}
            \/ toServer = <<D, L, X, L>> /\ toServer' = <<L, X, L>> /\ cpc = "closed"
         /\ cur' = req /\ req > 0 /\ answer[req] = Fresh /\ ~exiting /\ UNCHANGED <<spc, exiting>>
      \/ /\ \/ toServer = <<L>> /\ toServer' = <<>> /\ cpc \in {"reading", "closed"}
            \/ toServer = <<L, X, L>> /\ toServer' = <<X, L>> /\ cpc = "closed"
         /\ cur = req /\ req > 0 /\ answer[req] = Fresh /\ ~exiting /\ spc' = "working" /\ UNCHANGED <<cur, exiting>>
      \/ /\ toServer = <<X, L>> /\ toServer' = <<L>> /\ cpc = "closed" /\ exiting' = TRUE /\ UNCHANGED <<spc, cur>>
      \/ /\ toServer = <<L>> /\ cpc = "closed" /\ exiting /\ spc' = "gone" /\ UNCHANGED <<cur, exiting>>
  <2>1. /\ D.type = "d" /\ D.of = req /\ L.type = "last" /\ X.type = "x"
    BY DEF D, L, X, DataChunk, Plain
  <2>2. CASE toServer \in {<<D>>, <<D, L>>, <<D, L, X, L>>}
    <3>1. Head(toServer) = D /\ toServer # <<L>> /\ toServer \notin Quit /\ toServer \notin {<<L>>, <<L, X, L>>}
      <4>1. \A s \in {<<D>>, <<D, L>>, <<D, L, X, L>>} : Head(s) = D
        BY Inbox
      <4>2. D # L
        BY <2>1
      <4>3. Head(<<L, X, L>>) = L
        BY Inbox
      <4> QED
        BY <2>2, <4>1, <4>2, <4>3, Inbox DEF Quit
    <3> QED
      BY <1>a, <2>1, <2>2, <3>1, Inbox DEF Listening
  <2>3. CASE toServer = <<L>>
    <3>1. Head(toServer) = L /\ Tail(toServer) = <<>>
      BY <2>3, Inbox
    <3>2. toServer \notin {<<>>, <<D>>, <<D, L>>, <<X, L>>, <<L, X, L>>, <<D, L, X, L>>}
      BY <2>3, Inbox
    <3> QED
      BY <1>a, <2>1, <2>3, <3>1, <3>2 DEF Listening, Quit
  <2>4. CASE toServer = <<L, X, L>>
    <3>1. Head(toServer) = L /\ Tail(toServer) = <<X, L>> /\ toServer # <<>> /\ toServer # <<X, L>> /\ toServer # <<L>>
      BY <2>4, Inbox
    <3>2. toServer \notin {<<D>>, <<D, L>>, <<D, L, X, L>>}
      BY <2>1, <3>1, Inbox
    <3> QED
      BY <1>a, <2>1, <2>4, <3>1, <3>2 DEF Listening, Quit
  <2>5. CASE toServer = <<X, L>>
    <3>1. Head(toServer) = X /\ Tail(toServer) = <<L>>
      BY <2>5, Inbox
    <3>2. toServer \notin {<<>>, <<D>>, <<L>>, <<D, L>>, <<L, X, L>>, <<D, L, X, L>>}
      BY <2>5, Inbox
    <3> QED
      BY <1>a, <2>1, <2>5, <3>1, <3>2 DEF Listening, Quit
  <2> QED
    BY <1>a, <2>2, <2>3, <2>4, <2>5 DEF Listening, Quit
<1>c. req' = req /\ D' = D /\ L' = L /\ X' = X
  BY DEF D, L, X
<1>1. TypeOK'
  BY <1>t, <1>a, <1>b DEF IInv, TypeOK
<1>2. InboxInv'
  <2>1. spc' = "reading" => Listening'
    BY <1>b, <1>c DEF Listening, Quit
  <2>2. spc' # "reading" /\ spc' # "gone" => Answering'
    BY <1>b, <1>c DEF Answering, Quit
  <2> QED
    BY <1>c, <2>1, <2>2 DEF IInv, InboxInv, ServerOpen
<1>3. ServerInv'
  BY <1>t, <1>b, <1>c DEF IInv, ServerInv, Fresh
<1>4. StreamInv'
  <2>1. ASSUME cpc \in {"sending", "reading"}, NEW p \in Nat, NEW w \in Nat, Stage(p, w), OnTheWay(p, w)
        PROVE  Stage(p, w)' /\ OnTheWay(p, w)'
    <3>1. spc' \in {"reading", "working"} /\ (spc' = "working" => answer[req] = Fresh /\ w = p)
      BY <1>b, <2>1 DEF Stage, Fresh
    <3>2. Stage(p, w)'
      BY <2>1, <3>1 DEF Stage, Fresh
    <3>3. OnTheWay(p, w)'
      BY <1>a, <2>1, <3>1 DEF OnTheWay, Consumed, Message, ServerOpen
    <3> QED
      BY <3>2, <3>3
  <2> QED
    BY <2>1 DEF IInv, StreamInv
<1>5. OutInv'
  BY <1>t, <1>a, <1>b, <1>c DEF IInv, OutInv
<1>6. ResultInv'
  <2>1. Returned => answer[req] # Fresh \/ cpc = "closed"
    BY <1>a DEF IInv, ResultInv, Listening
  <2>2. Returned => ~(toServer \in {<<D>>, <<D, L>>, <<D, L, X, L>>, <<L, X, L>>}) /\ (toServer = <<L>> => exiting)
    <3>1. exiting => toServer = <<L>>
      BY <1>a DEF Listening
    <3>2. Returned => toServer \in Quit \/ exiting
      BY <1>a DEF IInv, ResultInv
    <3> QED
      BY <3>1, <3>2, Inbox DEF Quit
  <2>3. Quit' = Quit /\ <<L>> \notin {<<D>>, <<D, L>>}
    BY <1>c DEF Quit, D, L, DataChunk, Plain
  <2> QED
    BY <1>a, <1>b, <1>c, <2>1, <2>2, <2>3
      DEF IInv, ResultInv, WholeOrCutShort, AnswerIsWhole, Returned, ServerOpen, Quit
<1> QED
  BY <1>1, <1>2, <1>3, <1>4, <1>5, <1>6 DEF IInv

LEMMA ReceiveEndInv ==
  ASSUME IInv, ReceiveEnd
  PROVE  IInv'
<1> USE DEF ReceiveEnd, ClientOpen, clientVars
<1>t. /\ MaxChunks \in Nat /\ req \in 0..MaxRequests /\ D \in Chunk /\ L \in Chunk /\ X \in Chunk
      /\ req > 0 => /\ req \in Requests /\ answer[req].ended \in BOOLEAN
                    /\ answer[req].chunks \in 0..MaxChunks + 1
                    /\ answer[req].status \in {"none", "ok", "error", "fatal"}
      /\ Len(out) \in Nat /\ Len(err) \in Nat /\ Len(toClient) \in Nat
  BY Types DEF IInv
<1>1. TypeOK'
  BY <1>t DEF IInv, TypeOK
<1>2. InboxInv'
  BY <1>t DEF IInv, InboxInv, Listening, Answering, ServerOpen
<1>3. ServerInv'
  BY <1>t DEF IInv, ServerInv, ServerOpen
<1>4. StreamInv'
  BY <1>t DEF IInv, StreamInv, Stage, OnTheWay, ServerOpen, Consumed, Message
<1>5. OutInv'
  BY <1>t DEF IInv, OutInv
<1>6. ResultInv'
  BY <1>t DEF IInv, ResultInv, WholeOrCutShort, AnswerIsWhole, Returned, ServerOpen
<1> QED
  BY <1>1, <1>2, <1>3, <1>4, <1>5, <1>6 DEF IInv

LEMMA PrintResponseInv ==
  ASSUME IInv, PrintResponse
  PROVE  IInv'
<1> USE DEF PrintResponse, clientVars
<1>t. /\ MaxChunks \in Nat /\ req \in 0..MaxRequests /\ D \in Chunk /\ L \in Chunk /\ X \in Chunk
      /\ req > 0 => /\ req \in Requests /\ answer[req].ended \in BOOLEAN
                    /\ answer[req].chunks \in 0..MaxChunks + 1
                    /\ answer[req].status \in {"none", "ok", "error", "fatal"}
      /\ Len(out) \in Nat /\ Len(err) \in Nat /\ Len(toClient) \in Nat
  BY Types DEF IInv
<1>1. TypeOK'
  BY <1>t DEF IInv, TypeOK, Loads, Chunk, DataChunk, Plain, InboxInv, ServerInv, ServerOpen, Requests
<1>2. InboxInv'
  BY <1>t DEF IInv, InboxInv, Listening, Answering, ServerOpen, D, L, X, Quit, Fresh
<1>3. ServerInv'
  BY <1>t DEF IInv, TypeOK, ServerInv, InboxInv, Listening, Answering, ServerOpen
<1>4. StreamInv'
  BY <1>t DEF IInv, StreamInv, Stage, OnTheWay, ServerOpen, Consumed, Message
<1>5. OutInv'
  BY <1>t DEF IInv, OutInv
<1>6. ResultInv'
  BY <1>t DEF IInv, ResultInv, WholeOrCutShort, AnswerIsWhole, Returned, ServerOpen
<1> QED
  BY <1>1, <1>2, <1>3, <1>4, <1>5, <1>6 DEF IInv

LEMMA OverflowInv ==
  ASSUME IInv, Overflow
  PROVE  IInv'
<1> USE DEF Overflow, clientVars
<1>t. /\ MaxChunks \in Nat /\ req \in 0..MaxRequests /\ D \in Chunk /\ L \in Chunk /\ X \in Chunk
      /\ req > 0 => /\ req \in Requests /\ answer[req].ended \in BOOLEAN
                    /\ answer[req].chunks \in 0..MaxChunks + 1
                    /\ answer[req].status \in {"none", "ok", "error", "fatal"}
      /\ Len(out) \in Nat /\ Len(err) \in Nat /\ Len(toClient) \in Nat
  BY Types DEF IInv
<1>y. /\ req \in Requests /\ cur = req /\ cpc \in {"reading", "closed"} /\ answer[req].chunks \in 0..MaxChunks
      /\ answer' \in [Requests -> [chunks : 0..MaxChunks + 1, ended : BOOLEAN,
                                  status : {"none", "ok", "error", "fatal"}]]
      /\ answer'[req].chunks = answer[req].chunks + 1 /\ answer'[req].status = answer[req].status
      /\ answer'[req].ended = answer[req].ended /\ \A r \in Requests \ {req} : answer'[r] = answer[r]
      /\ buf' = {} /\ DataChunk(req, answer[req].chunks + 1, buf) \in Chunk
      /\ toClient' \in Seq(Chunk)
      /\ cpc = "closed" => toClient' = toClient
      /\ cpc = "reading" =>
           toServer = <<>> /\ toClient' = Append(toClient, DataChunk(req, answer[req].chunks + 1, buf))
  BY SyncFacts
<1>u. ServerOpen /\ req > 0 /\ ~answer[req].ended /\ Answering
  BY DEF IInv, ServerOpen, InboxInv, ServerInv, Answering
<1>1. TypeOK'
  BY <1>y DEF IInv, TypeOK, Loads
<1>2. InboxInv'
  <2>1. Answering'
    BY <1>u DEF Answering, Quit, L, X
  <2>2. \A r \in Requests : r > req' => answer'[r] = Fresh
    BY <1>t, <1>y DEF IInv, InboxInv
  <2> QED
    BY <1>t, <1>u, <1>y, <2>1, <2>2 DEF InboxInv, ServerOpen
<1>3. ServerInv'
  BY <1>t, <1>u, <1>y DEF IInv, ServerInv, Sync
<1>4. StreamInv'
  <2>1. CASE cpc = "closed"
    BY <2>1 DEF StreamInv
  <2>2. CASE cpc = "reading"
    <3>1. PICK p, w \in Nat : Stage(p, w) /\ OnTheWay(p, w)
      BY <2>2 DEF IInv, StreamInv
    <3>2. w = p /\ answer[req].chunks = p /\ buf = {"response"} /\ answer[req].status # "ok"
      BY <1>t, <1>u, <3>1 DEF IInv, Stage, ServerInv, Sync
    <3>3. ~isError
      BY <1>t, <1>u, <3>1, <3>2 DEF OnTheWay, Consumed
    <3>4. Stage(p + 1, p + 1)'
      BY <1>t, <1>u, <1>y, <3>1, <3>2 DEF Stage
    <3>5. /\ \A k \in 1..w : Message(p + 1, k)' = Message(p, k)
          /\ Message(p + 1, w + 1)' = DataChunk(req, answer[req].chunks + 1, buf)
      BY <3>2 DEF Message
    <3>6. OnTheWay(p + 1, w + 1)'
      BY <1>u, <1>y, <2>2, <3>1, <3>3, <3>5, WayGrows DEF IInv
    <3>7. Stage(p + 1, w + 1)' /\ p + 1 \in Nat /\ w + 1 \in Nat
      BY <3>2, <3>4
    <3> QED
      BY <2>2, <3>6, <3>7 DEF StreamInv
  <2> QED
    BY <1>y, <2>1, <2>2
<1>5. OutInv'
  BY <1>t, <1>y, <1>u DEF IInv, OutInv
<1>6. ResultInv'
  BY <1>u DEF IInv, ResultInv, WholeOrCutShort, Returned, ServerOpen
<1> QED
  BY <1>1, <1>2, <1>3, <1>4, <1>5, <1>6 DEF IInv

LEMMA SucceedInv ==
  ASSUME IInv, Succeed
  PROVE  IInv'
<1> USE DEF Succeed, clientVars
<1>t. /\ MaxChunks \in Nat /\ req \in 0..MaxRequests /\ D \in Chunk /\ L \in Chunk /\ X \in Chunk
      /\ req > 0 => /\ req \in Requests /\ answer[req].ended \in BOOLEAN
                    /\ answer[req].chunks \in 0..MaxChunks + 1
                    /\ answer[req].status \in {"none", "ok", "error", "fatal"}
      /\ Len(out) \in Nat /\ Len(err) \in Nat /\ Len(toClient) \in Nat
  BY Types DEF IInv
<1>1. TypeOK'
  BY <1>t DEF IInv, TypeOK
<1>2. InboxInv'
  BY <1>t DEF IInv, InboxInv, Listening, Answering, ServerOpen, D, L, X, Quit, Fresh
<1>3. ServerInv'
  BY <1>t DEF IInv, TypeOK, ServerInv, InboxInv, Listening, Answering, ServerOpen
<1>4. StreamInv'
  <2>1. req > 0 /\ cur = req /\ answer[req].status = "none" /\ ~answer[req].ended
    BY DEF IInv, InboxInv, Answering, ServerInv, ServerOpen
  <2>2. answer'[req].status = "ok" /\ answer'[req].chunks = answer[req].chunks /\ ~answer'[req].ended
    BY <1>t, <2>1 DEF IInv, TypeOK
  <2>3. ASSUME NEW p \in Nat, NEW w \in Nat, Stage(p, w), OnTheWay(p, w) PROVE Stage(p, w)' /\ OnTheWay(p, w)'
    <3>1. w = p /\ ~isError
      BY <2>1, <2>3 DEF Stage, OnTheWay
    <3>2. Stage(p, w)'
      BY <2>1, <2>2, <2>3, <3>1 DEF Stage
    <3>3. \A k \in Nat : k <= w => Message(p, k)' = Message(p, k)
      BY <3>1 DEF Message
    <3>4. Consumed \in Nat /\ Consumed' = Consumed
      BY <1>t DEF Consumed, IInv, TypeOK
    <3>5. OnTheWay(p, w)'
      BY <2>2, <2>3, <3>1, <3>3, <3>4 DEF OnTheWay, ServerOpen
    <3> QED
      BY <3>2, <3>5
  <2> QED
    BY <2>3 DEF IInv, StreamInv
<1>5. OutInv'
  BY <1>t DEF IInv, OutInv
<1>6. ResultInv'
  BY <1>t DEF IInv, ResultInv, WholeOrCutShort, AnswerIsWhole, Returned, ServerOpen
<1> QED
  BY <1>1, <1>2, <1>3, <1>4, <1>5, <1>6 DEF IInv

LEMMA GoWrongInv ==
  ASSUME IInv, GoWrong
  PROVE  IInv'
<1> USE DEF GoWrong, clientVars
<1>t. /\ MaxChunks \in Nat /\ req \in 0..MaxRequests /\ D \in Chunk /\ L \in Chunk /\ X \in Chunk
      /\ req > 0 => /\ req \in Requests /\ answer[req].ended \in BOOLEAN
                    /\ answer[req].chunks \in 0..MaxChunks + 1
                    /\ answer[req].status \in {"none", "ok", "error", "fatal"}
      /\ Len(out) \in Nat /\ Len(err) \in Nat /\ Len(toClient) \in Nat
  BY Types DEF IInv
<1>1. TypeOK'
  BY <1>t DEF IInv, TypeOK
<1>2. InboxInv'
  BY <1>t DEF IInv, InboxInv, Listening, Answering, ServerOpen, D, L, X, Quit, Fresh
<1>3. ServerInv'
  BY <1>t DEF IInv, TypeOK, ServerInv, InboxInv, Listening, Answering, ServerOpen
<1>4. StreamInv'
  BY <1>t DEF IInv, StreamInv, Stage, OnTheWay, ServerOpen, Consumed, Message
<1>5. OutInv'
  BY <1>t DEF IInv, OutInv
<1>6. ResultInv'
  BY <1>t DEF IInv, ResultInv, WholeOrCutShort, AnswerIsWhole, Returned, ServerOpen
<1> QED
  BY <1>1, <1>2, <1>3, <1>4, <1>5, <1>6 DEF IInv

LEMMA TellInv ==
  ASSUME IInv, Tell
  PROVE  IInv'
<1> USE DEF Tell, Write, ClientOpen, clientVars
<1>t. /\ MaxChunks \in Nat /\ req \in 0..MaxRequests /\ D \in Chunk /\ L \in Chunk /\ X \in Chunk
      /\ req > 0 => /\ req \in Requests /\ answer[req].ended \in BOOLEAN
                    /\ answer[req].chunks \in 0..MaxChunks + 1
                    /\ answer[req].status \in {"none", "ok", "error", "fatal"}
      /\ Len(out) \in Nat /\ Len(err) \in Nat /\ Len(toClient) \in Nat
  BY Types DEF IInv
<1>u. ServerOpen /\ req > 0 /\ cur = req /\ ~answer[req].ended /\ Answering /\ cpc \in {"reading", "closed"}
  BY DEF IInv, ServerOpen, InboxInv, ServerInv, Answering
<1>y. toClient' \in Seq(Chunk) /\ (cpc = "closed" => toClient' = toClient) /\ (cpc = "reading" => toClient' = Append(toClient, X))
  BY <1>t, <1>u, AppendProperties DEF IInv, TypeOK, X, L
<1>1. TypeOK'
  BY <1>y DEF IInv, TypeOK
<1>2. InboxInv'
  BY <1>t, <1>u, <1>y DEF IInv, InboxInv, Listening, Answering, ServerOpen, D, L, X, Quit, Fresh
<1>3. ServerInv'
  BY <1>t, <1>u, <1>y DEF IInv, ServerInv, ServerOpen
<1>4. StreamInv'
  <2>1. CASE cpc = "closed"
    BY <2>1 DEF StreamInv
  <2>2. CASE cpc = "reading"
    <3>1. PICK p, w \in Nat : Stage(p, w) /\ OnTheWay(p, w)
      BY <2>2 DEF IInv, StreamInv
    <3>2. w = p /\ answer[req].status \in {"error", "fatal"}
      BY <3>1 DEF IInv, Stage, ServerInv
    <3>3. Stage(p, w + 1)' /\ w + 1 \in Nat
      BY <1>t, <1>u, <3>1, <3>2 DEF Stage
    <3>4. /\ \A k \in 1..w : Message(p, k)' = Message(p, k)
          /\ Message(p, w + 1)' = X
      BY <3>2 DEF Message, X
    <3>5. OnTheWay(p, w + 1)'
      BY <1>t, <1>u, <1>y, <2>2, <3>1, <3>4, WayGrows DEF IInv
    <3> QED
      BY <2>2, <3>3, <3>5 DEF StreamInv
  <2> QED
    BY <1>u, <2>1, <2>2
<1>5. OutInv'
  BY <1>t, <1>u, <1>y DEF IInv, OutInv
<1>6. ResultInv'
  BY <1>t, <1>u, <1>y DEF IInv, ResultInv, WholeOrCutShort, AnswerIsWhole, Returned, ServerOpen
<1> QED
  BY <1>1, <1>2, <1>3, <1>4, <1>5, <1>6 DEF IInv

LEMMA TellFailsInv ==
  ASSUME IInv, TellFails
  PROVE  IInv'
<1> USE DEF TellFails, clientVars, ClientOpen
<1>t. /\ MaxChunks \in Nat /\ req \in 0..MaxRequests /\ D \in Chunk /\ L \in Chunk /\ X \in Chunk
      /\ req > 0 => /\ req \in Requests /\ answer[req].ended \in BOOLEAN
                    /\ answer[req].chunks \in 0..MaxChunks + 1
                    /\ answer[req].status \in {"none", "ok", "error", "fatal"}
      /\ Len(out) \in Nat /\ Len(err) \in Nat /\ Len(toClient) \in Nat
  BY Types DEF IInv
<1>1. TypeOK'
  BY <1>t DEF IInv, TypeOK
<1>2. InboxInv'
  BY <1>t DEF IInv, InboxInv, Listening, Answering, ServerOpen
<1>3. ServerInv'
  BY <1>t DEF IInv, ServerInv, ServerOpen
<1>4. StreamInv'
  BY <1>t DEF IInv, StreamInv, Stage, OnTheWay, ServerOpen, Consumed, Message
<1>5. OutInv'
  BY <1>t DEF IInv, OutInv
<1>6. ResultInv'
  BY <1>t DEF IInv, ResultInv, WholeOrCutShort, AnswerIsWhole, Returned, ServerOpen
<1> QED
  BY <1>1, <1>2, <1>3, <1>4, <1>5, <1>6 DEF IInv

LEMMA ExplainInv ==
  ASSUME IInv, Explain
  PROVE  IInv'
<1> USE DEF Explain, clientVars
<1>t. /\ MaxChunks \in Nat /\ req \in 0..MaxRequests /\ D \in Chunk /\ L \in Chunk /\ X \in Chunk
      /\ req > 0 => /\ req \in Requests /\ answer[req].ended \in BOOLEAN
                    /\ answer[req].chunks \in 0..MaxChunks + 1
                    /\ answer[req].status \in {"none", "ok", "error", "fatal"}
      /\ Len(out) \in Nat /\ Len(err) \in Nat /\ Len(toClient) \in Nat
  BY Types DEF IInv
<1>1. TypeOK'
  BY <1>t DEF IInv, TypeOK, Loads, Chunk, DataChunk, Plain, InboxInv, ServerInv, ServerOpen, Requests
<1>2. InboxInv'
  BY <1>t DEF IInv, InboxInv, Listening, Answering, ServerOpen, D, L, X, Quit, Fresh
<1>3. ServerInv'
  BY <1>t DEF IInv, ServerInv, ServerOpen
<1>4. StreamInv'
  BY <1>t
    DEF IInv, TypeOK, StreamInv, Stage, OnTheWay, ServerOpen, Consumed, Message, InboxInv, ServerInv, Fresh
<1>5. OutInv'
  BY <1>t DEF IInv, OutInv
<1>6. ResultInv'
  BY <1>t DEF IInv, ResultInv, WholeOrCutShort, AnswerIsWhole, Returned, ServerOpen
<1> QED
  BY <1>1, <1>2, <1>3, <1>4, <1>5, <1>6 DEF IInv

LEMMA WriteLastInv ==
  ASSUME IInv, WriteLast
  PROVE  IInv'
<1> USE DEF WriteLast, Write, ClientOpen, clientVars
<1>t. /\ MaxChunks \in Nat /\ req \in 0..MaxRequests /\ D \in Chunk /\ L \in Chunk /\ X \in Chunk
      /\ req > 0 => /\ req \in Requests /\ answer[req].ended \in BOOLEAN
                    /\ answer[req].chunks \in 0..MaxChunks + 1
                    /\ answer[req].status \in {"none", "ok", "error", "fatal"}
      /\ Len(out) \in Nat /\ Len(err) \in Nat /\ Len(toClient) \in Nat
  BY Types DEF IInv
<1>u. ServerOpen /\ req > 0 /\ cur = req /\ ~answer[req].ended /\ Answering /\ cpc \in {"reading", "closed"}
  BY DEF IInv, ServerOpen, InboxInv, ServerInv, Answering
<1>y. toClient' \in Seq(Chunk) /\ (cpc = "closed" => toClient' = toClient) /\ (cpc = "reading" => toClient' = Append(toClient, L))
  BY <1>t, <1>u, AppendProperties DEF IInv, TypeOK, X, L
<1>z. /\ answer' \in [Requests -> [chunks : 0..MaxChunks + 1, ended : BOOLEAN,
                                  status : {"none", "ok", "error", "fatal"}]]
      /\ answer'[req].chunks = answer[req].chunks /\ answer'[req].status = answer[req].status
      /\ answer'[req].ended = TRUE /\ \A r \in Requests \ {req} : answer'[r] = answer[r]
  <2>1. answer' = [answer EXCEPT ![req] = [answer[req] EXCEPT !.ended = TRUE]]
    BY <1>u
  <2> QED
    BY <1>t, <1>u, <2>1 DEF IInv, TypeOK
<1>1. TypeOK'
  BY <1>y, <1>z DEF IInv, TypeOK
<1>2. InboxInv'
  <2>1. spc' = "reading" => Listening'
    BY <1>u, <1>z DEF Listening, Answering, Quit, L, X
  <2>2. \A r \in Requests : r > req' => answer'[r] = Fresh
    BY <1>t, <1>u, <1>z DEF IInv, InboxInv
  <2> QED
    BY <1>t, <1>u, <2>1, <2>2 DEF InboxInv, ServerOpen
<1>3. ServerInv'
  BY <1>t, <1>u, <1>y, <1>z DEF IInv, ServerInv, ServerOpen
<1>4. StreamInv'
  <2>1. CASE cpc = "closed"
    BY <2>1 DEF StreamInv
  <2>2. CASE cpc = "reading"
    <3>1. PICK p, w \in Nat : Stage(p, w) /\ OnTheWay(p, w)
      BY <2>2 DEF IInv, StreamInv
    <3>2. (answer[req].status = "ok" /\ w = p) \/ (answer[req].status \in {"error", "fatal"} /\ w = p + 2)
      BY <1>t, <1>u, <3>1 DEF IInv, Stage, ServerInv
    <3>3. Stage(p, w + 1)' /\ w + 1 \in Nat
      BY <1>t, <1>u, <1>z, <3>1, <3>2 DEF Stage
    <3>4. /\ \A k \in 1..w : Message(p, k)' = Message(p, k)
          /\ Message(p, w + 1)' = L
      BY <1>z, <3>2 DEF Message, L
    <3>5. OnTheWay(p, w + 1)'
      BY <1>t, <1>u, <1>y, <1>z, <2>2, <3>1, <3>4, WayGrows DEF IInv
    <3> QED
      BY <2>2, <3>3, <3>5 DEF StreamInv
  <2> QED
    BY <1>u, <2>1, <2>2
<1>5. OutInv'
  BY <1>t, <1>u, <1>y, <1>z DEF IInv, OutInv
<1>6. ResultInv'
  BY <1>t, <1>u, <1>y, <1>z DEF IInv, ResultInv, WholeOrCutShort, AnswerIsWhole, Returned, ServerOpen
<1> QED
  BY <1>1, <1>2, <1>3, <1>4, <1>5, <1>6 DEF IInv

LEMMA DieInv ==
  ASSUME IInv, Die
  PROVE  IInv'
<1> USE DEF Die, Write, ClientOpen, ServerOpen, clientVars
<1>t. /\ MaxChunks \in Nat /\ req \in 0..MaxRequests /\ D \in Chunk /\ L \in Chunk /\ X \in Chunk
      /\ req > 0 => /\ req \in Requests /\ answer[req].ended \in BOOLEAN
                    /\ answer[req].chunks \in 0..MaxChunks + 1
                    /\ answer[req].status \in {"none", "ok", "error", "fatal"}
      /\ Len(out) \in Nat /\ Len(err) \in Nat /\ Len(toClient) \in Nat
  BY Types DEF IInv
<1>a. \/ toClient' = toClient
      \/ /\ cpc = "reading" /\ spc \in {"working", "flushing", "finishing", "telling"}
         /\ \E e \in Chunk : e.cut /\ e.type # "last" /\ toClient' = Append(toClient, e)
  <2>1. CASE spc \in {"working", "flushing", "finishing", "telling"}
    <3>1. cur = req /\ req > 0 /\ cpc \in {"reading", "closed"}
      BY <2>1 DEF IInv, InboxInv, Answering
    <3>2. Plain("x", cur) \in Chunk
      BY <1>t, <3>1 DEF X
    <3>3. spc \in {"working", "flushing", "finishing"} /\ buf # {} =>
            DataChunk(cur, answer[cur].chunks + 1, buf) \in Chunk
      <4>1. spc \in {"working", "flushing", "finishing"} /\ buf # {} => answer[cur].chunks + 1 \in 0..MaxChunks + 1
        BY <1>t, <3>1 DEF IInv, ServerInv
      <4> QED
        BY <1>t, <3>1, <4>1 DEF IInv, TypeOK, Chunk, DataChunk
    <3>4. DataChunk(cur, answer[cur].chunks + 1, buf).type = "d" /\ Plain("x", cur).type = "x"
      BY DEF DataChunk, Plain
    <3> QED
      BY <3>1, <3>2, <3>3, <3>4, CutChunk
  <2>2. CASE spc \notin {"working", "flushing", "finishing", "telling"}
    BY <2>2
  <2> QED
    BY <2>1, <2>2
<1>b. toClient' \in Seq(Chunk)
  <2>1. toClient \in Seq(Chunk)
    BY DEF IInv, TypeOK
  <2>2. ASSUME NEW e \in Chunk PROVE Append(toClient, e) \in Seq(Chunk)
    BY <2>1, AppendProperties
  <2> QED
    BY <1>a, <2>1, <2>2
<1>1. TypeOK'
  BY <1>b DEF IInv, TypeOK
<1>2. InboxInv'
  BY <1>t, <1>a, <1>b DEF IInv, InboxInv, Listening, Answering, ServerOpen
<1>3. ServerInv'
  BY <1>t, <1>a, <1>b DEF IInv, ServerInv, ServerOpen
<1>4. StreamInv'
  <2>1. ASSUME NEW p \in Nat, NEW w \in Nat, Stage(p, w) PROVE Stage(p, w)'
    BY <2>1 DEF Stage
  <2>2. ASSUME NEW p \in Nat, NEW w \in Nat, OnTheWay(p, w), toClient' = toClient PROVE OnTheWay(p, w)'
    BY <2>2 DEF OnTheWay, Consumed, Message
  <2>3. CASE toClient' = toClient
    BY <2>1, <2>2, <2>3 DEF IInv, StreamInv
  <2>4. ASSUME cpc = "reading", spc \in {"working", "flushing", "finishing", "telling"},
               NEW e \in Chunk, e.cut, e.type # "last", toClient' = Append(toClient, e)
        PROVE  StreamInv'
    <3>1. PICK p, w \in Nat : Stage(p, w) /\ OnTheWay(p, w)
      BY <2>4 DEF IInv, StreamInv
    <3>2. /\ toClient' # <<>> /\ Len(toClient') = Len(toClient) + 1 /\ toClient'[Len(toClient) + 1] = e
          /\ \A i \in 1..Len(toClient) : toClient'[i] = toClient[i]
      BY <2>4, AppendProperties DEF IInv, TypeOK
    <3>3. Consumed \in Nat /\ Consumed' = Consumed /\ Consumed + Len(toClient) = w /\ ~answer[req].ended
      BY <1>t, <2>4, <3>1 DEF OnTheWay, Consumed, IInv, TypeOK, ServerInv
    <3>4. \A i \in 1..Len(toClient') : Consumed' + i <= w => i \in 1..Len(toClient)
      BY <1>t, <3>2, <3>3
    <3>5. \A i \in 1..Len(toClient') : Consumed' + i <= w => toClient'[i] = Message(p, Consumed + i)'
      BY <3>1, <3>2, <3>3, <3>4 DEF OnTheWay, Message
    <3>6. OnTheWay(p, w)'
      <4>1. (IF isError THEN Len(out) = p /\ Len(err) \in {0, 1} /\ answer[req].status \in {"error", "fatal"}
                        ELSE Len(out) <= p /\ err = <<>>)'
        BY <3>1 DEF OnTheWay
      <4>2. /\ Consumed' + Len(toClient') = w + 1 /\ ~ServerOpen' /\ ~answer'[req].ended
            /\ toClient'[Len(toClient')].cut /\ toClient'[Len(toClient')].type # "last"
        BY <1>t, <2>4, <3>2, <3>3
      <4> QED
        BY <3>2, <3>5, <4>1, <4>2 DEF OnTheWay
    <3> QED
      BY <2>1, <2>4, <3>1, <3>6 DEF StreamInv
  <2> QED
    BY <1>a, <2>3, <2>4
<1>5. OutInv'
  BY <1>t, <1>a, <1>b DEF IInv, OutInv
<1>6. ResultInv'
  BY <1>t, <1>a, <1>b DEF IInv, ResultInv, WholeOrCutShort, AnswerIsWhole, Returned, ServerOpen
<1> QED
  BY <1>1, <1>2, <1>3, <1>4, <1>5, <1>6 DEF IInv

LEMMA FlushSyncInv ==
  ASSUME IInv, spc = "flushing", spc' = "telling", Sync,
         UNCHANGED <<toServer, exiting, cur, clientVars>>
  PROVE  IInv'
<1> USE DEF clientVars
<1>t. /\ MaxChunks \in Nat /\ req \in 0..MaxRequests /\ D \in Chunk /\ L \in Chunk /\ X \in Chunk
      /\ req > 0 => /\ req \in Requests /\ answer[req].ended \in BOOLEAN
                    /\ answer[req].chunks \in 0..MaxChunks + 1
                    /\ answer[req].status \in {"none", "ok", "error", "fatal"}
      /\ Len(out) \in Nat /\ Len(err) \in Nat /\ Len(toClient) \in Nat
  BY Types DEF IInv
<1>y. /\ req \in Requests /\ cur = req /\ cpc \in {"reading", "closed"} /\ answer[req].chunks \in 0..MaxChunks
      /\ answer' \in [Requests -> [chunks : 0..MaxChunks + 1, ended : BOOLEAN,
                                  status : {"none", "ok", "error", "fatal"}]]
      /\ answer'[req].chunks = answer[req].chunks + 1 /\ answer'[req].status = answer[req].status
      /\ answer'[req].ended = answer[req].ended /\ \A r \in Requests \ {req} : answer'[r] = answer[r]
      /\ buf' = {} /\ DataChunk(req, answer[req].chunks + 1, buf) \in Chunk
      /\ toClient' \in Seq(Chunk)
      /\ cpc = "closed" => toClient' = toClient
      /\ cpc = "reading" =>
           toServer = <<>> /\ toClient' = Append(toClient, DataChunk(req, answer[req].chunks + 1, buf))
  BY SyncFacts
<1>u. ServerOpen /\ req > 0 /\ ~answer[req].ended /\ Answering
  BY DEF IInv, ServerOpen, InboxInv, ServerInv, Answering
<1>1. TypeOK'
  BY <1>y DEF IInv, TypeOK, Loads
<1>2. InboxInv'
  <2>1. Answering'
    BY <1>u DEF Answering, Quit, L, X
  <2>2. \A r \in Requests : r > req' => answer'[r] = Fresh
    BY <1>t, <1>y DEF IInv, InboxInv
  <2> QED
    BY <1>t, <1>u, <1>y, <2>1, <2>2 DEF InboxInv, ServerOpen
<1>3. ServerInv'
  BY <1>t, <1>u, <1>y DEF IInv, ServerInv, Sync
<1>4. StreamInv'
  <2>1. CASE cpc = "closed"
    BY <2>1 DEF StreamInv
  <2>2. CASE cpc = "reading"
    <3>1. PICK p, w \in Nat : Stage(p, w) /\ OnTheWay(p, w)
      BY <2>2 DEF IInv, StreamInv
    <3>2. w = p /\ answer[req].chunks = p /\ buf = {"response"} /\ answer[req].status # "ok"
      BY <1>t, <1>u, <3>1 DEF IInv, Stage, ServerInv, Sync
    <3>3. ~isError
      BY <1>t, <1>u, <3>1, <3>2 DEF OnTheWay, Consumed
    <3>4. Stage(p + 1, p + 1)'
      BY <1>t, <1>u, <1>y, <3>1, <3>2 DEF Stage
    <3>5. /\ \A k \in 1..w : Message(p + 1, k)' = Message(p, k)
          /\ Message(p + 1, w + 1)' = DataChunk(req, answer[req].chunks + 1, buf)
      BY <3>2 DEF Message
    <3>6. OnTheWay(p + 1, w + 1)'
      BY <1>u, <1>y, <2>2, <3>1, <3>3, <3>5, WayGrows DEF IInv
    <3>7. Stage(p + 1, w + 1)' /\ p + 1 \in Nat /\ w + 1 \in Nat
      BY <3>2, <3>4
    <3> QED
      BY <2>2, <3>6, <3>7 DEF StreamInv
  <2> QED
    BY <1>y, <2>1, <2>2
<1>5. OutInv'
  BY <1>t, <1>y, <1>u DEF IInv, OutInv
<1>6. ResultInv'
  BY <1>u DEF IInv, ResultInv, WholeOrCutShort, Returned, ServerOpen
<1> QED
  BY <1>1, <1>2, <1>3, <1>4, <1>5, <1>6 DEF IInv

LEMMA FinishSyncInv ==
  ASSUME IInv, spc = "finishing", spc' = "last", Sync,
         UNCHANGED <<toServer, exiting, cur, clientVars>>
  PROVE  IInv'
<1> USE DEF clientVars
<1>t. /\ MaxChunks \in Nat /\ req \in 0..MaxRequests /\ D \in Chunk /\ L \in Chunk /\ X \in Chunk
      /\ req > 0 => /\ req \in Requests /\ answer[req].ended \in BOOLEAN
                    /\ answer[req].chunks \in 0..MaxChunks + 1
                    /\ answer[req].status \in {"none", "ok", "error", "fatal"}
      /\ Len(out) \in Nat /\ Len(err) \in Nat /\ Len(toClient) \in Nat
  BY Types DEF IInv
<1>y. /\ req \in Requests /\ cur = req /\ cpc \in {"reading", "closed"} /\ answer[req].chunks \in 0..MaxChunks
      /\ answer' \in [Requests -> [chunks : 0..MaxChunks + 1, ended : BOOLEAN,
                                  status : {"none", "ok", "error", "fatal"}]]
      /\ answer'[req].chunks = answer[req].chunks + 1 /\ answer'[req].status = answer[req].status
      /\ answer'[req].ended = answer[req].ended /\ \A r \in Requests \ {req} : answer'[r] = answer[r]
      /\ buf' = {} /\ DataChunk(req, answer[req].chunks + 1, buf) \in Chunk
      /\ toClient' \in Seq(Chunk)
      /\ cpc = "closed" => toClient' = toClient
      /\ cpc = "reading" =>
           toServer = <<>> /\ toClient' = Append(toClient, DataChunk(req, answer[req].chunks + 1, buf))
  BY SyncFacts
<1>u. ServerOpen /\ req > 0 /\ ~answer[req].ended /\ Answering
  BY DEF IInv, ServerOpen, InboxInv, ServerInv, Answering
<1>1. TypeOK'
  BY <1>y DEF IInv, TypeOK, Loads
<1>2. InboxInv'
  <2>1. Answering'
    BY <1>u DEF Answering, Quit, L, X
  <2>2. \A r \in Requests : r > req' => answer'[r] = Fresh
    BY <1>t, <1>y DEF IInv, InboxInv
  <2> QED
    BY <1>t, <1>u, <1>y, <2>1, <2>2 DEF InboxInv, ServerOpen
<1>3. ServerInv'
  BY <1>t, <1>u, <1>y DEF IInv, ServerInv, Sync
<1>4. StreamInv'
  <2>1. CASE cpc = "closed"
    BY <2>1 DEF StreamInv
  <2>2. CASE cpc = "reading"
    <3>1. PICK p, w \in Nat : Stage(p, w) /\ OnTheWay(p, w)
      BY <2>2 DEF IInv, StreamInv
    <3>2. CASE answer[req].status = "ok"
      <4>1. w = p /\ answer[req].chunks = p /\ buf = {"response"}
        BY <1>t, <1>u, <3>1, <3>2 DEF IInv, Stage, ServerInv, Sync
      <4>2. ~isError
        BY <1>t, <1>u, <3>1, <3>2 DEF OnTheWay
      <4>3. Stage(p + 1, w + 1)' /\ p + 1 \in Nat /\ w + 1 \in Nat
        BY <1>t, <1>u, <1>y, <3>1, <3>2, <4>1 DEF Stage
      <4>4. /\ \A k \in 1..w : Message(p + 1, k)' = Message(p, k)
            /\ Message(p + 1, w + 1)' = DataChunk(req, answer[req].chunks + 1, buf)
        BY <4>1 DEF Message
      <4>5. OnTheWay(p + 1, w + 1)'
        BY <1>u, <1>y, <2>2, <3>1, <4>2, <4>4, WayGrows DEF IInv
      <4> QED
        BY <2>2, <4>3, <4>5 DEF StreamInv
    <3>3. CASE answer[req].status # "ok"
      <4>1. /\ w = p + 1 /\ answer[req].chunks = p /\ buf = {"error"}
            /\ answer[req].status \in {"error", "fatal"}
        BY <1>t, <1>u, <3>1, <3>3 DEF IInv, Stage, ServerInv, Sync
      <4>2. Stage(p, w + 1)' /\ w + 1 \in Nat
        BY <1>t, <1>u, <1>y, <3>1, <3>3, <4>1 DEF Stage
      <4>3. /\ \A k \in 1..w : Message(p, k)' = Message(p, k)
            /\ Message(p, w + 1)' = DataChunk(req, answer[req].chunks + 1, buf)
        BY <1>y, <4>1 DEF Message
      <4>4. OnTheWay(p, w + 1)'
        BY <1>u, <1>y, <2>2, <3>1, <4>3, WayGrows DEF IInv
      <4> QED
        BY <2>2, <4>2, <4>4 DEF StreamInv
    <3> QED
      BY <3>2, <3>3
  <2> QED
    BY <1>y, <2>1, <2>2
<1>5. OutInv'
  BY <1>t, <1>y, <1>u DEF IInv, OutInv
<1>6. ResultInv'
  BY <1>u DEF IInv, ResultInv, WholeOrCutShort, Returned, ServerOpen
<1> QED
  BY <1>1, <1>2, <1>3, <1>4, <1>5, <1>6 DEF IInv

LEMMA FlushNothingInv ==
  ASSUME IInv, spc = "flushing", spc' = "telling", buf = {}, UNCHANGED <<toClient, buf, answer>>,
         UNCHANGED <<toServer, exiting, cur, clientVars>>
  PROVE  IInv'
<1> USE DEF clientVars
<1>t. /\ MaxChunks \in Nat /\ req \in 0..MaxRequests /\ D \in Chunk /\ L \in Chunk /\ X \in Chunk
      /\ req > 0 => /\ req \in Requests /\ answer[req].ended \in BOOLEAN
                    /\ answer[req].chunks \in 0..MaxChunks + 1
                    /\ answer[req].status \in {"none", "ok", "error", "fatal"}
      /\ Len(out) \in Nat /\ Len(err) \in Nat /\ Len(toClient) \in Nat
  BY Types DEF IInv
<1>u. ServerOpen /\ req > 0 /\ ~answer[req].ended /\ Answering
  BY DEF IInv, ServerOpen, InboxInv, ServerInv, Answering
<1>1. TypeOK'
  BY <1>t, <1>u DEF IInv, TypeOK
<1>2. InboxInv'
  <2>1. Answering'
    BY <1>u DEF Answering, Quit, L, X
  <2> QED
    BY <1>u, <2>1 DEF IInv, InboxInv, ServerOpen, Answering
<1>3. ServerInv'
  BY <1>t, <1>u DEF IInv, ServerInv, ServerOpen
<1>4. StreamInv'
  <2>1. ASSUME NEW p \in Nat, NEW w \in Nat, Stage(p, w) PROVE Stage(p, w)'
    BY <1>t, <1>u, <2>1 DEF IInv, ServerInv, Stage
  <2>2. ASSUME NEW p \in Nat, NEW w \in Nat, OnTheWay(p, w) PROVE OnTheWay(p, w)'
    BY <1>u, <2>2 DEF OnTheWay, Consumed, Message, ServerOpen
  <2> QED
    BY <2>1, <2>2 DEF IInv, StreamInv
<1>5. OutInv'
  BY <1>t, <1>u DEF IInv, OutInv
<1>6. ResultInv'
  BY <1>t, <1>u DEF IInv, ResultInv, WholeOrCutShort, AnswerIsWhole, Returned, ServerOpen
<1> QED
  BY <1>1, <1>2, <1>3, <1>4, <1>5, <1>6 DEF IInv

LEMMA FinishNothingInv ==
  ASSUME IInv, spc = "finishing", spc' = "last", buf = {}, UNCHANGED <<toClient, buf, answer>>,
         UNCHANGED <<toServer, exiting, cur, clientVars>>
  PROVE  IInv'
<1> USE DEF clientVars
<1>t. /\ MaxChunks \in Nat /\ req \in 0..MaxRequests /\ D \in Chunk /\ L \in Chunk /\ X \in Chunk
      /\ req > 0 => /\ req \in Requests /\ answer[req].ended \in BOOLEAN
                    /\ answer[req].chunks \in 0..MaxChunks + 1
                    /\ answer[req].status \in {"none", "ok", "error", "fatal"}
      /\ Len(out) \in Nat /\ Len(err) \in Nat /\ Len(toClient) \in Nat
  BY Types DEF IInv
<1>u. ServerOpen /\ req > 0 /\ ~answer[req].ended /\ Answering
  BY DEF IInv, ServerOpen, InboxInv, ServerInv, Answering
<1>1. TypeOK'
  BY <1>t, <1>u DEF IInv, TypeOK
<1>2. InboxInv'
  <2>1. Answering'
    BY <1>u DEF Answering, Quit, L, X
  <2> QED
    BY <1>u, <2>1 DEF IInv, InboxInv, ServerOpen, Answering
<1>3. ServerInv'
  BY <1>t, <1>u DEF IInv, ServerInv, ServerOpen
<1>4. StreamInv'
  <2>1. ASSUME NEW p \in Nat, NEW w \in Nat, Stage(p, w) PROVE Stage(p, w)'
    BY <1>t, <1>u, <2>1 DEF IInv, ServerInv, Stage
  <2>2. ASSUME NEW p \in Nat, NEW w \in Nat, OnTheWay(p, w) PROVE OnTheWay(p, w)'
    BY <1>u, <2>2 DEF OnTheWay, Consumed, Message, ServerOpen
  <2> QED
    BY <2>1, <2>2 DEF IInv, StreamInv
<1>5. OutInv'
  BY <1>t, <1>u DEF IInv, OutInv
<1>6. ResultInv'
  BY <1>t, <1>u DEF IInv, ResultInv, WholeOrCutShort, AnswerIsWhole, Returned, ServerOpen
<1> QED
  BY <1>1, <1>2, <1>3, <1>4, <1>5, <1>6 DEF IInv

LEMMA FlushInv == ASSUME IInv, Flush PROVE IInv'
  BY FlushSyncInv, FlushNothingInv DEF Flush

LEMMA FinishInv == ASSUME IInv, Finish PROVE IInv'
  BY FinishSyncInv, FinishNothingInv DEF Finish

LEMMA NextInv == IInv /\ [Next]_vars => IInv'
<1> SUFFICES ASSUME IInv, [Next]_vars PROVE IInv'
  OBVIOUS
<1>1. CASE ClientStep
  BY <1>1, SendLastInv, SendFailsInv, ReadDataInv, ReadExtensionInv, ReadLastInv, ReadEndInv, ReadCutInv,
     WriteFailsInv, TimesOutInv, ResetInv DEF ClientStep, Read
<1>2. CASE Serve
  BY <1>2, ReceiveInv, ReceiveEndInv, PrintResponseInv, OverflowInv, SucceedInv, GoWrongInv, FlushInv, TellInv,
     TellFailsInv, ExplainInv, FinishInv, WriteLastInv DEF Serve
<1>3. CASE SendRequest \/ Shutdown \/ ClientDies \/ Die
  BY <1>3, SendRequestInv, ShutdownInv, ClientDiesInv, DieInv
<1>4. CASE UNCHANGED vars
  <2>1. TypeOK' /\ InboxInv' /\ ServerInv'
    BY <1>4 DEF IInv, TypeOK, InboxInv, Listening, Answering, ServerInv, ServerOpen, D, L, X, Quit,
                vars, clientVars, serverVars
  <2>2. StreamInv'
    <3>1. /\ UNCHANGED <<cpc, toClient>>
          /\ \A p, w \in Nat : Stage(p, w)' = Stage(p, w) /\ OnTheWay(p, w)' = OnTheWay(p, w)
      BY <1>4 DEF Stage, OnTheWay, Consumed, Message, ServerOpen, vars, clientVars, serverVars
    <3> QED
      BY <3>1 DEF IInv, StreamInv
  <2>3. OutInv'
    BY <1>4 DEF IInv, OutInv, vars, clientVars, serverVars
  <2>4. ResultInv'
    BY <1>4 DEF IInv, ResultInv, WholeOrCutShort, AnswerIsWhole, Returned, ServerOpen, L, X, Quit,
                vars, clientVars, serverVars
  <2> QED
    BY <2>1, <2>2, <2>3, <2>4 DEF IInv
<1> QED
  BY <1>1, <1>2, <1>3, <1>4 DEF Next

LEMMA SpecInv == Spec => []IInv
  BY InitInv, NextInv, PTL DEF Spec

-----------------------------------------------------------------------------
\* The types of both ends, and of what is on the way between them.
THEOREM TypeOKHolds == Spec => []TypeOK
<1>1. IInv => TypeOK
  BY DEF IInv
<1> QED
  BY SpecInv, <1>1, PTL

\* readChunkedMessage(), PPTStreamBuf: the caller gets chunks of the answer to
\* its own request only, in order, the error document apart from the data.
THEOREM OwnAnswerHolds == Spec => []OwnAnswer
<1>1. IInv => OwnAnswer
  <2> SUFFICES ASSUME IInv PROVE OwnAnswer
    OBVIOUS
  <2>1. out \in Seq(Chunk) /\ err \in Seq(Chunk) /\ Len(out) \in Nat /\ Len(err) \in Nat
    BY DEF IInv, TypeOK
  <2>2. /\ out \o err \in Seq(Chunk) /\ Len(out \o err) = Len(out) + Len(err)
        /\ \A i \in 1..Len(out) + Len(err) :
             (out \o err)[i] = IF i <= Len(out) THEN out[i] ELSE err[i - Len(out)]
    BY <2>1, ConcatProperties
  <2>3. ASSUME NEW i \in 1..Len(out) + Len(err) PROVE (out \o err)[i].of = req /\ (out \o err)[i].n = i
    <3>1. CASE i <= Len(out)
      <4>1. i \in 1..Len(out)
        BY <2>1, <3>1
      <4>2. out[i] = DataChunk(req, i, {"response"})
        BY <4>1 DEF IInv, OutInv
      <4> QED
        BY <2>2, <3>1, <4>2 DEF DataChunk
    <3>2. CASE ~(i <= Len(out))
      <4>1. i - Len(out) \in 1..Len(err) /\ Len(out) + (i - Len(out)) = i
        BY <2>1, <3>2
      <4>2. err[i - Len(out)] = DataChunk(req, i, {"error"})
        BY <4>1 DEF IInv, OutInv
      <4> QED
        BY <2>2, <3>2, <4>2 DEF DataChunk
    <3> QED
      BY <3>1, <3>2
  <2>4. /\ \A i \in 1..Len(out) : out[i].load = {"response"}
        /\ \A i \in 1..Len(err) : err[i].load = {"error"}
    <3>1. \A of, n, load : DataChunk(of, n, load).load = load
      BY DEF DataChunk
    <3> QED
      BY <3>1 DEF IInv, OutInv
  <2> QED
    BY <2>2, <2>3, <2>4 DEF OwnAnswer
<1> QED
  BY SpecInv, <1>1, PTL

\* besTransaction(): when it returns, the caller has the whole answer, unless
\* the child ended before it had written it.
THEOREM WholeOrCutShortHolds == Spec => []WholeOrCutShort
<1>1. IInv => WholeOrCutShort
  BY DEF IInv, ResultInv
<1> QED
  BY SpecInv, <1>1, PTL
=============================================================================
