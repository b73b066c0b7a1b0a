-------------------------- MODULE HttpClientProofs --------------------------
(***************************************************************************)
(* Proofs about the HTTP client, for buffers and responses of any length:  *)
(* the poll and the network agree (PollingMatchesNetwork), and a server    *)
(* package that no request touched is the response (PackageIsResponse).    *)
(***************************************************************************)
EXTENDS HttpClient, TLAPS

Flags ==
    /\ networkUp \in BOOLEAN /\ queued \in BOOLEAN
    /\ upTask \in BOOLEAN /\ downTask \in BOOLEAN /\ overlapped \in BOOLEAN

(* Under way, a notification has set the flag its own way; alone, it has   *)
(* only its own half to do.                                                *)
HalfWay ==
    ~overlapped =>
        /\ upTask => networkUp /\ ~downTask
        /\ downTask => ~networkUp

NodeInv == Flags /\ HalfWay /\ PollingMatchesNetwork

LEMMA StepNodeInv == NodeInv /\ [Next]_vars => NodeInv'
<1> SUFFICES ASSUME NodeInv, [Next]_vars PROVE NodeInv'
    OBVIOUS
<1> USE DEF NodeInv, Flags, HalfWay, PollingMatchesNetwork
<1>1. CASE NotifyUp
  BY <1>1 DEF NotifyUp
<1>2. CASE AddNode
  BY <1>2 DEF AddNode
<1>3. CASE NotifyDown
  BY <1>3 DEF NotifyDown
<1>4. CASE RemoveNode
  BY <1>4 DEF RemoveNode
<1>5. CASE Elapse
  BY <1>5 DEF Elapse
<1>6. CASE Main
  <2>1. UNCHANGED <<networkUp, queued, upTask, downTask, overlapped>>
    BY <1>6 DEF Main, Poll, Again, Receive, CopyByte, Terminate, EndRequest, nodeVars
  <2> QED
    BY <2>1
<1>7. CASE Listener
  BY <1>7 DEF Listener, Request, Scan, Copy, Send, nodeVars
<1>8. CASE UNCHANGED vars
  BY <1>8 DEF vars, nodeVars
<1> QED
  BY <1>1, <1>2, <1>3, <1>4, <1>5, <1>6, <1>7, <1>8 DEF Next

(* Whatever order the network comes and goes in, the client polls exactly  *)
(* while the network is up, except after notifications that overlapped.    *)
THEOREM PollsWhileUp == Spec => []PollingMatchesNetwork
<1>1. Init => NodeInv
  BY DEF Init, NodeInv, Flags, HalfWay, PollingMatchesNetwork
<1>2. NodeInv => PollingMatchesNetwork
  BY DEF NodeInv
<1> QED
  BY <1>1, <1>2, StepNodeInv, PTL DEF Spec

-----------------------------------------------------------------------------
(* The bytes of the response that fit. *)
Kept == IF Len(body) < BufLen THEN Len(body) ELSE BufLen - 1

Fits ==
    /\ main \in {"idle", "perform", "copy"} /\ asked \in BOOLEAN /\ crossed \in BOOLEAN
    /\ listener \in {"idle", "scan", "copy"}
    /\ buf \in [Positions -> Bytes \cup {NUL}] /\ body \in Seq(Bytes)
    /\ written \in Nat /\ chunk \in Seq(Bytes)
    /\ jsonLen \in 0 .. JsonLen - 1
    /\ json \in Seq(Bytes \cup {NUL}) /\ Len(json) <= jsonLen
    /\ main # "copy" => chunk = <<>>

(* Up to the byte being written the buffer is the response, and the rest   *)
(* of the chunk is what comes next; between two chunks it is terminated.   *)
Assembled ==
    asked =>
        /\ written + Len(chunk) = Kept
        /\ \A i \in 0 .. written - 1 : buf[i] = body[i + 1]
        /\ \A j \in 1 .. Len(chunk) : chunk[j] = body[written + j]
        /\ main # "copy" => buf[written] = NUL

AskedFirst == main # "idle" => asked

(* A copy that no request has crossed has seen the response only. *)
Followed ==
    listener # "idle" /\ asked /\ ~crossed =>
        /\ main = "idle"
        /\ jsonLen <= Kept
        /\ listener = "copy" => jsonLen = Kept \/ jsonLen = JsonLen - 1
        /\ \A i \in 1 .. Len(json) : json[i] = body[i]

CopyInv == Fits /\ Assembled /\ AskedFirst /\ Followed
LEMMA PollCopyInv == CopyInv /\ Poll => CopyInv'
<1> SUFFICES ASSUME CopyInv, Poll PROVE CopyInv'
    OBVIOUS
<1> USE HttpClientAssumption
<1>1. CASE ~networkUp
  <2>1. UNCHANGED <<bufVars, copyVars, crossed>>
    BY <1>1 DEF Poll
  <2> QED
    BY <2>1 DEF bufVars, copyVars, CopyInv, Fits, Assembled, AskedFirst, Followed, Kept
<1>2. CASE networkUp
  <2>1. /\ main = "idle" /\ main' = "perform" /\ Clear /\ written' = 0 /\ body' = <<>>
        /\ asked' /\ crossed' /\ UNCHANGED <<chunk, copyVars>>
    BY <1>2 DEF Poll
  <2>2. Fits'
    BY <2>1 DEF CopyInv, Fits, Clear, copyVars, Positions
  <2>3. Assembled'
    BY <2>1 DEF CopyInv, Fits, Clear, Assembled, Kept, Positions
  <2> QED
    BY <2>1, <2>2, <2>3 DEF CopyInv, AskedFirst, Followed
<1> QED
  BY <1>1, <1>2

LEMMA ReceiveCopyInv ==
    ASSUME NEW data \in Chunks PROVE CopyInv /\ Receive(data) => CopyInv'
<1> SUFFICES ASSUME CopyInv, Receive(data) PROVE CopyInv'
    OBVIOUS
<1> DEFINE space == BufLen - written - 1
<1>1. data \in Seq(Bytes)
  BY HttpClientAssumption
<1>2. /\ main = "perform" /\ main' = "copy" /\ body' = body \o data
      /\ chunk' = IF Len(data) < space THEN data ELSE SubSeq(data, 1, space)
      /\ UNCHANGED <<buf, written, asked, copyVars, crossed>>
  BY DEF Receive
<1>3. asked /\ written = Kept /\ chunk = <<>> /\ body \in Seq(Bytes)
      /\ \A i \in 0 .. written - 1 : buf[i] = body[i + 1]
  BY <1>2 DEF CopyInv, Fits, Assembled, AskedFirst
<1>4. space \in Nat /\ written \in Nat
  BY <1>3, HttpClientAssumption DEF Kept, CopyInv, Fits
<1>5. chunk' \in Seq(Bytes) /\ Len(chunk') = (IF Len(data) < space THEN Len(data) ELSE space)
      /\ \A j \in 1 .. Len(chunk') : chunk'[j] = data[j]
  BY <1>1, <1>2, <1>4
<1>6. body' \in Seq(Bytes) /\ Len(body') = Len(body) + Len(data)
      /\ (\A i \in 1 .. Len(body) : body'[i] = body[i])
      /\ \A j \in 1 .. Len(data) : body'[Len(body) + j] = data[j]
  BY <1>1, <1>2, <1>3
<1>7. Fits'
  BY <1>2, <1>5, <1>6 DEF CopyInv, Fits, copyVars
<1>8. Len(chunk') > 0 => written = Len(body)
  BY <1>3, <1>4, <1>5, HttpClientAssumption DEF Kept
<1>9. Assembled'
  <2>1. (written + Len(chunk) = Kept)'
    <3>1. written' = written /\ Len(chunk)' = Len(chunk') /\ Len(body)' = Len(body')
      BY <1>2
    <3>2. /\ Len(data) \in Nat /\ Len(body) \in Nat
          /\ Len(body') = Len(body) + Len(data)
      BY <1>1, <1>3, <1>6
    <3>3. BufLen \in Nat \ {0}
      BY HttpClientAssumption
    <3>4. CASE Len(body) < BufLen /\ Len(data) < space
      BY <1>3, <1>5, <3>1, <3>2, <3>3, <3>4 DEF Kept
    <3>5. CASE Len(body) < BufLen /\ ~(Len(data) < space)
      <4>1. written = Len(body) /\ Len(chunk') = space
        BY <1>3, <1>5, <3>5 DEF Kept
      <4>2. Len(body') >= BufLen - 1 /\ Len(body') \in Nat
        BY <3>2, <3>3, <3>5, <4>1
      <4>3. Kept' = BufLen - 1
        BY <3>1, <3>3, <4>2 DEF Kept
      <4> QED
        BY <3>1, <3>2, <3>3, <4>1, <4>3
    <3>6. CASE ~(Len(body) < BufLen)
      <4>1. written = BufLen - 1 /\ space = 0 /\ Len(chunk') = 0
        BY <1>3, <1>5, <3>2, <3>3, <3>6 DEF Kept
      <4>2. Kept' = BufLen - 1
        BY <3>1, <3>2, <3>3, <3>6 DEF Kept
      <4> QED
        BY <3>1, <3>3, <4>1, <4>2
    <3> QED
      BY <3>4, <3>5, <3>6
  <2>2. (\A i \in 0 .. written - 1 : buf[i] = body[i + 1])'
    BY <1>2, <1>3, <1>6, HttpClientAssumption DEF Kept
  <2>3. (\A j \in 1 .. Len(chunk) : chunk[j] = body[written + j])'
    BY <1>2, <1>5, <1>6, <1>8, <1>1
  <2> QED
    BY <1>2, <2>1, <2>2, <2>3 DEF Assembled
<1>10. AskedFirst'
  BY <1>2, <1>3 DEF AskedFirst
<1>11. Followed'
  BY <1>2, <1>3 DEF CopyInv, Followed, copyVars
<1> QED
  BY <1>7, <1>9, <1>10, <1>11 DEF CopyInv

LEMMA CopyByteCopyInv == CopyInv /\ CopyByte => CopyInv'
<1> SUFFICES ASSUME CopyInv, CopyByte PROVE CopyInv'
    OBVIOUS
<1>1. /\ main = "copy" /\ chunk # <<>> /\ buf' = [buf EXCEPT ![written] = Head(chunk)]
      /\ written' = written + 1 /\ chunk' = Tail(chunk)
      /\ UNCHANGED <<main, body, asked, copyVars, crossed>>
  BY DEF CopyByte
<1>2. asked /\ chunk \in Seq(Bytes) /\ written \in Nat /\ body \in Seq(Bytes)
      /\ written + Len(chunk) = Kept
      /\ (\A i \in 0 .. written - 1 : buf[i] = body[i + 1])
      /\ \A j \in 1 .. Len(chunk) : chunk[j] = body[written + j]
  BY <1>1 DEF CopyInv, Fits, Assembled, AskedFirst
<1>3. Len(chunk) > 0 /\ Head(chunk) = chunk[1] /\ Head(chunk) \in Bytes
      /\ Tail(chunk) \in Seq(Bytes) /\ Len(Tail(chunk)) = Len(chunk) - 1
      /\ \A j \in 1 .. Len(Tail(chunk)) : Tail(chunk)[j] = chunk[j + 1]
  BY <1>1, <1>2
<1>4. written \in Positions
  BY <1>2, <1>3, HttpClientAssumption DEF Kept, Positions
<1>5. Fits'
  BY <1>1, <1>2, <1>3, <1>4 DEF CopyInv, Fits, copyVars
<1>6. Assembled'
  <2>1. (written + Len(chunk) = Kept)'
    <3>1. Kept' = Kept /\ Kept \in Nat
      BY <1>1, <1>2, HttpClientAssumption DEF Kept
    <3>2. Len(chunk)' = Len(chunk) - 1 /\ written' = written + 1
      BY <1>1, <1>3
    <3> QED
      BY <1>2, <3>1, <3>2
  <2>2. (\A i \in 0 .. written - 1 : buf[i] = body[i + 1])'
    BY <1>1, <1>2, <1>3, <1>4 DEF CopyInv, Fits, Positions
  <2>3. (\A j \in 1 .. Len(chunk) : chunk[j] = body[written + j])'
    BY <1>1, <1>2, <1>3
  <2> QED
    BY <1>1, <2>1, <2>2, <2>3 DEF Assembled
<1>7. AskedFirst' /\ Followed'
  BY <1>1, <1>2 DEF CopyInv, AskedFirst, Followed, copyVars
<1> QED
  BY <1>5, <1>6, <1>7 DEF CopyInv

LEMMA TerminateCopyInv == CopyInv /\ Terminate => CopyInv'
<1> SUFFICES ASSUME CopyInv, Terminate PROVE CopyInv'
    OBVIOUS
<1>1. /\ main = "copy" /\ chunk = <<>> /\ buf' = [buf EXCEPT ![written] = NUL]
      /\ main' = "perform" /\ UNCHANGED <<written, chunk, body, asked, copyVars, crossed>>
  BY DEF Terminate
<1>2. asked /\ written = Kept /\ body \in Seq(Bytes) /\ written \in Nat
  BY <1>1 DEF CopyInv, Fits, Assembled, AskedFirst
<1>3. written \in Positions
  BY <1>2, HttpClientAssumption DEF Kept, Positions
<1>4. Fits'
  BY <1>1, <1>3 DEF CopyInv, Fits, copyVars
<1>5. Assembled'
  BY <1>1, <1>2, <1>3 DEF CopyInv, Fits, Assembled, Kept, Positions
<1>6. AskedFirst' /\ Followed'
  BY <1>1, <1>2 DEF CopyInv, AskedFirst, Followed, copyVars
<1> QED
  BY <1>4, <1>5, <1>6 DEF CopyInv

LEMMA ListenerCopyInv == CopyInv /\ Listener => CopyInv'
<1> SUFFICES ASSUME CopyInv, Listener PROVE CopyInv'
    OBVIOUS
<1> USE HttpClientAssumption
<1>1. UNCHANGED bufVars
  BY DEF Listener, Request, Scan, Copy, Send
<1>2. Assembled' /\ AskedFirst'
  BY <1>1 DEF bufVars, CopyInv, Assembled, AskedFirst, Kept
<1>3. Kept \in Nat /\ Kept < BufLen /\ Kept' = Kept /\ Kept <= Len(body)
  BY <1>1 DEF CopyInv, Fits, Kept, bufVars
<1>4. CASE Request
  <2>1. Fits'
    BY <1>4, <1>1 DEF Request, CopyInv, Fits, bufVars
  <2>2. Len(json') = 0 /\ jsonLen' = 0 /\ listener' = "scan"
        /\ (crossed' <=> main # "idle")
    BY <1>4 DEF Request
  <2>3. Followed'
    BY <1>1, <1>3, <2>2 DEF Followed, bufVars
  <2> QED
    BY <1>2, <2>1, <2>3 DEF CopyInv
<1>5. CASE Scan
  <2>1. Fits'
    BY <1>5, <1>1 DEF Scan, CopyInv, Fits, bufVars
  <2>2. CASE asked /\ ~crossed
    <3>1. /\ main = "idle" /\ jsonLen <= Kept /\ jsonLen \in Nat
          /\ \A i \in 1 .. Len(json) : json[i] = body[i]
      BY <1>5, <2>2 DEF Scan, CopyInv, Followed, Fits
    <3>2. /\ buf[Kept] = NUL
          /\ \A i \in 0 .. Kept - 1 : buf[i] = body[i + 1]
      BY <2>2, <3>1, <1>3 DEF CopyInv, Assembled, Fits
    <3>3. jsonLen < Kept => buf[jsonLen] # NUL
      BY <3>1, <3>2, <1>3 DEF CopyInv, Fits
    <3> QED
      BY <1>1, <1>2, <1>3, <1>5, <2>1, <2>2, <3>1, <3>2, <3>3 DEF Scan, CopyInv, Followed, bufVars, Fits
  <2>3. CASE ~(asked /\ ~crossed)
    <3>1. Followed'
      BY <1>1, <1>5, <2>3 DEF Scan, Followed, bufVars
    <3> QED
      BY <1>2, <2>1, <3>1 DEF CopyInv
  <2> QED
    BY <2>2, <2>3
<1>6. CASE Copy
  <2>1. Len(json) < jsonLen /\ jsonLen' = jsonLen /\ Len(json) \in Positions
        /\ json \in Seq(Bytes \cup {NUL}) /\ json' = Append(json, buf[Len(json)])
    BY <1>6 DEF Copy, CopyInv, Fits, Positions
  <2>2. buf[Len(json)] \in Bytes \cup {NUL}
    BY <2>1 DEF CopyInv, Fits
  <2>3. /\ json' \in Seq(Bytes \cup {NUL}) /\ Len(json') = Len(json) + 1
        /\ (\A i \in 1 .. Len(json) : json'[i] = json[i])
        /\ json'[Len(json) + 1] = buf[Len(json)]
    BY <2>1, <2>2
  <2>4. Fits'
    BY <1>1, <1>6, <2>1, <2>3 DEF Copy, CopyInv, Fits, bufVars
  <2>5. CASE asked /\ ~crossed
    <3>1. main = "idle" /\ Len(json) < Kept /\ \A i \in 1 .. Len(json) : json[i] = body[i]
      BY <1>3, <1>6, <2>1, <2>5 DEF Copy, CopyInv, Followed, Fits
    <3>2. buf[Len(json)] = body[Len(json) + 1]
      BY <1>3, <2>1, <2>5, <3>1 DEF CopyInv, Assembled, Fits
    <3>3. (\A i \in 1 .. Len(json) : json[i] = body[i])'
      BY <1>1, <2>1, <2>3, <3>1, <3>2 DEF bufVars
    <3>4. Followed'
      BY <1>1, <1>3, <1>6, <2>5, <3>1, <3>3 DEF Copy, CopyInv, Followed, bufVars
    <3> QED
      BY <1>2, <2>4, <3>4 DEF CopyInv
  <2>6. CASE ~(asked /\ ~crossed)
    <3>1. Followed'
      BY <1>1, <1>6, <2>6 DEF Copy, Followed, bufVars
    <3> QED
      BY <1>2, <2>4, <3>1 DEF CopyInv
  <2> QED
    BY <2>5, <2>6
<1>7. CASE Send
  BY <1>1, <1>2, <1>7 DEF Send, CopyInv, Fits, Followed, bufVars
<1> QED
  BY <1>4, <1>5, <1>6, <1>7 DEF Listener

LEMMA StepCopyInv == CopyInv /\ [Next]_vars => CopyInv'
<1> SUFFICES ASSUME CopyInv, [Next]_vars PROVE CopyInv'
    OBVIOUS
<1>1. CASE NotifyUp \/ AddNode \/ NotifyDown \/ RemoveNode \/ Elapse \/ UNCHANGED vars
  <2>1. UNCHANGED <<bufVars, copyVars, crossed>>
    BY <1>1 DEF NotifyUp, AddNode, NotifyDown, RemoveNode, Elapse, vars
  <2> QED
    BY <2>1 DEF bufVars, copyVars, CopyInv, Fits, Assembled, AskedFirst, Followed, Kept
<1>2. CASE EndRequest
  <2>1. main = "perform" /\ main' = "idle"
        /\ UNCHANGED <<buf, written, chunk, body, asked, copyVars, crossed>>
    BY <1>2 DEF EndRequest
  <2> QED
    BY <2>1 DEF copyVars, CopyInv, Fits, Assembled, AskedFirst, Followed, Kept
<1> QED
  BY <1>1, <1>2, PollCopyInv, ReceiveCopyInv, CopyByteCopyInv, TerminateCopyInv,
     ListenerCopyInv DEF Next, Main

(* A package that no request touched is the response, or as much of it as  *)
(* fits, for buffers, chunks and responses of any length.                  *)
THEOREM PackagesAreResponses == Spec => PackageIsResponse
<1> DEFINE Sound == listener = "copy" /\ listener' = "idle" /\ asked /\ ~crossed
                    => json = Response
<1>1. Init => CopyInv
  <2>1. Len(<<>>) = 0 /\ <<>> \in Seq(Bytes) /\ <<>> \in Seq(Bytes \cup {NUL})
    OBVIOUS
  <2>2. 0 \in 0 .. JsonLen - 1
    BY HttpClientAssumption
  <2>3. Init => jsonLen \in 0 .. JsonLen - 1 /\ Len(json) <= jsonLen
    BY <2>1, <2>2 DEF Init
  <2>4. Init => body \in Seq(Bytes) /\ chunk \in Seq(Bytes) /\ json \in Seq(Bytes \cup {NUL})
    BY <2>1 DEF Init
  <2>5. Init => asked \in BOOLEAN /\ crossed \in BOOLEAN
    BY DEF Init
  <2>6. Init => /\ main \in {"idle", "perform", "copy"} /\ listener \in {"idle", "scan", "copy"}
                /\ buf \in [Positions -> Bytes \cup {NUL}] /\ written \in Nat /\ chunk = <<>>
    BY DEF Init
  <2>7. Init => Fits
    BY <2>3, <2>4, <2>5, <2>6 DEF Fits
  <2> QED
    BY <2>7 DEF Init, CopyInv, Assembled, AskedFirst, Followed
<1>2. CopyInv /\ [Next]_vars => [Sound]_vars
  <2> SUFFICES ASSUME CopyInv, Next, listener = "copy", listener' = "idle", asked, ~crossed
               PROVE  json = Response
    OBVIOUS
  <2>1. Len(json) = jsonLen
    BY DEF Next, NotifyUp, AddNode, NotifyDown, RemoveNode, Elapse, Main, Poll, Receive,
           CopyByte, Terminate, EndRequest, Listener, Request, Scan, Copy, Send, copyVars
  <2>2. /\ jsonLen <= Kept /\ (jsonLen = Kept \/ jsonLen = JsonLen - 1)
        /\ \A i \in 1 .. Len(json) : json[i] = body[i]
    BY DEF CopyInv, Followed
  <2>3. jsonLen = IF Len(body) < JsonLen THEN Len(body) ELSE JsonLen - 1
    BY <2>2, HttpClientAssumption DEF Kept, CopyInv, Fits
  <2>4. /\ Len(Response) = jsonLen /\ Response \in Seq(Bytes)
        /\ \A i \in 1 .. jsonLen : Response[i] = body[i]
    BY <2>3, HttpClientAssumption DEF Response, CopyInv, Fits
  <2>5. json \in Seq(Bytes \cup {NUL})
    BY DEF CopyInv, Fits
  <2> QED
    BY <2>1, <2>2, <2>4, <2>5
<1> QED
  BY <1>1, <1>2, StepCopyInv, PTL DEF Spec, PackageIsResponse
=============================================================================
