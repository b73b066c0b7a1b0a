---------------------------- MODULE HttpClient ----------------------------
(***************************************************************************)
(* The HTTP client: the poll that the main task runs every ten seconds     *)
(* while the network is up, the response buffer it fills, the two          *)
(* notifications that start and stop it, and the serial listener, which    *)
(* copies the buffer into a server package.                                *)
(*                                                                         *)
(* Four tasks meet without a lock.  notify_network_up runs on the event    *)
(* task and notify_network_down on the LVGL task, each in two steps; the   *)
(* main task writes the buffer and the listener reads it, a byte a step.   *)
(* The poll node is the contract of the scheduler: queued or not, due or   *)
(* not.  TaskSchedulerUnlocked has what happens to the list behind it.     *)
(*                                                                         *)
(* The server is external: it sends chunks until the request ends, well or *)
(* not.  The memory of the buffer comes from malloc with any contents.  An *)
(* operator named after a fault, before the definition it varies, is a     *)
(* plausible slip; README.md says which property each one breaks.          *)
(***************************************************************************)
EXTENDS Naturals, Sequences

CONSTANTS Bytes,    \* the bytes of a response
          NUL,      \* '\0'
          BufLen,   \* CONFIG_REDMOLE_HTTP_RESPONSE_BUF_SIZE
          JsonLen,  \* UART_MOLE_JSON_BUF_SIZE
          Chunks,   \* what HTTP_EVENT_ON_DATA may bring
          MaxBody   \* bound: length of a body

ASSUME HttpClientAssumption ==
    /\ NUL \notin Bytes
    /\ BufLen \in Nat \ {0} /\ JsonLen \in 1 .. BufLen
    /\ Chunks \subseteq Seq(Bytes) /\ MaxBody \in Nat

VARIABLES
    networkUp,  \* s_client.network_up
    queued,     \* s_client.task_node is in the scheduler's list
    due,        \* its run_at_tick has come
    upTask,     \* notify_network_up has set the flag, and has yet to add
    downTask,   \* notify_network_down has cleared the flag, and has yet to remove
    main,       \* the main task: "idle", "perform", or "copy" in the callback
    buf,        \* s_response_buf
    written,    \* ctx.written, plus the bytes of this chunk copied so far
    chunk,      \* the bytes of this chunk still to copy
    listener,   \* "idle", "scan" in strnlen, "copy" in memcpy
    jsonLen,    \* json_len, or the bytes strnlen has seen so far
    json,       \* the bytes of json_buf copied so far
    body,       \* history: what the server sent in the latest request
    asked,      \* history: a request has been made
    crossed,    \* history: a request touched the buffer during this copy
    overlapped  \* history: the latest notifications ran at the same time

nodeVars == <<networkUp, queued, due, upTask, downTask, overlapped>>
bufVars == <<main, buf, written, chunk, body, asked>>
copyVars == <<listener, jsonLen, json>>
vars == <<nodeVars, bufVars, copyVars, crossed>>

Positions == 0 .. BufLen - 1

TypeOK ==
    /\ networkUp \in BOOLEAN /\ queued \in BOOLEAN /\ due \in BOOLEAN
    /\ upTask \in BOOLEAN /\ downTask \in BOOLEAN
    /\ main \in {"idle", "perform", "copy"}
    /\ buf \in [Positions -> Bytes \cup {NUL}]
    /\ written \in Positions
    /\ chunk \in Seq(Bytes) /\ written + Len(chunk) \in Positions
    /\ listener \in {"idle", "scan", "copy"}
    /\ jsonLen \in 0 .. JsonLen - 1
    /\ json \in Seq(Bytes \cup {NUL}) /\ Len(json) <= jsonLen
    /\ body \in Seq(Bytes)
    /\ asked \in BOOLEAN /\ crossed \in BOOLEAN /\ overlapped \in BOOLEAN

-----------------------------------------------------------------------------
(* The notifications of the network access controller *)

NotifyUp ==
    /\ ~upTask
    /\ upTask' = TRUE /\ networkUp' = TRUE /\ overlapped' = downTask
    /\ UNCHANGED <<queued, due, downTask, bufVars, copyVars, crossed>>

(* task_scheduler_add refuses a node that is queued. *)
AddNode ==
    /\ upTask
    /\ upTask' = FALSE /\ queued' = TRUE /\ due' = (due \/ ~queued)
    /\ UNCHANGED <<networkUp, downTask, overlapped, bufVars, copyVars, crossed>>

NotifyDown ==
    /\ ~downTask
    /\ downTask' = TRUE /\ networkUp' = FALSE /\ overlapped' = upTask
    /\ UNCHANGED <<queued, due, upTask, bufVars, copyVars, crossed>>

(* Faulty: the node stays in the list. *)
RemoveNothing ==
    /\ downTask
    /\ downTask' = FALSE
    /\ UNCHANGED <<networkUp, queued, due, upTask, overlapped, bufVars, copyVars, crossed>>

RemoveNode ==
    /\ downTask
    /\ downTask' = FALSE /\ queued' = FALSE
    /\ UNCHANGED <<networkUp, due, upTask, overlapped, bufVars, copyVars, crossed>>

Elapse ==
    /\ ~due /\ due' = TRUE
    /\ UNCHANGED <<networkUp, queued, upTask, downTask, overlapped, bufVars, copyVars, crossed>>

-----------------------------------------------------------------------------
(* The poll *)

(* Faulty: a poll that failed is not repeated. *)
AgainIfOk(ok) == due' = FALSE /\ queued' = (queued /\ ok)

(* TASK_RUN_AGAIN, one interval later, whether the request succeeded or not. *)
Again(ok) == due' = FALSE /\ UNCHANGED queued

(* Faulty: what the last response left in the buffer stays. *)
Keep == UNCHANGED buf

Clear == buf' = [buf EXCEPT ![0] = NUL]

(* http_client_get, http_request_get up to esp_http_client_perform. *)
Poll ==
    /\ main = "idle" /\ queued /\ due
    /\ \/ /\ networkUp
          /\ main' = "perform" /\ Clear /\ written' = 0 /\ body' = <<>>
          /\ asked' = TRUE /\ crossed' = TRUE
          /\ UNCHANGED <<chunk, queued, due>>
       \/ ~networkUp /\ Again(FALSE) /\ UNCHANGED <<bufVars, crossed>>
    /\ UNCHANGED <<networkUp, upTask, downTask, overlapped, copyVars>>

(* on_http_event: what does not fit is dropped. *)
Receive(data) ==
    /\ main = "perform" /\ Len(body) + Len(data) <= MaxBody
    /\ LET space == BufLen - written - 1
       IN  chunk' = IF Len(data) < space THEN data ELSE SubSeq(data, 1, space)
    /\ main' = "copy" /\ body' = body \o data
    /\ UNCHANGED <<buf, written, asked, nodeVars, copyVars, crossed>>

CopyByte ==
    /\ main = "copy" /\ chunk # <<>>
    /\ buf' = [buf EXCEPT ![written] = Head(chunk)]
    /\ written' = written + 1 /\ chunk' = Tail(chunk)
    /\ UNCHANGED <<main, body, asked, nodeVars, copyVars, crossed>>

Terminate ==
    /\ main = "copy" /\ chunk = <<>>
    /\ buf' = [buf EXCEPT ![written] = NUL]
    /\ main' = "perform"
    /\ UNCHANGED <<written, chunk, body, asked, nodeVars, copyVars, crossed>>

(* The request is over: the whole body received, a broken connection after *)
(* part of it, an error status after its page, or no client at all.        *)
EndRequest ==
    /\ main = "perform"
    /\ main' = "idle" /\ \E ok \in BOOLEAN : Again(ok)
    /\ UNCHANGED <<buf, written, chunk, body, asked, networkUp, upTask, downTask,
                   overlapped, copyVars, crossed>>

Main ==
    \/ Poll \/ CopyByte \/ Terminate \/ EndRequest
    \/ \E data \in Chunks : Receive(data)

-----------------------------------------------------------------------------
(* The listener, on UART_SERVER_PKG *)

(* if (!response || response[0] == '\0') break; *)
Request ==
    /\ listener = "idle" /\ buf[0] # NUL
    /\ listener' = "scan" /\ jsonLen' = 0 /\ json' = <<>>
    /\ crossed' = (main # "idle")
    /\ UNCHANGED <<nodeVars, bufVars>>

(* strnlen(response, UART_MOLE_JSON_BUF_SIZE - 1) *)
Scan ==
    /\ listener = "scan"
    /\ IF jsonLen < JsonLen - 1 /\ buf[jsonLen] # NUL
       THEN jsonLen' = jsonLen + 1 /\ UNCHANGED listener
       ELSE listener' = "copy" /\ UNCHANGED jsonLen
    /\ UNCHANGED <<json, nodeVars, bufVars, crossed>>

Copy ==
    /\ listener = "copy" /\ Len(json) < jsonLen
    /\ json' = Append(json, buf[Len(json)])
    /\ UNCHANGED <<listener, jsonLen, nodeVars, bufVars, crossed>>

(* The package is complete, and its transmission scheduled. *)
Send ==
    /\ listener = "copy" /\ Len(json) = jsonLen
    /\ listener' = "idle"
    /\ UNCHANGED <<jsonLen, json, nodeVars, bufVars, crossed>>

Listener == Request \/ Scan \/ Copy \/ Send

Init ==
    /\ networkUp = FALSE /\ queued = FALSE /\ due = FALSE
    /\ upTask = FALSE /\ downTask = FALSE /\ overlapped = FALSE
    /\ main = "idle" /\ buf \in [Positions -> Bytes \cup {NUL}]
    /\ written = 0 /\ chunk = <<>> /\ body = <<>> /\ asked = FALSE
    /\ listener = "idle" /\ jsonLen = 0 /\ json = <<>> /\ crossed = FALSE

Next ==
    \/ NotifyUp \/ AddNode \/ NotifyDown \/ RemoveNode \/ Elapse
    \/ Main \/ Listener

(* A notification ends, time passes, and the main task goes on; a request  *)
(* is bounded by the time-outs of esp_http_client.                         *)
Fairness == WF_vars(AddNode) /\ WF_vars(RemoveNode) /\ WF_vars(Elapse) /\ WF_vars(Main)

Spec == Init /\ [][Next]_vars /\ Fairness

-----------------------------------------------------------------------------
(* Once no notification is under way, the client polls exactly while the   *)
(* network is up: flag and node agree, unless the latest two notifications *)
(* ran at the same time, and the next one repairs that.                    *)
PollingMatchesNetwork ==
    ~upTask /\ ~downTask /\ ~overlapped => queued = networkUp

Response == SubSeq(body, 1, IF Len(body) < JsonLen THEN Len(body) ELSE JsonLen - 1)

(* A server package that no request has touched while it was copied is the *)
(* latest response, from its first byte to its last or as far as the       *)
(* buffer goes: nothing of an earlier one, also when the chunks were many, *)
(* the body too long or the request broken off.                            *)
PackageIsResponse ==
    [][listener = "copy" /\ listener' = "idle" /\ asked /\ ~crossed => json = Response]_vars

(* As long as the network stays up, request follows request, whatever      *)
(* becomes of each one.                                                    *)
PollsGoOn ==
    <>[](networkUp /\ ~overlapped) => []<>(main = "perform")
=============================================================================
