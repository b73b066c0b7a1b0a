------------------------------ MODULE UartLink ------------------------------
(***************************************************************************)
(* The UART diagnostic service and the client on the PC, composed:         *)
(* software/uart_client/src/{uart_client,protocol,serial}.c.               *)
(*                                                                         *)
(* The client sends one command byte, then reads one packet: a header of   *)
(* three bytes, as many bytes of payload as the header says, each with a   *)
(* time-out of two seconds.  It decodes the payload by the tag that it     *)
(* asked for; the tag in the header is read and not looked at.             *)
(*                                                                         *)
(* Bounds: MaxInputs commands of the client and plug-ins of the USB        *)
(* adapter together; a plug-in holds the line low for at most GlitchBytes  *)
(* bytes.                                                                  *)
(***************************************************************************)
EXTENDS UartMole, FiniteSets

CONSTANTS
    MaxInputs,   \* commands the client sends and plug-ins of the adapter
    GlitchBytes, \* bytes such a break leaves at most
    JsonLength   \* length of the server's response

ASSUME LinkAssumption ==
    /\ MaxInputs \in Nat
    /\ GlitchBytes \in Nat /\ JsonLength \in Nat \ {0}

VARIABLES
    client,   \* where the client is: at its prompt, or reading
    asked,    \* the tag it asked for last
    requests, \* number of commands it has sent
    read,     \* number of items of the wire it has read or thrown away
    header,   \* the header it has read
    shown,    \* the last answer it has printed, with what was asked for and
              \* by which request (to)
    glitches, \* times the adapter was plugged in
    clean     \* nothing is left over from an earlier request, a glitch or a boot

clientVars == <<client, asked, requests, read, header, shown, glitches, clean>>
vars == <<deviceVars, clientVars>>

NoAnswer == [asked |-> "NONE", to |-> 0, tag |-> "NONE", from |-> 0]

Init ==
    /\ DeviceInit
    /\ client = "prompt" /\ asked = "NONE"
    /\ requests = 0 /\ read = 0
    /\ header = NoPkg /\ shown = NoAnswer
    /\ glitches = 0 /\ clean = TRUE

-----------------------------------------------------------------------------
Available == read < Len(wire)

(* Something is left of a command that may still become an answer. *)
UnderWay == rx # <<>> \/ cmd # NoPkg \/ pkg # NoPkg \/ tx # <<>>

(* The listener and the UART take milliseconds for what is there; it is the
   main task, which may be waiting for the network, that can be late. *)
ListenerIsThrough ==
    \/ listener = "off"
    \/ listener = "wait" /\ events = 0 /\ (asked = "TEST" => tx = <<>> /\ ~Available)

(* protocol_send_cmd: whatever is written and not read yet is before the answer
   to this command. *)
Send(t) ==
    /\ client = "prompt" /\ requests + glitches < MaxInputs
    /\ client' = "header"
    /\ asked' = t
    /\ requests' = requests + 1
    /\ Arrive(<<[tag |-> t, from |-> requests + 1]>>)
    /\ clean' = (clean /\ read = Len(wire) + Len(tx))
    /\ UNCHANGED <<listener, cmd, pkg, active, main, tx, wire, restarts>>
    /\ UNCHANGED <<read, header, shown, glitches>>

(* protocol_recv_packet: the header. *)
ReadHeader ==
    /\ client = "header" /\ Available
    /\ wire[read + 1].part = "header"
    /\ header' = [tag |-> wire[read + 1].tag, from |-> wire[read + 1].from]
    /\ read' = read + 1
    /\ client' = "payload"
    /\ UNCHANGED <<asked, requests, shown, glitches, clean>>
    /\ UNCHANGED deviceVars

(* The boot log, or the rest of a packet whose header was thrown away, is taken
   for a header: its length is wrong, or its checksum fails after as many bytes
   of whatever follows. *)
ReadGarbage ==
    /\ client = "header" /\ Available
    /\ wire[read + 1].part # "header"
    /\ read' \in read .. Len(wire)
    /\ client' = "prompt"
    /\ UNCHANGED <<asked, requests, header, shown, glitches, clean>>
    /\ UNCHANGED deviceVars

(* data_len of each package, and the least that each decoder takes. *)
PayloadLength ==
    [STATUS |-> 11, SERVER |-> JsonLength + 6, SENSOR |-> 18, RESTART |-> 7,
     DIAG |-> 611, TEST |-> 6]
LeastLength ==
    [STATUS |-> 11, SERVER |-> 6, SENSOR |-> 18, RESTART |-> 7,
     DIAG |-> 611, TEST |-> 6]

(* The payload: checksum, then the decoder of the tag that was asked for. *)
Decoder(h) == asked

ReadPayload ==
    /\ client = "payload" /\ Available
    /\ read' = read + 1
    /\ shown' = IF PayloadLength[header.tag] >= LeastLength[Decoder(header)]
                THEN [asked |-> Decoder(header), to |-> requests,
                      tag |-> header.tag, from |-> header.from]
                ELSE NoAnswer
    /\ client' = "prompt"
    /\ UNCHANGED <<asked, requests, header, glitches, clean>>
    /\ UNCHANGED deviceVars

(* Two seconds have passed without a header. *)
TimeOut ==
    /\ client = "header" /\ ListenerIsThrough
    /\ client' = "prompt"
    /\ clean' = (clean /\ ~UnderWay /\ ~Available)
    /\ UNCHANGED <<asked, requests, read, header, shown, glitches>>
    /\ UNCHANGED deviceVars

(* The client ends (serial_close) and is started again (serial_open): what the
   PC has received is thrown away, the boot log for one. *)
Reopen ==
    /\ client = "prompt"
    /\ read' = Len(wire)
    /\ shown' = NoAnswer
    /\ clean' = (clean \/ ~UnderWay)
    /\ UNCHANGED <<client, asked, requests, header, glitches>>
    /\ UNCHANGED deviceVars

(* The USB adapter is plugged in: the line is low until it has come up. *)
PlugIn ==
    /\ client = "prompt" /\ requests + glitches < MaxInputs
    /\ glitches' = glitches + 1
    /\ \E n \in 1 .. GlitchBytes : Arrive([i \in 1 .. n |-> Glitch])
    /\ clean' = (clean /\ listener \in {"off", "flush"})
    /\ UNCHANGED <<listener, cmd, pkg, active, main, tx, wire, restarts>>
    /\ UNCHANGED <<client, asked, requests, read, header, shown>>

Client ==
    \/ \E t \in Tags : Send(t)
    \/ ReadHeader \/ ReadGarbage \/ ReadPayload
    \/ TimeOut \/ Reopen

Next ==
    \/ Device /\ UNCHANGED clientVars
    \/ Client
    \/ PlugIn

(* No fairness for the client: what is promised below does not rest on its
   being patient, nor on its time-out. *)
Spec == Init /\ [][Next]_vars /\ DeviceFairness

-----------------------------------------------------------------------------
Commands == [tag : Tags, from : 0 .. MaxInputs]
Packages == Commands \cup {NoPkg}
Items == [tag : Tags, from : 0 .. MaxInputs, part : {"header", "payload"}] \cup {BootLog}

(* The ranges of the variables.  An event never outlives its byte once the
   listener waits for commands: it does not sit out the 20 ms of
   uart_mole.c:292 for nothing. *)
TypeOK ==
    /\ rx \in Seq(Commands) /\ events \in 0 .. MaxInputs
    /\ listener \in {"off", "flush", "reset", "wait", "check", "build", "add"}
    /\ cmd \in Packages /\ pkg \in Packages
    /\ active \in BOOLEAN
    /\ main \in {"loop", "payload", "drain", "done"}
    /\ tx \in Seq(Items) /\ wire \in Seq(Items)
    /\ restarts \in 0 .. MaxInputs
    /\ client \in {"prompt", "header", "payload"}
    /\ asked \in Tags \cup {"NONE"}
    /\ requests \in 0 .. MaxInputs
    /\ read \in 0 .. Len(wire)
    /\ header \in Packages
    /\ shown \in [asked : Tags \cup {"NONE"}, to : 0 .. MaxInputs,
                  tag : Tags \cup {"NONE"}, from : 0 .. MaxInputs]
    /\ glitches \in 0 .. MaxInputs
    /\ clean \in BOOLEAN
    /\ listener = "wait" => events <= Len(rx)

(* What has been and will be sent. *)
Stream == wire \o tx

(* The two tasks write to one UART without a lock, and a restart throws away
   what is not clocked out and prints over it; still the stream is whole
   packets, header and payload of the same package next to each other with the
   boot log between packets only, the last one perhaps being written by main
   (uart_mole.c:178-240, 297-301, 473-493). *)
WireFramed ==
    \A i \in 1 .. Len(Stream) :
        IF Stream[i].part = "header"
        THEN IF i = Len(Stream)
             THEN main = "payload"
             ELSE Stream[i + 1] = [Stream[i] EXCEPT !.part = "payload"]
        ELSE Stream[i].part = "payload" => i > 1 /\ Stream[i - 1].part = "header"

(* No command is answered twice and no answer overtakes another, whichever
   task writes it (uart_mole.c:247-249, 297-301). *)
AnsweredOnce ==
    \A i, j \in 1 .. Len(Stream) :
        /\ i < j /\ Stream[i].part = Stream[j].part
        /\ Stream[i].from > 0 /\ Stream[j].from > 0
        => Stream[i].from < Stream[j].from

(* The client has been sent the whole answer to every RESTART that was carried
   out (uart_mole.c:204-212). *)
RestartAcknowledged ==
    restarts <= Cardinality({i \in 1 .. Len(wire) :
                               wire[i].tag = "RESTART" /\ wire[i].part = "payload"})

(* A client that begins with a quiet line - it has waited out or thrown away the
   answers to earlier requests and the boot log, and no glitch has got past the
   flush at start-up - prints the answer to the very request it has just made,
   by the decoder for it, or none (uart_client.c:26-78, uart_mole.c:278-282). *)
AnswersMatch ==
    clean /\ shown # NoAnswer
    => shown.tag = shown.asked /\ shown.from = shown.to

(* Once the listener has accepted a command that needs no data, its answer is
   written: a package staged in the shared buffer is never overwritten, cleared
   or left behind (uart_mole.c:303-357, 169-250). *)
AcceptedIsAnswered ==
    \A r \in 1 .. MaxInputs :
        (listener = "build" /\ cmd.from = r /\ cmd.tag \notin NeedData)
        ~> (\E i \in 1 .. Len(Stream) : Stream[i].from = r /\ Stream[i].part = "payload")

=============================================================================
