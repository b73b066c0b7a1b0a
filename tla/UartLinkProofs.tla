--------------------------- MODULE UartLinkProofs ---------------------------
(***************************************************************************)
(* Proofs about the UART service and its client, for any number of         *)
(* commands and of breaks on the line: the stream is whole packets with    *)
(* the boot log between them, no command is answered twice or out of       *)
(* order, each restart was acknowledged, and a client that begins with a   *)
(* quiet line shows the answer to the request it has just made.            *)
(*                                                                         *)
(* All rests on Handshake: while the node is active, the listener neither  *)
(* builds an answer nor writes one.                                        *)
(***************************************************************************)
EXTENDS UartLink, SequenceTheorems, FiniteSetTheorems, TLAPS

Typed ==
    /\ rx \in Seq(Commands)
    /\ listener \in {"off", "flush", "reset", "wait", "check", "build", "add"}
    /\ cmd \in Packages /\ pkg \in Packages
    /\ active \in BOOLEAN
    /\ main \in {"loop", "payload", "drain", "done"}
    /\ tx \in Seq(Items) /\ wire \in Seq(Items)
    /\ requests \in 0 .. MaxInputs /\ restarts \in Nat

(* A package is staged, or about to be, for main to write. *)
Pending == active /\ main \in {"loop", "payload"}

Handshake ==
    /\ listener \in {"check", "build", "add"} => cmd \in Commands
    /\ listener \in {"build", "add"} => ~active
    /\ main # "loop" => active
    /\ listener = "add" => pkg = cmd
    /\ Pending => pkg \in Commands

-----------------------------------------------------------------------------
(* Streams: whole packets, the last one perhaps open. *)
Framed(s, open) ==
    \A i \in 1 .. Len(s) :
        IF s[i].part = "header"
        THEN IF i = Len(s) THEN open
             ELSE s[i + 1] = [s[i] EXCEPT !.part = "payload"]
        ELSE s[i].part = "payload" => i > 1 /\ s[i - 1].part = "header"

(* No answer twice or out of order. *)
Once(s) ==
    \A i, j \in 1 .. Len(s) :
        /\ i < j /\ s[i].part = s[j].part
        /\ s[i].from > 0 /\ s[j].from > 0
        => s[i].from < s[j].from

(* Request f, if it is one, is later than all of a stream. *)
Below(s, f) == f = 0 \/ \A i \in 1 .. Len(s) : s[i].from < f

LEMMA AppendItem ==
    ASSUME NEW s \in Seq(Items), NEW e \in Items
    PROVE  /\ Append(s, e) \in Seq(Items) /\ Len(s) \in Nat
           /\ Len(Append(s, e)) = Len(s) + 1
           /\ \A i \in 1 .. Len(s) : Append(s, e)[i] = s[i] /\ s[i] \in Items
           /\ Append(s, e)[Len(s) + 1] = e
<1> QED
  BY ElementOfSeq, AppendProperties

LEMMA PartIsItem ==
    ASSUME NEW p \in Commands, NEW part \in {"header", "payload"}
    PROVE  /\ Part(p, part) \in Items
           /\ Part(p, part).part = part /\ Part(p, part).from = p.from
           /\ Part(p, part).tag = p.tag
           /\ [Part(p, "header") EXCEPT !.part = "payload"] = Part(p, "payload")
<1> QED
  BY DEF Commands, Items, Part

LEMMA BootLogIsItem ==
    /\ BootLog \in Items /\ BootLog.part = "text" /\ BootLog.from = 0
    /\ \A e \in Items : e.from \in Nat
<1> QED
  BY DEF Items, BootLog

(* The boot log comes after a whole packet ... *)
LEMMA FramedBootLog ==
    ASSUME NEW s \in Seq(Items), Framed(s, FALSE)
    PROVE  Framed(Append(s, BootLog), FALSE)
<1> DEFINE t == Append(s, BootLog)
<1>1. /\ Len(s) \in Nat /\ Len(t) = Len(s) + 1
      /\ \A i \in 1 .. Len(s) : t[i] = s[i]
      /\ t[Len(s) + 1].part = "text"
  BY AppendItem, BootLogIsItem
<1> HIDE DEF t
<1> SUFFICES ASSUME NEW i \in 1 .. Len(t)
             PROVE  IF t[i].part = "header"
                    THEN IF i = Len(t) THEN FALSE
                         ELSE t[i + 1] = [t[i] EXCEPT !.part = "payload"]
                    ELSE t[i].part = "payload" => i > 1 /\ t[i - 1].part = "header"
  BY DEF Framed, t
<1>2. CASE i = Len(s) + 1
  BY <1>1, <1>2
<1>3. CASE i \in 1 .. Len(s)
  <2>1. t[i] = s[i] /\ (i # Len(s) => t[i + 1] = s[i + 1]) /\ (i > 1 => t[i - 1] = s[i - 1])
    BY <1>1, <1>3
  <2> QED
    BY <1>1, <1>3, <2>1 DEF Framed
<1> QED
  BY <1>1, <1>2, <1>3

(* ... and so does a header, which opens one ... *)
LEMMA FramedHeader ==
    ASSUME NEW s \in Seq(Items), NEW p \in Commands, Framed(s, FALSE)
    PROVE  Framed(Append(s, Part(p, "header")), TRUE)
<1> DEFINE t == Append(s, Part(p, "header"))
<1>1. /\ Len(s) \in Nat /\ Len(t) = Len(s) + 1
      /\ \A i \in 1 .. Len(s) : t[i] = s[i]
      /\ t[Len(s) + 1].part = "header"
  BY AppendItem, PartIsItem
<1> HIDE DEF t
<1> SUFFICES ASSUME NEW i \in 1 .. Len(t)
             PROVE  IF t[i].part = "header"
                    THEN IF i = Len(t) THEN TRUE
                         ELSE t[i + 1] = [t[i] EXCEPT !.part = "payload"]
                    ELSE t[i].part = "payload" => i > 1 /\ t[i - 1].part = "header"
  BY DEF Framed, t
<1>2. CASE i = Len(s) + 1
  BY <1>1, <1>2
<1>3. CASE i \in 1 .. Len(s)
  <2>1. t[i] = s[i] /\ (i # Len(s) => t[i + 1] = s[i + 1]) /\ (i > 1 => t[i - 1] = s[i - 1])
    BY <1>1, <1>3
  <2> QED
    BY <1>1, <1>3, <2>1 DEF Framed
<1> QED
  BY <1>1, <1>2, <1>3

(* ... and its payload closes it. *)
LEMMA FramedPayload ==
    ASSUME NEW s \in Seq(Items), NEW p \in Commands, Framed(s, TRUE),
           Len(s) > 0, s[Len(s)] = Part(p, "header"), NEW open \in BOOLEAN
    PROVE  Framed(Append(s, Part(p, "payload")), open)
<1> DEFINE t == Append(s, Part(p, "payload"))
<1>1. /\ Len(s) \in Nat /\ Len(t) = Len(s) + 1
      /\ \A i \in 1 .. Len(s) : t[i] = s[i]
      /\ t[Len(s) + 1] = Part(p, "payload")
      /\ t[Len(s) + 1].part = "payload" /\ s[Len(s)].part = "header"
      /\ t[Len(s) + 1] = [s[Len(s)] EXCEPT !.part = "payload"]
  BY AppendItem, PartIsItem
<1> HIDE DEF t
<1> SUFFICES ASSUME NEW i \in 1 .. Len(t)
             PROVE  IF t[i].part = "header"
                    THEN IF i = Len(t) THEN open
                         ELSE t[i + 1] = [t[i] EXCEPT !.part = "payload"]
                    ELSE t[i].part = "payload" => i > 1 /\ t[i - 1].part = "header"
  BY DEF Framed, t
<1>2. CASE i = Len(s) + 1
  BY <1>1, <1>2
<1>3. CASE i \in 1 .. Len(s) - 1
  <2>1. t[i] = s[i] /\ t[i + 1] = s[i + 1] /\ (i > 1 => t[i - 1] = s[i - 1])
    BY <1>1, <1>3
  <2> QED
    BY <1>1, <1>3, <2>1 DEF Framed
<1>4. CASE i = Len(s)
  BY <1>1, <1>4
<1> QED
  BY <1>1, <1>2, <1>3, <1>4

LEMMA BelowAppend ==
    ASSUME NEW s \in Seq(Items), NEW e \in Items, NEW f, Below(s, f), f = 0 \/ e.from < f
    PROVE  Below(Append(s, e), f)
<1> QED
  BY AppendItem DEF Below

LEMMA OnceAppend ==
    ASSUME NEW s \in Seq(Items), NEW e \in Items, Once(s),
           \A i \in 1 .. Len(s) :
               s[i].part = e.part /\ e.from > 0 /\ s[i].from > 0 => s[i].from < e.from
    PROVE  Once(Append(s, e))
<1> DEFINE t == Append(s, e)
<1>1. /\ Len(s) \in Nat /\ Len(t) = Len(s) + 1
      /\ \A i \in 1 .. Len(s) : t[i] = s[i]
      /\ t[Len(s) + 1] = e
  BY AppendItem
<1> HIDE DEF t
<1> SUFFICES ASSUME NEW i \in 1 .. Len(t), NEW j \in 1 .. Len(t),
                    i < j, t[i].part = t[j].part, t[i].from > 0, t[j].from > 0
             PROVE  t[i].from < t[j].from
  BY DEF Once, t
<1>2. i \in 1 .. Len(s) /\ t[i] = s[i]
  BY <1>1
<1>3. CASE j = Len(s) + 1
  BY <1>1, <1>2, <1>3
<1>4. CASE j \in 1 .. Len(s)
  BY <1>1, <1>2, <1>4 DEF Once
<1> QED
  BY <1>1, <1>3, <1>4

-----------------------------------------------------------------------------
(* What each step does to the stream: it is written at its end only. *)
LEMMA StreamType == Typed => Stream \in Seq(Items)
<1> QED
  BY ConcatProperties DEF Typed, Stream

LEMMA StreamTransmit == Typed /\ Transmit => Stream' = Stream
<1> SUFFICES ASSUME Typed, Transmit PROVE Stream' = Stream
  OBVIOUS
<1> DEFINE h == Head(tx)
           t == Tail(tx)
<1>1. h \in Items /\ t \in Seq(Items) /\ wire \in Seq(Items) /\ tx \in Seq(Items)
  BY HeadTailProperties DEF Typed, Transmit
<1>2. tx = <<h>> \o t
  BY <1>1 DEF Transmit
<1>3. Append(wire, h) = wire \o <<h>> /\ <<h>> \in Seq(Items)
  BY <1>1
<1>4. (wire \o <<h>>) \o t = wire \o (<<h>> \o t)
  BY <1>1, <1>3, ConcatAssociative
<1>5. wire' = Append(wire, h) /\ tx' = t
  BY DEF Transmit
<1> QED
  BY <1>2, <1>3, <1>4, <1>5 DEF Stream

LEMMA StreamAppend ==
    ASSUME Typed, NEW e \in Items, tx' = Append(tx, e), wire' = wire
    PROVE  Stream' = Append(Stream, e)
<1>1. <<e>> \in Seq(Items) /\ tx \in Seq(Items) /\ wire \in Seq(Items)
  BY DEF Typed
<1>2. Append(tx, e) = tx \o <<e>>
  BY <1>1
<1>3. wire \o (tx \o <<e>>) = (wire \o tx) \o <<e>>
  BY <1>1, ConcatAssociative
<1>4. Append(wire \o tx, e) = (wire \o tx) \o <<e>>
  BY <1>1, ConcatProperties
<1> QED
  BY <1>2, <1>3, <1>4 DEF Stream

LEMMA StreamTest ==
    ASSUME Typed, NEW d \in Items, NEW e \in Items, tx' = tx \o <<d, e>>, wire' = wire
    PROVE  Stream' = Append(Append(Stream, d), e)
<1>1. /\ <<d>> \in Seq(Items) /\ <<e>> \in Seq(Items) /\ <<d, e>> \in Seq(Items)
      /\ tx \in Seq(Items) /\ wire \in Seq(Items) /\ Stream \in Seq(Items)
  BY StreamType DEF Typed
<1>2. wire \o (tx \o <<d, e>>) = (wire \o tx) \o <<d, e>>
  BY <1>1, ConcatAssociative
<1>3. <<d, e>> = <<d>> \o <<e>>
  <2> DEFINE c == <<d>> \o <<e>>
  <2>1. c \in Seq(Items) /\ Len(c) = 2 /\ c[1] = d /\ c[2] = e
    BY <1>1, ConcatProperties
  <2>2. Len(<<d, e>>) = 2 /\ <<d, e>>[1] = d /\ <<d, e>>[2] = e
    OBVIOUS
  <2> HIDE DEF c
  <2>3. <<d, e>> = c
    BY <1>1, <2>1, <2>2, SeqEqual
  <2> QED
    BY <2>3 DEF c
<1>4. Stream \o (<<d>> \o <<e>>) = (Stream \o <<d>>) \o <<e>>
  BY <1>1, ConcatAssociative
<1>5. Append(Stream, d) = Stream \o <<d>> /\ Append(Stream, d) \in Seq(Items)
  BY <1>1
<1>6. Append(Append(Stream, d), e) = Append(Stream, d) \o <<e>>
  BY <1>1, <1>5
<1> QED
  BY <1>2, <1>3, <1>4, <1>5, <1>6 DEF Stream

LEMMA StreamRestart == Typed /\ Restart => Stream = wire /\ Stream' = Append(Stream, BootLog)
<1> SUFFICES ASSUME Typed, Restart PROVE Stream = wire /\ Stream' = Append(Stream, BootLog)
  OBVIOUS
<1>1. /\ wire \in Seq(Items) /\ tx = <<>> /\ tx' = <<>> /\ wire' = Append(wire, BootLog)
      /\ wire' \in Seq(Items)
  BY AppendItem, BootLogIsItem DEF Typed, Restart, TxDone
<1> QED
  BY <1>1, ConcatEmptySeq DEF Stream

(* At the beginning the boot log is all there is. *)
LEMMA StreamInit ==
    ASSUME Init
    PROVE  /\ Stream = <<BootLog>> /\ wire = <<BootLog>> /\ wire \in Seq(Items)
           /\ Len(Stream) = 1 /\ Len(wire) = 1 /\ Stream[1] = BootLog
<1>1. wire = <<BootLog>> /\ tx = <<>> /\ wire \in Seq(Items)
  BY BootLogIsItem DEF Init, DeviceInit
<1>2. Stream = wire
  BY <1>1, ConcatEmptySeq DEF Stream
<1> QED
  BY <1>1, <1>2

-----------------------------------------------------------------------------
(* Types and handshake. *)
Basic == Typed /\ Handshake /\ glitches \in Nat

LEMMA EmptyTypes == <<>> \in Seq(Commands) /\ <<>> \in Seq(Items) /\ NoPkg \in Packages
<1> QED
  BY EmptySeq DEF Packages

LEMMA InitBasic == Init => Basic
<1> SUFFICES ASSUME Init PROVE Basic
  OBVIOUS
<1>1. Typed
  <2>1. rx \in Seq(Commands)
    BY EmptyTypes DEF Init, DeviceInit
  <2>2. tx \in Seq(Items) /\ wire \in Seq(Items)
    BY EmptyTypes, StreamInit DEF Init, DeviceInit
  <2>3. cmd \in Packages /\ pkg \in Packages
    BY EmptyTypes DEF Init, DeviceInit
  <2>4. /\ active \in BOOLEAN
        /\ main \in {"loop", "payload", "drain", "done"}
        /\ listener \in {"off", "flush", "reset", "wait", "check", "build", "add"}
    BY DEF Init, DeviceInit
  <2>5. requests \in 0 .. MaxInputs /\ restarts \in Nat
    BY LinkAssumption DEF Init, DeviceInit
  <2> QED
    BY <2>1, <2>2, <2>3, <2>4, <2>5 DEF Typed
<1>2. Handshake /\ glitches \in Nat
  BY DEF Init, DeviceInit, Handshake, Pending
<1> QED
  BY <1>1, <1>2 DEF Basic

(* What comes in on the line is appended to the ring buffer, or lost. *)
LEMMA ArriveFacts ==
    ASSUME Typed, NEW bytes \in Seq(Commands), Arrive(bytes)
    PROVE  /\ rx' \in Seq(Commands)
           /\ rx' = rx \/ rx' = rx \o bytes
<1> QED
  BY ConcatProperties DEF Typed, Arrive

LEMMA SentCommand ==
    ASSUME Basic, NEW t \in Tags, Send(t)
    PROVE  /\ requests' = requests + 1 /\ requests' \in 0 .. MaxInputs
           /\ [tag |-> t, from |-> requests + 1] \in Commands
           /\ <<[tag |-> t, from |-> requests + 1]>> \in Seq(Commands)
           /\ Arrive(<<[tag |-> t, from |-> requests + 1]>>)
           /\ UNCHANGED <<listener, cmd, pkg, active, main, tx, wire, restarts, glitches>>
<1>1. requests' = requests + 1 /\ requests' \in 0 .. MaxInputs
  BY LinkAssumption DEF Basic, Typed, Send
<1> QED
  BY <1>1 DEF Send, Commands

LEMMA PluggedIn ==
    ASSUME Basic, PlugIn
    PROVE  \E bytes \in Seq(Commands) :
             /\ \A i \in 1 .. Len(bytes) : bytes[i].from = 0
             /\ Arrive(bytes)
             /\ glitches' = glitches + 1
             /\ UNCHANGED <<listener, cmd, pkg, active, main, tx, wire, restarts, requests>>
<1>1. PICK n \in 1 .. GlitchBytes : Arrive([i \in 1 .. n |-> Glitch])
  BY DEF PlugIn
<1>2. n \in Nat /\ Glitch \in Commands
  BY LinkAssumption DEF Glitch, Commands, Tags
<1> DEFINE bytes == [i \in 1 .. n |-> Glitch]
<1>3. bytes \in Seq(Commands) /\ \A i \in 1 .. n : bytes[i].from = 0
  BY <1>2 DEF Glitch
<1>4. Len(bytes) = n
  BY <1>2, <1>3, LenProperties
<1> QED
  BY <1>1, <1>3, <1>4 DEF PlugIn

(* The rest of the client's steps do not touch the device. *)
Reading == ReadHeader \/ ReadGarbage \/ ReadPayload \/ TimeOut \/ Reopen

LEMMA ReadingLeavesDevice ==
    Reading => UNCHANGED <<rx, listener, cmd, pkg, active, main, tx, wire, restarts, requests, glitches>>
<1> QED
  BY DEF Reading, ReadHeader, ReadGarbage, ReadPayload, TimeOut, Reopen, deviceVars

LEMMA StepBasic == Basic /\ [Next]_vars => Basic'
<1> SUFFICES ASSUME Basic, [Next]_vars PROVE Basic'
  OBVIOUS
<1> USE DEF Basic, Typed, Handshake, Pending
<1>1. ASSUME Device, UNCHANGED clientVars PROVE Basic'
  <2>0. requests' = requests /\ glitches' = glitches
    BY <1>1 DEF clientVars
  <2>1. CASE FlushInput
    BY <2>0, <2>1 DEF FlushInput
  <2>2. CASE ResetQueue
    BY <2>0, <2>2 DEF ResetQueue
  <2>3. CASE Receive
    <3>1. CASE rx = <<>>
      BY <2>0, <2>3, <3>1 DEF Receive
    <3>2. CASE rx # <<>>
      <4>1. Head(rx) \in Commands /\ Tail(rx) \in Seq(Commands)
        BY <3>2, HeadTailProperties
      <4> QED
        BY <2>0, <2>3, <3>2, <4>1 DEF Receive, Packages
    <3> QED
      BY <3>1, <3>2
  <2>4. CASE Drop \/ StageNothing
    BY <2>0, <2>4 DEF Drop, StageNothing, ToWait, Packages
  <2>5. CASE Accept
    BY <2>0, <2>5 DEF Accept
  <2>6. CASE Stage
    BY <2>0, <2>6 DEF Stage
  <2>7. CASE Add
    BY <2>0, <2>7 DEF Add, ToWait, Packages
  <2>8. CASE AnswerTest
    <3>1. cmd \in Commands
      BY <2>8 DEF AnswerTest
    <3>2. <<Part(cmd, "header"), Part(cmd, "payload")>> \in Seq(Items)
      BY <3>1, PartIsItem
    <3>3. tx' \in Seq(Items)
      BY <2>8, <3>2, ConcatProperties DEF AnswerTest
    <3> QED
      BY <2>0, <2>8, <3>3 DEF AnswerTest, ToWait, Packages
  <2>9. CASE uart_mole_init
    BY <2>0, <2>9 DEF uart_mole_init
  <2>10. CASE WorkHeader
    <3>1. Part(pkg, "header") \in Items
      BY <2>10, PartIsItem DEF WorkHeader
    <3> QED
      BY <2>0, <2>10, <3>1, AppendItem DEF WorkHeader
  <2>11. CASE WorkPayload
    <3>1. Part(pkg, "payload") \in Items
      BY <2>11, PartIsItem DEF WorkPayload
    <3> QED
      BY <2>0, <2>11, <3>1, AppendItem DEF WorkPayload, Packages
  <2>12. CASE Release
    BY <2>0, <2>12 DEF Release
  <2>13. CASE Restart
    <3>1. Typed'
      <4>1. rx' \in Seq(Commands)
        BY <2>13, EmptyTypes DEF Restart
      <4>2. tx' \in Seq(Items) /\ wire' \in Seq(Items)
        BY <2>13, EmptyTypes, BootLogIsItem, AppendItem DEF Restart
      <4>3. cmd' \in Packages /\ pkg' \in Packages
        BY <2>13, EmptyTypes DEF Restart
      <4>4. /\ active' \in BOOLEAN
            /\ main' \in {"loop", "payload", "drain", "done"}
            /\ listener' \in {"off", "flush", "reset", "wait", "check", "build", "add"}
        BY <2>13 DEF Restart
      <4>5. requests' \in 0 .. MaxInputs /\ restarts' \in Nat
        <5>1. restarts' = restarts + 1
          BY <2>13 DEF Restart
        <5> QED
          BY <2>0, <5>1
      <4> QED
        BY <4>1, <4>2, <4>3, <4>4, <4>5
    <3>2. Handshake'
      BY <2>13 DEF Restart
    <3> QED
      BY <2>0, <3>1, <3>2
  <2>14. CASE Transmit
    <3>1. Head(tx) \in Items /\ Tail(tx) \in Seq(Items)
      BY <2>14, HeadTailProperties DEF Transmit
    <3> QED
      BY <2>0, <2>14, <3>1, AppendItem DEF Transmit
  <2> QED
    BY <1>1, <2>1, <2>2, <2>3, <2>4, <2>5, <2>6, <2>7, <2>8, <2>9, <2>10, <2>11, <2>12, <2>13,
       <2>14 DEF Device, Listener, Main
<1>2. ASSUME NEW t \in Tags, Send(t) PROVE Basic'
  BY <1>2, SentCommand, ArriveFacts
<1>3. CASE PlugIn
  <2>1. PICK bytes \in Seq(Commands) :
          /\ Arrive(bytes) /\ glitches' = glitches + 1
          /\ UNCHANGED <<listener, cmd, pkg, active, main, tx, wire, restarts, requests>>
    BY <1>3, PluggedIn
  <2> QED
    BY <2>1, ArriveFacts
<1>4. CASE Reading
  BY <1>4, ReadingLeavesDevice
<1>5. CASE UNCHANGED vars
  BY <1>5 DEF vars, deviceVars, clientVars
<1> QED
  BY <1>1, <1>2, <1>3, <1>4, <1>5 DEF Next, Client, Reading

LEMMA BasicAlways == Spec => []Basic
<1> QED
  BY InitBasic, StepBasic, PTL DEF Spec

-----------------------------------------------------------------------------
(* Only three steps write to the stream, but for the restart ... *)
LEMMA Written ==
    ASSUME Basic
    PROVE  /\ WorkHeader => Stream' = Append(Stream, Part(pkg, "header"))
           /\ WorkPayload => Stream' = Append(Stream, Part(pkg, "payload"))
           /\ AnswerTest => Stream' = Append(Append(Stream, Part(cmd, "header")),
                                             Part(cmd, "payload"))
<1> USE DEF Basic, Handshake, Pending
<1>1. ASSUME WorkHeader PROVE Stream' = Append(Stream, Part(pkg, "header"))
  <2>1. Part(pkg, "header") \in Items
    BY <1>1, PartIsItem DEF WorkHeader
  <2> QED
    BY <1>1, <2>1, StreamAppend DEF WorkHeader
<1>2. ASSUME WorkPayload PROVE Stream' = Append(Stream, Part(pkg, "payload"))
  <2>1. Part(pkg, "payload") \in Items
    BY <1>2, PartIsItem DEF WorkPayload
  <2> QED
    BY <1>2, <2>1, StreamAppend DEF WorkPayload
<1>3. ASSUME AnswerTest
      PROVE  Stream' = Append(Append(Stream, Part(cmd, "header")), Part(cmd, "payload"))
  <2>1. Part(cmd, "header") \in Items /\ Part(cmd, "payload") \in Items
    BY <1>3, PartIsItem DEF AnswerTest
  <2> QED
    BY <1>3, <2>1, StreamTest DEF AnswerTest
<1> QED
  BY <1>1, <1>2, <1>3

(* ... and the others leave it, and a package that main is writing, alone. *)
LEMMA Unwritten ==
    ASSUME Basic, [Next]_vars, ~WorkHeader, ~WorkPayload, ~AnswerTest, ~Restart
    PROVE  /\ Stream' = Stream
           /\ main' = "payload" <=> main = "payload"
           /\ main = "payload" => pkg' = pkg
<1> USE DEF Basic, Handshake
<1>1. CASE Transmit
  BY <1>1, StreamTransmit DEF Transmit
<1>3. CASE Listener
  BY <1>3 DEF Listener, FlushInput, ResetQueue, Receive, Drop, Accept, Stage, StageNothing, Add,
              Stream
<1>4. CASE uart_mole_init \/ Release
  BY <1>4 DEF uart_mole_init, Release, Stream
<1>5. CASE Client \/ PlugIn
  BY <1>5 DEF Client, Send, ReadHeader, ReadGarbage, ReadPayload, TimeOut, Reopen, PlugIn,
              deviceVars, Stream
<1>6. CASE UNCHANGED vars
  BY <1>6 DEF vars, deviceVars, Stream
<1> QED
  BY <1>1, <1>3, <1>4, <1>5, <1>6 DEF Next, Device, Main

(* The last packet is open while main is between its two writes. *)
Framing ==
    /\ main # "payload" => Framed(Stream, FALSE)
    /\ main = "payload" => /\ Framed(Stream, TRUE)
                           /\ Len(Stream) > 0 /\ Stream[Len(Stream)] = Part(pkg, "header")

LEMMA InitFraming == Init => Framing
<1> SUFFICES ASSUME Init PROVE Framing
  OBVIOUS
<1>1. Len(Stream) = 1 /\ Stream[1].part = "text"
  BY StreamInit, BootLogIsItem
<1> QED
  BY <1>1 DEF Framing, Framed, Init, DeviceInit

LEMMA StepFraming == Basic /\ Framing /\ [Next]_vars => Framing'
<1> SUFFICES ASSUME Basic, Framing, [Next]_vars PROVE Framing'
  OBVIOUS
<1>0. Stream \in Seq(Items)
  BY StreamType DEF Basic
<1>1. CASE WorkHeader
  <2>1. pkg \in Commands /\ main # "payload" /\ main' = "payload" /\ pkg' = pkg
    BY <1>1 DEF WorkHeader, Basic, Handshake, Pending
  <2>2. Stream' = Append(Stream, Part(pkg, "header"))
    BY <1>1, Written
  <2>3. Framed(Stream', TRUE)
    BY <1>0, <2>1, <2>2, FramedHeader DEF Framing
  <2>4. Len(Stream') > 0 /\ Stream'[Len(Stream')] = Part(pkg, "header")
    BY <1>0, <2>1, <2>2, AppendItem, PartIsItem
  <2> QED
    BY <2>1, <2>3, <2>4 DEF Framing
<1>2. CASE WorkPayload
  <2>1. pkg \in Commands /\ main = "payload" /\ main' # "payload"
    BY <1>2 DEF WorkPayload, Basic, Handshake, Pending
  <2>2. Stream' = Append(Stream, Part(pkg, "payload"))
    BY <1>2, Written
  <2>3. Framed(Stream', FALSE)
    BY <1>0, <2>1, <2>2, FramedPayload DEF Framing
  <2> QED
    BY <2>1, <2>3 DEF Framing
<1>3. CASE AnswerTest
  <2>1. cmd \in Commands /\ main # "payload" /\ main' # "payload"
    BY <1>3 DEF AnswerTest, Basic, Handshake
  <2> DEFINE s == Append(Stream, Part(cmd, "header"))
  <2>2. Framed(s, TRUE)
    BY <1>0, <2>1, FramedHeader DEF Framing
  <2>3. s \in Seq(Items) /\ Len(s) > 0 /\ s[Len(s)] = Part(cmd, "header")
    BY <1>0, <2>1, AppendItem, PartIsItem
  <2>4. Stream' = Append(s, Part(cmd, "payload"))
    BY <1>3, Written
  <2> HIDE DEF s
  <2>5. Framed(Stream', FALSE)
    BY <2>1, <2>2, <2>3, <2>4, FramedPayload
  <2> QED
    BY <2>1, <2>5 DEF Framing
<1>4. CASE Restart
  <2>1. Stream' = Append(Stream, BootLog) /\ main # "payload" /\ main' # "payload"
    BY <1>4, StreamRestart DEF Basic, Restart
  <2>2. Framed(Stream', FALSE)
    BY <1>0, <2>1, FramedBootLog DEF Framing
  <2> QED
    BY <2>1, <2>2 DEF Framing
<1>5. CASE ~WorkHeader /\ ~WorkPayload /\ ~AnswerTest /\ ~Restart
  <2>1. /\ Stream' = Stream
        /\ main' = "payload" <=> main = "payload"
        /\ main = "payload" => pkg' = pkg
    BY <1>5, Unwritten
  <2> QED
    BY <2>1 DEF Framing
<1> QED
  BY <1>1, <1>2, <1>3, <1>4, <1>5

(* The two tasks that write to the UART never cut a packet of each other,  *)
(* nor does a restart: the stream is whole packets, header and payload of  *)
(* the same package, and boot logs between them, for any number of         *)
(* commands and restarts (uart_mole.c:178-240, 473-493).                   *)
THEOREM StreamIsFramed == Spec => []WireFramed
<1>1. Framing => WireFramed
  BY DEF Framing, Framed, WireFramed
<1> QED
  BY <1>1, BasicAlways, InitFraming, StepFraming, PTL DEF Spec

-----------------------------------------------------------------------------
(* The order of the answers.  Request 0 is a glitch, which comes first. *)
Before(p, q) == q.from = 0 \/ p.from < q.from

(* The answer to command q can still be written at the end of the stream. *)
Ahead(q) ==
    /\ Below(Stream, q.from)
    /\ Pending => Before(pkg, q)
    /\ q.from <= requests

InHand == {"check", "build", "add"}

Order ==
    /\ Once(Stream) /\ Below(Stream, requests + 1)
    /\ pkg.from <= requests
    /\ listener \in {"check", "build"} => Ahead(cmd)
    /\ listener = "add" \/ (active /\ main = "loop") => Below(Stream, pkg.from)
    /\ main = "payload" =>
         pkg.from = 0 \/ \A i \in 1 .. Len(Stream) : i < Len(Stream) => Stream[i].from < pkg.from
    /\ \A k \in 1 .. Len(rx) : Ahead(rx[k]) /\ (listener \in InHand => Before(cmd, rx[k]))
    /\ \A k, l \in 1 .. Len(rx) : k < l => Before(rx[k], rx[l])

LEMMA InitOrder == Init => Order
<1> SUFFICES ASSUME Init PROVE Order
  OBVIOUS
<1>1. Len(Stream) = 1 /\ Stream[1].from = 0 /\ Len(rx) = 0
  BY StreamInit, BootLogIsItem DEF Init, DeviceInit
<1> QED
  BY <1>1 DEF Order, Once, Below, Init, DeviceInit, NoPkg

(* A later command stays ahead of the stream when pkg is written to it. *)
LEMMA WrittenBelow ==
    ASSUME Basic, NEW p \in Commands, NEW part \in {"header", "payload"}, NEW s \in Seq(Items),
           NEW f, Below(s, f), f = 0 \/ p.from < f
    PROVE  Below(Append(s, Part(p, part)), f)
<1> QED
  BY PartIsItem, BelowAppend

(* Commands come in behind those that are there. *)
LEMMA OrderArrive ==
    ASSUME Basic, Order, NEW bytes \in Seq(Commands), Arrive(bytes),
           requests' \in {requests, requests + 1},
           \A i \in 1 .. Len(bytes) :
               \/ bytes[i].from = 0
               \/ Len(bytes) = 1 /\ bytes[i].from = requests + 1 /\ requests' = requests + 1,
           UNCHANGED <<listener, cmd, pkg, active, main, tx, wire>>
    PROVE  Order'
<1>0. /\ Stream' = Stream /\ (Pending' <=> Pending)
      /\ requests \in Nat /\ requests' \in Nat /\ requests' >= requests
      /\ cmd.from \in Nat /\ pkg.from \in Nat
      /\ rx \in Seq(Commands) /\ Stream \in Seq(Items)
  BY StreamType DEF Stream, Pending, Basic, Typed, Packages, Commands, NoPkg
<1>1. \A i \in 1 .. Len(Stream) : Stream[i].from \in Nat /\ Stream[i].from <= requests
  <2>1. \A i \in 1 .. Len(Stream) : Stream[i] \in Items
    BY <1>0, ElementOfSeq
  <2> QED
    BY <1>0, <2>1, BootLogIsItem DEF Order, Below
<1>2. /\ pkg.from <= requests
      /\ listener \in InHand => cmd.from <= requests
      /\ listener \in {"check", "build"} => Ahead(cmd)
      /\ listener = "add" \/ (active /\ main = "loop") => Below(Stream, pkg.from)
      /\ main = "payload" =>
           pkg.from = 0 \/ \A i \in 1 .. Len(Stream) : i < Len(Stream) => Stream[i].from < pkg.from
  BY DEF Order, Ahead, InHand, Basic, Handshake
<1>3. /\ Len(rx) \in Nat
      /\ \A k \in 1 .. Len(rx) : rx[k].from \in Nat /\ Ahead(rx[k]) /\ rx[k].from <= requests
      /\ \A k \in 1 .. Len(rx) : listener \in InHand => Before(cmd, rx[k])
      /\ \A k, l \in 1 .. Len(rx) : k < l => Before(rx[k], rx[l])
  <2>1. \A k \in 1 .. Len(rx) : rx[k] \in Commands
    BY <1>0, ElementOfSeq
  <2>2. \A k \in 1 .. Len(rx) : rx[k].from \in Nat
    BY <2>1 DEF Commands
  <2>3. \A k \in 1 .. Len(rx) : Ahead(rx[k]) /\ (listener \in InHand => Before(cmd, rx[k]))
    BY DEF Order
  <2>4. \A k \in 1 .. Len(rx) : rx[k].from <= requests
    BY <2>3 DEF Ahead
  <2>5. \A k, l \in 1 .. Len(rx) : k < l => Before(rx[k], rx[l])
    BY DEF Order
  <2> QED
    BY <1>0, <2>2, <2>3, <2>4, <2>5
<1>4. Below(Stream', requests' + 1) /\ Once(Stream')
  <2>1. \A i \in 1 .. Len(Stream) : Stream[i].from < requests' + 1
    BY <1>0, <1>1
  <2>2. Below(Stream, requests' + 1)
    BY <2>1 DEF Below
  <2>3. Once(Stream)
    BY DEF Order
  <2> QED
    BY <1>0, <2>2, <2>3
<1>5. ASSUME NEW q, Ahead(q), q.from \in Nat
      PROVE  Below(Stream', q.from) /\ (Pending' => Before(pkg', q)) /\ q.from <= requests'
  BY <1>0, <1>5 DEF Ahead
<1>6. listener \in {"check", "build"} => Ahead(cmd)'
  BY <1>0, <1>2, <1>5 DEF Ahead
<1>7. CASE rx' = rx
  <2>1. \A k \in 1 .. Len(rx') : Ahead(rx[k])' /\ (listener' \in InHand => Before(cmd', rx'[k]))
    BY <1>3, <1>5, <1>7 DEF Ahead
  <2>2. \A k, l \in 1 .. Len(rx') : k < l => Before(rx'[k], rx'[l])
    BY <1>3, <1>7
  <2> QED
    BY <1>0, <1>2, <1>4, <1>6, <2>1, <2>2 DEF Order
<1>8. CASE rx' = rx \o bytes
  <2>1. /\ Len(bytes) \in Nat /\ Len(rx') = Len(rx) + Len(bytes)
        /\ \A k \in 1 .. Len(rx) : rx'[k] = rx[k]
        /\ \A k \in 1 .. Len(rx') : k > Len(rx) => rx'[k] = bytes[k - Len(rx)]
    BY <1>0, <1>8, ConcatProperties
  <2>2. ASSUME NEW k \in 1 .. Len(rx'), k > Len(rx)
        PROVE  \/ rx'[k].from = 0
               \/ k = Len(rx') /\ rx'[k].from = requests + 1 /\ requests' = requests + 1
    <3>1. k - Len(rx) \in 1 .. Len(bytes) /\ rx'[k] = bytes[k - Len(rx)]
      BY <1>3, <2>1, <2>2
    <3>2. CASE bytes[k - Len(rx)].from = 0
      BY <3>1, <3>2
    <3>3. CASE /\ Len(bytes) = 1 /\ bytes[k - Len(rx)].from = requests + 1
               /\ requests' = requests + 1
      BY <1>3, <2>1, <3>1, <3>3
    <3> QED
      BY <3>1, <3>2, <3>3
  <2>3. ASSUME NEW k \in 1 .. Len(rx'), k > Len(rx)
        PROVE  Ahead(rx[k])' /\ (listener' \in InHand => Before(cmd', rx'[k]))
    <3>1. Below(Stream', rx'[k].from)
      BY <1>0, <1>1, <2>2, <2>3 DEF Below
    <3>2. Before(pkg', rx'[k]) /\ (listener' \in InHand => Before(cmd', rx'[k]))
      BY <1>0, <1>2, <2>2, <2>3 DEF Before
    <3>3. rx'[k].from <= requests'
      BY <1>0, <2>2, <2>3
    <3> QED
      BY <3>1, <3>2, <3>3 DEF Ahead
  <2>4. ASSUME NEW k \in 1 .. Len(rx)
        PROVE  Ahead(rx[k])' /\ (listener' \in InHand => Before(cmd', rx'[k]))
    <3>1. rx'[k] = rx[k]
      BY <2>1
    <3> QED
      BY <1>3, <1>5, <3>1 DEF Ahead
  <2>5. ASSUME NEW k \in 1 .. Len(rx'), NEW l \in 1 .. Len(rx'), k < l
        PROVE  Before(rx'[k], rx'[l])
    <3>1. CASE l <= Len(rx)
      <4>1. k \in 1 .. Len(rx) /\ l \in 1 .. Len(rx)
        BY <1>3, <2>1, <2>5, <3>1
      <4> QED
        BY <1>3, <2>1, <2>5, <4>1
    <3>2. CASE l > Len(rx) /\ k <= Len(rx)
      <4>1. k \in 1 .. Len(rx)
        BY <1>3, <2>1, <3>2
      <4>2. rx'[k].from <= requests /\ rx'[k].from \in Nat
        BY <1>3, <2>1, <4>1
      <4> QED
        BY <1>0, <2>2, <3>2, <4>2 DEF Before
    <3>3. CASE l > Len(rx) /\ k > Len(rx)
      <4>1. rx'[k].from = 0 \/ k = Len(rx')
        BY <2>2, <3>3
      <4>2. rx'[l].from = 0 \/ rx'[l].from = requests + 1
        BY <2>2, <3>3
      <4>3. k # Len(rx')
        BY <1>3, <2>1, <2>5
      <4> QED
        BY <1>0, <4>1, <4>2, <4>3 DEF Before
    <3> QED
      BY <1>3, <2>1, <3>1, <3>2, <3>3
  <2>6. \A k \in 1 .. Len(rx') : Ahead(rx[k])' /\ (listener' \in InHand => Before(cmd', rx'[k]))
    <3> SUFFICES ASSUME NEW k \in 1 .. Len(rx')
                 PROVE  Ahead(rx[k])' /\ (listener' \in InHand => Before(cmd', rx'[k]))
      OBVIOUS
    <3>1. k > Len(rx) \/ k \in 1 .. Len(rx)
      BY <1>3, <2>1
    <3> QED
      BY <2>3, <2>4, <3>1
  <2> QED
    BY <1>0, <1>2, <1>4, <1>6, <2>5, <2>6 DEF Order
<1> QED
  BY <1>7, <1>8, ArriveFacts DEF Basic

LEMMA OrderTypes ==
    ASSUME Basic
    PROVE  /\ Stream \in Seq(Items) /\ Len(Stream) \in Nat
           /\ \A i \in 1 .. Len(Stream) : Stream[i].from \in Nat
           /\ rx \in Seq(Commands) /\ requests \in Nat
           /\ cmd \in Packages /\ cmd.from \in Nat /\ pkg \in Packages /\ pkg.from \in Nat
<1>1. Stream \in Seq(Items) /\ Len(Stream) \in Nat
  BY StreamType DEF Basic
<1>2. \A i \in 1 .. Len(Stream) : Stream[i] \in Items
  BY <1>1, ElementOfSeq
<1>3. \A p \in Packages : p.from \in Nat
  BY DEF Packages, Commands, NoPkg
<1> QED
  BY <1>1, <1>2, <1>3, BootLogIsItem DEF Basic, Typed

(* The three writers. *)
LEMMA OrderHeader ==
    ASSUME Basic, Order, WorkHeader, requests' = requests
    PROVE  Order'
<1>1. /\ pkg \in Commands /\ active /\ main = "loop" /\ main' = "payload"
      /\ listener \notin {"build", "add"}
      /\ UNCHANGED <<rx, listener, cmd, pkg, active>>
  BY DEF WorkHeader, Basic, Handshake, Pending
<1>2. Pending /\ Pending' /\ Below(Stream, pkg.from)
  BY <1>1 DEF Pending, Order
<1>3. Stream' = Append(Stream, Part(pkg, "header"))
  BY Written
<1>4. ASSUME NEW f, Below(Stream, f), f = 0 \/ pkg.from < f PROVE Below(Stream', f)
  BY <1>1, <1>3, <1>4, OrderTypes, WrittenBelow
<1>5. Once(Stream')
  <2>1. \A i \in 1 .. Len(Stream) : pkg.from > 0 => Stream[i].from < pkg.from
    BY <1>2 DEF Below
  <2>2. Once(Stream) /\ Part(pkg, "header") \in Items /\ Part(pkg, "header").from = pkg.from
    BY <1>1, PartIsItem DEF Order
  <2> QED
    BY <1>3, <2>1, <2>2, OrderTypes, OnceAppend
<1>6. Below(Stream', requests' + 1) /\ pkg'.from <= requests'
  <2>1. Below(Stream, requests + 1) /\ pkg.from <= requests
    BY DEF Order
  <2> QED
    BY <1>1, <1>4, <2>1, OrderTypes
<1>7. ASSUME NEW q, Ahead(q)
      PROVE  Below(Stream', q.from) /\ Before(pkg', q) /\ q.from <= requests'
  <2>1. Below(Stream, q.from) /\ Before(pkg, q) /\ q.from <= requests
    BY <1>2, <1>7 DEF Ahead
  <2> QED
    BY <1>1, <1>4, <2>1 DEF Before
<1>8. listener' \in {"check", "build"} => Ahead(cmd)'
  BY <1>1, <1>7 DEF Order, Ahead
<1>9. pkg'.from = 0 \/ \A i \in 1 .. Len(Stream') : i < Len(Stream') => Stream'[i].from < pkg'.from
  <2>1. \A i \in 1 .. Len(Stream) : Stream'[i] = Stream[i]
    BY <1>1, <1>3, OrderTypes, PartIsItem, AppendItem
  <2>2. Len(Stream') = Len(Stream) + 1
    BY <1>1, <1>3, OrderTypes, PartIsItem, AppendItem
  <2>3. pkg.from = 0 \/ \A i \in 1 .. Len(Stream) : Stream[i].from < pkg.from
    BY <1>2 DEF Below
  <2> QED
    BY <1>1, <2>1, <2>2, <2>3, OrderTypes
<1>10. /\ \A k \in 1 .. Len(rx') : Ahead(rx[k])' /\ (listener' \in InHand => Before(cmd', rx'[k]))
       /\ \A k, l \in 1 .. Len(rx') : k < l => Before(rx'[k], rx'[l])
  BY <1>1, <1>7 DEF Order, Ahead
<1> QED
  BY <1>1, <1>5, <1>6, <1>8, <1>9, <1>10 DEF Order

LEMMA OrderPayload ==
    ASSUME Basic, Framing, Order, WorkPayload, requests' = requests
    PROVE  Order'
<1>1. /\ pkg \in Commands /\ active /\ main = "payload" /\ main' \in {"drain", "done"}
      /\ listener \notin {"build", "add"} /\ pkg' = NoPkg
      /\ UNCHANGED <<rx, listener, cmd, active>>
  BY DEF WorkPayload, Basic, Handshake, Pending
<1>2. Pending /\ ~Pending' /\ pkg'.from = 0
  BY <1>1 DEF Pending, NoPkg
<1>3. Stream' = Append(Stream, Part(pkg, "payload"))
  BY Written
<1>4. ASSUME NEW f, Below(Stream, f), f = 0 \/ pkg.from < f PROVE Below(Stream', f)
  BY <1>1, <1>3, <1>4, OrderTypes, WrittenBelow
<1>5. Once(Stream')
  <2>1. \A i \in 1 .. Len(Stream) :
          pkg.from > 0 /\ Stream[i].part = "payload" => Stream[i].from < pkg.from
    <3>1. Stream[Len(Stream)].part = "header"
      BY <1>1, PartIsItem DEF Framing
    <3>2. pkg.from = 0 \/ \A i \in 1 .. Len(Stream) : i < Len(Stream) => Stream[i].from < pkg.from
      BY <1>1 DEF Order
    <3> QED
      BY <3>1, <3>2, OrderTypes
  <2>2. /\ Once(Stream) /\ Part(pkg, "payload") \in Items
        /\ Part(pkg, "payload").from = pkg.from /\ Part(pkg, "payload").part = "payload"
    BY <1>1, PartIsItem DEF Order
  <2> QED
    BY <1>3, <2>1, <2>2, OrderTypes, OnceAppend
<1>6. Below(Stream', requests' + 1) /\ pkg'.from <= requests'
  <2>1. Below(Stream, requests + 1) /\ pkg.from <= requests
    BY DEF Order
  <2> QED
    BY <1>2, <1>4, <2>1, OrderTypes
<1>7. ASSUME NEW q, Ahead(q) PROVE Below(Stream', q.from) /\ q.from <= requests'
  <2>1. Below(Stream, q.from) /\ Before(pkg, q) /\ q.from <= requests
    BY <1>2, <1>7 DEF Ahead
  <2> QED
    BY <1>4, <2>1 DEF Before
<1>8. listener' \in {"check", "build"} => Ahead(cmd)'
  BY <1>1, <1>2, <1>7 DEF Order, Ahead
<1>9. /\ \A k \in 1 .. Len(rx') : Ahead(rx[k])' /\ (listener' \in InHand => Before(cmd', rx'[k]))
      /\ \A k, l \in 1 .. Len(rx') : k < l => Before(rx'[k], rx'[l])
  BY <1>1, <1>2, <1>7 DEF Order, Ahead
<1> QED
  BY <1>1, <1>5, <1>6, <1>8, <1>9 DEF Order

LEMMA OrderTest ==
    ASSUME Basic, Order, AnswerTest, requests' = requests
    PROVE  Order'
<1> DEFINE s == Append(Stream, Part(cmd, "header"))
<1>1. /\ cmd \in Commands /\ ~active /\ main = "loop" /\ listener = "build"
      /\ listener' = "wait" /\ UNCHANGED <<rx, pkg, active, main>> /\ cmd' = NoPkg
  BY DEF AnswerTest, ToWait, Basic, Typed, Handshake
<1>2. ~Pending' /\ Ahead(cmd)
  BY <1>1 DEF Pending, Order
<1>3. /\ Stream' = Append(s, Part(cmd, "payload")) /\ s \in Seq(Items)
      /\ Part(cmd, "header") \in Items /\ Part(cmd, "payload") \in Items
      /\ Part(cmd, "header").part = "header" /\ Part(cmd, "header").from = cmd.from
      /\ Part(cmd, "payload").part = "payload" /\ Part(cmd, "payload").from = cmd.from
  BY <1>1, Written, OrderTypes, PartIsItem, AppendItem
<1>4. ASSUME NEW f, Below(Stream, f), f = 0 \/ cmd.from < f PROVE Below(Stream', f)
  <2>1. Below(s, f)
    BY <1>1, <1>4, OrderTypes, WrittenBelow
  <2> HIDE DEF s
  <2> QED
    BY <1>1, <1>3, <1>4, <2>1, WrittenBelow
<1>5. Once(Stream')
  <2>1. \A i \in 1 .. Len(Stream) : cmd.from > 0 => Stream[i].from < cmd.from
    BY <1>2 DEF Ahead, Below
  <2>2. Once(s)
    BY <1>3, <2>1, OrderTypes, OnceAppend DEF Order
  <2>3. \A i \in 1 .. Len(s) :
          cmd.from > 0 /\ s[i].part = "payload" => s[i].from < cmd.from
    BY <1>3, <2>1, OrderTypes, AppendItem
  <2> HIDE DEF s
  <2> QED
    BY <1>3, <2>2, <2>3, OnceAppend
<1>6. Below(Stream', requests' + 1) /\ pkg'.from <= requests'
  <2>1. Below(Stream, requests + 1) /\ cmd.from <= requests /\ pkg.from <= requests
    BY <1>2 DEF Order, Ahead
  <2> QED
    BY <1>1, <1>4, <2>1, OrderTypes
<1>7. ASSUME NEW k \in 1 .. Len(rx) PROVE Ahead(rx[k])'
  <2>1. Below(Stream, rx[k].from) /\ Before(cmd, rx[k]) /\ rx[k].from <= requests
    BY <1>1 DEF Order, Ahead, InHand
  <2>2. Below(Stream', rx[k].from)
    BY <1>4, <2>1 DEF Before
  <2> QED
    BY <1>1, <1>2, <2>1, <2>2 DEF Ahead
<1>8. \A k, l \in 1 .. Len(rx') : k < l => Before(rx'[k], rx'[l])
  BY <1>1 DEF Order
<1> QED
  BY <1>1, <1>5, <1>6, <1>7, <1>8 DEF Order, InHand

(* The boot log answers nothing, and no command survives the restart. *)
LEMMA OrderRestart ==
    ASSUME Basic, Order, Restart, requests' = requests
    PROVE  Order'
<1>1. /\ Len(rx') = 0 /\ pkg'.from = 0 /\ listener' = "off" /\ main' = "loop" /\ ~active'
  BY DEF Restart, NoPkg
<1>2. Stream' = Append(Stream, BootLog) /\ BootLog \in Items /\ BootLog.from = 0
  BY StreamRestart, BootLogIsItem DEF Basic
<1>3. Below(Stream', requests' + 1)
  <2>1. Below(Stream, requests + 1) /\ requests \in Nat
    BY OrderTypes DEF Order
  <2> QED
    BY <1>2, <2>1, OrderTypes, BelowAppend
<1>4. Once(Stream')
  BY <1>2, OrderTypes, OnceAppend DEF Order
<1> QED
  BY <1>1, <1>3, <1>4, OrderTypes DEF Order, InHand

(* The steps that write nothing and bring no command. *)
LEMMA OrderQuiet ==
    ASSUME Basic, Order, requests' = requests,
           FlushInput \/ ResetQueue \/ Receive \/ Drop \/ Accept \/ Stage \/ StageNothing \/ Add
             \/ uart_mole_init \/ Release \/ Transmit
    PROVE  Order'
<1>0. Stream' = Stream
  <2>1. CASE Transmit
    BY <2>1, StreamTransmit DEF Basic
  <2> QED
    BY <2>1 DEF FlushInput, ResetQueue, Receive, Drop, Accept, Stage, StageNothing, Add,
                      uart_mole_init, Release, Stream
<1>1. Once(Stream') /\ Below(Stream', requests' + 1)
  BY <1>0 DEF Order
<1> USE DEF Order, Ahead, Pending, InHand
<1>2. CASE FlushInput \/ ResetQueue \/ uart_mole_init \/ Transmit
  BY <1>0, <1>1, <1>2 DEF FlushInput, ResetQueue, uart_mole_init, Transmit
<1>3. CASE Drop \/ Accept \/ StageNothing
  BY <1>0, <1>1, <1>3 DEF Drop, Accept, StageNothing, ToWait
<1>4. CASE Release
  BY <1>0, <1>1, <1>4 DEF Release, Basic, Handshake
<1>6. CASE Stage
  <2>1. /\ listener = "build" /\ listener' = "add" /\ ~active /\ main = "loop" /\ pkg' = cmd
        /\ UNCHANGED <<rx, cmd, active, main>>
    BY <1>6 DEF Stage, Basic, Typed, Handshake
  <2> QED
    BY <1>0, <1>1, <2>1
<1>7. CASE Add
  <2>1. /\ listener = "add" /\ listener' = "wait" /\ active' /\ main = "loop" /\ pkg = cmd
        /\ UNCHANGED <<rx, pkg, main>>
    BY <1>7 DEF Add, ToWait, Basic, Typed, Handshake
  <2> QED
    BY <1>0, <1>1, <2>1
<1>8. CASE Receive
  <2>1. listener = "wait" /\ UNCHANGED <<pkg, active, main>>
    BY <1>8 DEF Receive
  <2>2. CASE rx = <<>>
    BY <1>0, <1>1, <1>8, <2>2 DEF Receive
  <2>3. CASE rx # <<>>
    <3>1. rx' = Tail(rx) /\ cmd' = rx[1] /\ listener' = "check"
      BY <1>8, <2>3, HeadTailProperties, OrderTypes DEF Receive
    <3>2. /\ Len(rx) \in Nat /\ Len(rx) > 0 /\ Len(rx') = Len(rx) - 1
          /\ \A k \in 1 .. Len(rx') : rx'[k] = rx[k + 1]
      BY <2>3, <3>1, HeadTailProperties, OrderTypes
    <3>3. \A k \in 1 .. Len(rx) : Ahead(rx[k])
      OBVIOUS
    <3>4. Ahead(cmd)'
      BY <1>0, <2>1, <3>1, <3>2, <3>3
    <3>5. ASSUME NEW k \in 1 .. Len(rx')
          PROVE  Ahead(rx[k])' /\ Before(cmd', rx'[k])
      <4>1. rx'[k] = rx[k + 1] /\ k + 1 \in 1 .. Len(rx) /\ 1 \in 1 .. Len(rx) /\ 1 < k + 1
        BY <3>2
      <4>2. Ahead(rx[k])'
        BY <1>0, <2>1, <3>3, <4>1
      <4>3. Before(rx[1], rx[k + 1])
        BY <4>1
      <4> QED
        BY <3>1, <4>1, <4>2, <4>3
    <3>6. ASSUME NEW k \in 1 .. Len(rx'), NEW l \in 1 .. Len(rx'), k < l
          PROVE  Before(rx'[k], rx'[l])
      BY <3>2, <3>6
    <3>7. pkg'.from <= requests' /\ (active' /\ main' = "loop" => Below(Stream', pkg'.from))
      BY <1>0, <2>1
    <3>8. main' = "payload" =>
            pkg'.from = 0 \/ \A i \in 1 .. Len(Stream') : i < Len(Stream') => Stream'[i].from < pkg'.from
      BY <1>0, <2>1
    <3> QED
      BY <1>1, <3>1, <3>4, <3>5, <3>6, <3>7, <3>8
  <2> QED
    BY <2>2, <2>3
<1> QED
  BY <1>2, <1>3, <1>4, <1>6, <1>7, <1>8

LEMMA StepOrder == Basic /\ Framing /\ Order /\ [Next]_vars => Order'
<1> SUFFICES ASSUME Basic, Framing, Order, [Next]_vars PROVE Order'
  OBVIOUS
<1>1. ASSUME Device, UNCHANGED clientVars PROVE Order'
  <2>1. requests' = requests
    BY <1>1 DEF clientVars
  <2> QED
    BY <1>1, <2>1, OrderHeader, OrderPayload, OrderTest, OrderRestart, OrderQuiet DEF Device, Listener, Main
<1>2. ASSUME NEW t \in Tags, Send(t) PROVE Order'
  <2> DEFINE bytes == <<[tag |-> t, from |-> requests + 1]>>
  <2>1. /\ requests' = requests + 1 /\ bytes \in Seq(Commands) /\ Arrive(bytes)
        /\ UNCHANGED <<listener, cmd, pkg, active, main, tx, wire>>
    BY <1>2, SentCommand
  <2>2. Len(bytes) = 1 /\ \A i \in 1 .. Len(bytes) : bytes[i].from = requests + 1
    OBVIOUS
  <2> HIDE DEF bytes
  <2> QED
    BY <2>1, <2>2, OrderArrive
<1>3. CASE PlugIn
  <2>1. PICK bytes \in Seq(Commands) :
          /\ \A i \in 1 .. Len(bytes) : bytes[i].from = 0
          /\ Arrive(bytes)
          /\ UNCHANGED <<listener, cmd, pkg, active, main, tx, wire, requests>>
    BY <1>3, PluggedIn
  <2> QED
    BY <2>1, OrderArrive
<1>4. ASSUME UNCHANGED <<rx, listener, cmd, pkg, active, main, tx, wire, requests>> PROVE Order'
  BY <1>4 DEF Order, Ahead, Pending, Stream
<1>5. CASE Reading
  BY <1>4, <1>5, ReadingLeavesDevice
<1>6. CASE UNCHANGED vars
  BY <1>4, <1>6 DEF vars, deviceVars, clientVars
<1> QED
  BY <1>1, <1>2, <1>3, <1>5, <1>6 DEF Next, Client, Reading

(* No command is answered twice, and no answer overtakes another, for any  *)
(* number of commands, glitches and restarts (uart_mole.c:247-249,         *)
(* 297-301).                                                               *)
THEOREM AnswersInOrder == Spec => []AnsweredOnce
<1>1. Order => AnsweredOnce
  BY DEF Order, Once, AnsweredOnce
<1>2. Init => Framing /\ Order
  BY InitFraming, InitOrder
<1>3. Basic /\ (Framing /\ Order) /\ [Next]_vars => (Framing /\ Order)'
  BY StepFraming, StepOrder
<1> QED
  BY <1>1, <1>2, <1>3, BasicAlways, PTL DEF Spec

-----------------------------------------------------------------------------
(* Answers to RESTART in a stream. *)
Acks(s) == {i \in 1 .. Len(s) : s[i].tag = "RESTART" /\ s[i].part = "payload"}

LEMMA AcksFinite ==
    ASSUME NEW s \in Seq(Items)
    PROVE  IsFiniteSet(Acks(s)) /\ Cardinality(Acks(s)) \in Nat
<1>1. IsFiniteSet(1 .. Len(s))
  BY FS_Interval
<1> QED
  BY <1>1, FS_Subset, FS_CardinalityType DEF Acks

LEMMA AcksAppend ==
    ASSUME NEW s \in Seq(Items), NEW e \in Items
    PROVE  /\ Cardinality(Acks(s)) <= Cardinality(Acks(Append(s, e)))
           /\ e.tag = "RESTART" /\ e.part = "payload"
              => Cardinality(Acks(Append(s, e))) = Cardinality(Acks(s)) + 1
<1>1. /\ Append(s, e) \in Seq(Items) /\ Len(s) \in Nat /\ Len(Append(s, e)) = Len(s) + 1
      /\ \A i \in 1 .. Len(s) : Append(s, e)[i] = s[i]
      /\ Append(s, e)[Len(s) + 1] = e
  BY AppendItem
<1>2. Acks(s) \subseteq Acks(Append(s, e))
  BY <1>1 DEF Acks
<1>3. Cardinality(Acks(s)) <= Cardinality(Acks(Append(s, e)))
  BY <1>1, <1>2, AcksFinite, FS_Subset
<1>4. ASSUME e.tag = "RESTART", e.part = "payload"
      PROVE  Cardinality(Acks(Append(s, e))) = Cardinality(Acks(s)) + 1
  <2>1. Acks(Append(s, e)) = Acks(s) \cup {Len(s) + 1}
    BY <1>1, <1>4 DEF Acks
  <2>2. Len(s) + 1 \notin Acks(s)
    BY <1>1 DEF Acks
  <2> QED
    BY <2>1, <2>2, AcksFinite, FS_AddElement
<1> QED
  BY <1>3, <1>4

LEMMA AcksStream == Typed => Cardinality(Acks(wire)) <= Cardinality(Acks(Stream))
<1> SUFFICES ASSUME Typed PROVE Cardinality(Acks(wire)) <= Cardinality(Acks(Stream))
  OBVIOUS
<1>1. wire \in Seq(Items) /\ tx \in Seq(Items) /\ Stream \in Seq(Items)
  BY StreamType DEF Typed
<1>2. /\ Len(wire) \in Nat /\ Len(tx) \in Nat /\ Len(Stream) = Len(wire) + Len(tx)
      /\ \A i \in 1 .. Len(wire) : Stream[i] = wire[i]
  BY <1>1, ConcatProperties DEF Stream
<1>3. Acks(wire) \subseteq Acks(Stream)
  BY <1>2 DEF Acks
<1> QED
  BY <1>1, <1>3, AcksFinite, FS_Subset

(* While main waits for the transmit buffer, the answer is in the stream. *)
Acked ==
    /\ restarts <= Cardinality(Acks(wire))
    /\ main = "drain" => restarts + 1 <= Cardinality(Acks(Stream))

LEMMA InitAcked == Init => Acked
<1> SUFFICES ASSUME Init PROVE Acked
  OBVIOUS
<1>1. restarts = 0 /\ main = "loop" /\ wire \in Seq(Items)
  BY StreamInit DEF Init, DeviceInit
<1> QED
  BY <1>1, AcksFinite DEF Acked

LEMMA StepAcked == Basic /\ Acked /\ [Next]_vars => Acked'
<1> SUFFICES ASSUME Basic, Acked, [Next]_vars PROVE Acked'
  OBVIOUS
<1>0. /\ wire \in Seq(Items) /\ Stream \in Seq(Items) /\ restarts \in Nat
      /\ Cardinality(Acks(wire)) \in Nat /\ Cardinality(Acks(Stream)) \in Nat
      /\ Cardinality(Acks(wire)) <= Cardinality(Acks(Stream))
  BY StreamType, AcksStream, AcksFinite DEF Basic, Typed
<1>1. CASE WorkPayload
  <2>1. pkg \in Commands /\ restarts' = restarts /\ wire' = wire
    BY <1>1 DEF WorkPayload, Basic, Handshake, Pending
  <2>2. main' = "drain" => pkg.tag = "RESTART"
    BY <1>1 DEF WorkPayload
  <2>3. Stream' = Append(Stream, Part(pkg, "payload"))
    BY <1>1, Written
  <2>4. pkg.tag = "RESTART" => Cardinality(Acks(Stream')) = Cardinality(Acks(Stream)) + 1
    BY <1>0, <2>1, <2>3, PartIsItem, AcksAppend
  <2> QED
    BY <1>0, <2>1, <2>2, <2>4 DEF Acked
<1>2. CASE Restart
  <2>1. Stream = wire
    BY <1>2, StreamRestart DEF Basic
  <2>2. /\ restarts' = restarts + 1 /\ main = "drain" /\ main' = "loop"
        /\ wire' = Append(wire, BootLog)
    BY <1>2 DEF Restart
  <2>3. Cardinality(Acks(wire)) <= Cardinality(Acks(wire'))
    BY <1>0, <2>2, BootLogIsItem, AcksAppend
  <2>4. Cardinality(Acks(wire')) \in Nat
    <3>1. wire' \in Seq(Items)
      BY StepBasic DEF Basic, Typed
    <3> QED
      BY <3>1, AcksFinite
  <2> QED
    BY <1>0, <2>1, <2>2, <2>3, <2>4 DEF Acked
<1>3. CASE Transmit
  <2>1. restarts' = restarts /\ main' = main
    BY <1>3 DEF Transmit
  <2>2. Stream' = Stream
    BY <1>3, StreamTransmit DEF Basic
  <2>3. Cardinality(Acks(wire)) <= Cardinality(Acks(wire'))
    <3>1. Head(tx) \in Items /\ wire' = Append(wire, Head(tx))
      BY <1>3, HeadTailProperties DEF Transmit, Basic, Typed
    <3> QED
      BY <1>0, <3>1, AcksAppend
  <2>4. Cardinality(Acks(wire')) \in Nat
    <3>1. wire' \in Seq(Items)
      BY StepBasic DEF Basic, Typed
    <3> QED
      BY <3>1, AcksFinite
  <2> QED
    BY <1>0, <2>1, <2>2, <2>3, <2>4 DEF Acked
<1>4. CASE ~WorkPayload /\ ~Restart /\ ~Transmit
  <2>1. restarts' = restarts /\ wire' = wire /\ (main' = "drain" => main = "drain")
    <3>1. CASE Listener
      BY <3>1 DEF Listener, FlushInput, ResetQueue, Receive, Drop, Accept, Stage, StageNothing,
                  Add, AnswerTest
    <3>2. CASE uart_mole_init \/ WorkHeader \/ Release
      BY <3>2 DEF uart_mole_init, WorkHeader, Release
    <3>3. CASE Client \/ PlugIn
      BY <3>3 DEF Client, Send, ReadHeader, ReadGarbage, ReadPayload, TimeOut, Reopen, PlugIn,
                  deviceVars
    <3>4. CASE UNCHANGED vars
      BY <3>4 DEF vars, deviceVars
    <3> QED
      BY <1>4, <3>1, <3>2, <3>3, <3>4 DEF Next, Device, Main
  <2>2. main' = "drain" => Stream' = Stream
    <3>1. CASE WorkHeader
      BY <3>1 DEF WorkHeader
    <3>2. CASE AnswerTest
      BY <3>2 DEF AnswerTest, Basic, Handshake
    <3> QED
      BY <1>4, <3>1, <3>2, Unwritten
  <2> QED
    BY <1>0, <2>1, <2>2 DEF Acked
<1> QED
  BY <1>1, <1>2, <1>3, <1>4

(* The client has been sent the whole answer to every RESTART that was     *)
(* carried out, however often that happens (uart_mole.c:204-212).          *)
THEOREM RestartsAreAcknowledged == Spec => []RestartAcknowledged
<1>1. Acked => RestartAcknowledged
  BY DEF Acked, Acks, RestartAcknowledged
<1> QED
  BY <1>1, BasicAlways, InitAcked, StepAcked, PTL DEF Spec
-----------------------------------------------------------------------------
(* The client reads the answer to its own request: as long as it is clean, *)
(* its request is all there is between it and main, in one place, and what *)
(* it has not read is the answer, if anything, and boot logs behind it.    *)
Request == [tag |-> asked, from |-> requests]

(* No command is left in the ring buffer once it has been flushed. *)
NoneReceived == rx = <<>> \/ listener \in {"off", "flush"}

(* The device has nothing to answer, ... *)
Quiet == NoneReceived /\ listener \notin InHand /\ ~Pending

(* ... has the request in one place and has written nothing of the answer, ... *)
Holding ==
    \/ rx = <<Request>> /\ listener \in {"reset", "wait"} /\ ~Pending
    \/ NoneReceived /\ listener \in InHand /\ cmd = Request /\ ~Pending
    \/ NoneReceived /\ listener \notin InHand /\ active /\ main = "loop" /\ pkg = Request

(* ... or is between the two writes of the answer. *)
Writing == NoneReceived /\ listener \notin InHand /\ main = "payload" /\ pkg = Request

(* n items are not read yet; n items and then only boot logs. *)
Exact(n) == Len(Stream) = read + n

Unread(n) ==
    /\ Len(Stream) >= read + n
    /\ \A i \in 1 .. Len(Stream) : i > read + n => Stream[i].part = "text"

Alone ==
    /\ client = "prompt" => Quiet /\ Unread(0)
    /\ client = "header" =>
         \/ Holding /\ Exact(0)
         \/ Quiet /\ Unread(0)
         \/ Writing /\ Exact(1) /\ Stream[read + 1] = Part(Request, "header")
         \/ /\ Quiet /\ Unread(2)
            /\ Stream[read + 1] = Part(Request, "header")
            /\ Stream[read + 2] = Part(Request, "payload")
    /\ client = "payload" =>
         /\ header = Request
         /\ \/ Writing /\ Exact(0)
            \/ Quiet /\ Unread(1) /\ Stream[read + 1] = Part(Request, "payload")

ShownMatches ==
    shown # NoAnswer => shown.tag = shown.asked /\ shown.from = shown.to

ClientTyped ==
    /\ client \in {"prompt", "header", "payload"}
    /\ read \in Nat /\ read <= Len(wire)
    /\ clean \in BOOLEAN
    /\ client # "prompt" => asked \in Tags /\ requests > 0

Exchange == ClientTyped /\ (clean => Alone /\ ShownMatches)

LEMMA InitExchange == Init => Exchange
<1> SUFFICES ASSUME Init PROVE Exchange
  OBVIOUS
<1>1. Len(Stream) = 1 /\ Len(wire) = 1 /\ Stream[1].part = "text"
  BY StreamInit, BootLogIsItem
<1> QED
  BY <1>1 DEF Init, DeviceInit, Exchange, ClientTyped, Alone, ShownMatches, Quiet, NoneReceived,
              InHand, Pending, Unread

(* What has been sent is the beginning of the stream. *)
LEMMA StreamLength ==
    ASSUME Typed
    PROVE  /\ Len(Stream) \in Nat /\ Len(wire) \in Nat /\ Len(wire) <= Len(Stream)
           /\ \A i \in 1 .. Len(wire) : Stream[i] = wire[i]
           /\ tx = <<>> => Len(Stream) = Len(wire)
           /\ Len(Stream) = Len(wire) + Len(tx)
<1>1. wire \in Seq(Items) /\ tx \in Seq(Items)
  BY DEF Typed
<1>2. Len(Stream) = Len(wire) + Len(tx) /\ \A i \in 1 .. Len(wire) : Stream[i] = wire[i]
  BY <1>1, ConcatProperties DEF Stream
<1>3. Len(wire) \in Nat /\ Len(tx) \in Nat /\ (tx = <<>> => Len(tx) = 0)
  BY <1>1, LenProperties
<1> QED
  BY <1>2, <1>3

(* What ends with n items ends with n items and no boot log. *)
LEMMA ExactIsUnread ==
    ASSUME NEW n \in Nat, Exact(n), Len(Stream) \in Nat, read \in Nat
    PROVE  Unread(n)
<1> QED
  BY DEF Exact, Unread

(* A boot log behind them changes nothing for the n items. *)
LEMMA LogAppended ==
    ASSUME NEW n \in Nat, Stream \in Seq(Items), read \in Nat, Unread(n),
           Stream' = Append(Stream, BootLog), read' = read
    PROVE  /\ Len(Stream') >= read' + n
           /\ \A i \in 1 .. Len(Stream') : i > read' + n => Stream'[i].part = "text"
           /\ \A i \in 1 .. read + n : Stream'[i] = Stream[i]
<1>1. /\ Len(Stream) \in Nat /\ Len(Stream') = Len(Stream) + 1
      /\ \A i \in 1 .. Len(Stream) : Stream'[i] = Stream[i]
      /\ Stream'[Len(Stream) + 1].part = "text"
  BY AppendItem, BootLogIsItem
<1> QED
  BY <1>1 DEF Unread

(* Steps of the device that write nothing move the request on or lose it. *)
LEMMA DeviceMoves ==
    ASSUME Basic, Device, UNCHANGED clientVars, ~WorkHeader, ~WorkPayload, ~AnswerTest,
           ~Restart
    PROVE  /\ Quiet => Quiet'
           /\ Holding => Holding' \/ Quiet'
           /\ Writing => Writing'
<1> USE DEF Quiet, Holding, Writing, NoneReceived, InHand, Pending
<1>0. Request' = Request
  BY DEF Request, clientVars
<1>1. CASE FlushInput
  BY <1>0, <1>1 DEF FlushInput
<1>2. CASE ResetQueue
  BY <1>0, <1>2 DEF ResetQueue
<1>3. CASE Receive
  <2>1. CASE rx = <<>>
    BY <1>0, <1>3, <2>1 DEF Receive
  <2>2. CASE rx # <<>>
    <3>1. listener = "wait" /\ listener' = "check" /\ rx' = Tail(rx) /\ cmd' = Head(rx)
          /\ UNCHANGED <<pkg, active, main>>
      BY <1>3, <2>2 DEF Receive
    <3>2. ~Quiet /\ ~Writing
      BY <2>2, <3>1
    <3>3. ASSUME Holding PROVE Holding'
      <4>1. rx = <<Request>> /\ ~Pending
        BY <2>2, <3>1, <3>3
      <4>2. rx' = <<>> /\ cmd' = Request
        BY <3>1, <4>1
      <4> QED
        BY <1>0, <3>1, <4>1, <4>2
    <3> QED
      BY <3>2, <3>3
  <2> QED
    BY <2>1, <2>2
<1>4. CASE Drop \/ StageNothing
  BY <1>0, <1>4 DEF Drop, StageNothing, ToWait
<1>5. CASE Accept
  BY <1>0, <1>5 DEF Accept
<1>6. CASE Stage
  BY <1>0, <1>6 DEF Stage, Basic, Handshake
<1>7. CASE Add
  BY <1>0, <1>7 DEF Add, ToWait, Basic, Handshake, Typed
<1>8. CASE uart_mole_init
  BY <1>0, <1>8 DEF uart_mole_init
<1>9. CASE Release
  BY <1>0, <1>9 DEF Release
<1>10. CASE Transmit
  BY <1>0, <1>10 DEF Transmit
<1> QED
  BY <1>1, <1>2, <1>3, <1>4, <1>5, <1>6, <1>7, <1>8, <1>9, <1>10
  DEF Device, Listener, Main

(* After a restart the device has nothing to answer, and main was not in    *)
(* the middle of an answer before it.                                       *)
LEMMA RestartIsQuiet == Restart => Quiet' /\ ~Writing
<1> QED
  BY DEF Restart, Quiet, Writing, NoneReceived, InHand, Pending

(* Steps that write have the request, and write of it. *)
LEMMA DeviceWrites ==
    ASSUME Basic, UNCHANGED clientVars
    PROVE  /\ WorkHeader => /\ ~Quiet /\ ~Writing
                            /\ Holding => Writing' /\ pkg = Request
           /\ WorkPayload => /\ ~Quiet /\ ~Holding
                             /\ Writing => Quiet' /\ pkg = Request
           /\ AnswerTest => /\ ~Quiet /\ ~Writing
                            /\ Holding => Quiet' /\ cmd = Request
<1> USE DEF Quiet, Holding, Writing, NoneReceived, InHand, Pending, Basic, Handshake
<1>0. Request' = Request
  BY DEF Request, clientVars
<1>1. ASSUME WorkHeader
      PROVE  ~Quiet /\ ~Writing /\ (Holding => Writing' /\ pkg = Request)
  BY <1>0, <1>1 DEF WorkHeader
<1>2. ASSUME WorkPayload
      PROVE  ~Quiet /\ ~Holding /\ (Writing => Quiet' /\ pkg = Request)
  BY <1>0, <1>2 DEF WorkPayload
<1>3. ASSUME AnswerTest
      PROVE  ~Quiet /\ ~Writing /\ (Holding => Quiet' /\ cmd = Request)
  BY <1>0, <1>3 DEF AnswerTest, ToWait
<1> QED
  BY <1>1, <1>2, <1>3

LEMMA DeviceAlone ==
    ASSUME Basic, ClientTyped, Alone, Device, UNCHANGED clientVars
    PROVE  Alone'
<1>0. /\ Request' = Request /\ UNCHANGED <<client, read, header>>
      /\ Stream \in Seq(Items) /\ Len(Stream) \in Nat /\ read \in Nat
  BY StreamType, StreamLength DEF Request, clientVars, Basic, ClientTyped
<1>1. CASE WorkHeader
  <2>1. /\ Stream' = Append(Stream, Part(pkg, "header"))
        /\ ~Quiet /\ ~Writing
        /\ Holding => Writing' /\ pkg = Request
    BY <1>1, Written, DeviceWrites
  <2>2. client = "header" /\ Holding /\ Exact(0)
    BY <2>1 DEF Alone, ClientTyped
  <2>3. Part(pkg, "header") \in Items
    BY <1>1, PartIsItem DEF WorkHeader, Basic, Handshake, Pending
  <2>4. Len(Stream') = read + 1 /\ Stream'[read + 1] = Part(Request, "header")
    BY <1>0, <2>1, <2>2, <2>3, AppendItem DEF Exact
  <2> QED
    BY <1>0, <2>1, <2>2, <2>4 DEF Alone, Exact
<1>2. CASE WorkPayload
  <2>1. /\ Stream' = Append(Stream, Part(pkg, "payload"))
        /\ ~Quiet /\ ~Holding
        /\ Writing => Quiet' /\ pkg = Request
    BY <1>2, Written, DeviceWrites
  <2>2. Part(pkg, "payload") \in Items
    BY <1>2, PartIsItem DEF WorkPayload, Basic, Handshake, Pending
  <2>3. /\ Len(Stream') = Len(Stream) + 1 /\ Stream'[Len(Stream) + 1] = Part(pkg, "payload")
        /\ \A i \in 1 .. Len(Stream) : Stream'[i] = Stream[i]
    BY <1>0, <2>1, <2>2, AppendItem
  <2>4. CASE client = "header"
    <3>1. Writing /\ Len(Stream) = read + 1 /\ Stream[read + 1] = Part(Request, "header")
      BY <2>1, <2>4 DEF Alone, Exact
    <3>2. /\ Len(Stream') = read + 2
          /\ Stream'[read + 1] = Part(Request, "header")
          /\ Stream'[read + 2] = Part(Request, "payload")
      BY <1>0, <2>1, <2>3, <3>1
    <3> QED
      BY <1>0, <2>1, <2>4, <3>1, <3>2 DEF Alone, Unread
  <2>5. CASE client = "payload"
    <3>1. Writing /\ Len(Stream) = read /\ header = Request
      BY <1>0, <2>1, <2>5 DEF Alone, Exact
    <3>2. Len(Stream') = read + 1 /\ Stream'[read + 1] = Part(Request, "payload")
      BY <2>1, <2>3, <3>1
    <3> QED
      BY <1>0, <2>1, <2>5, <3>1, <3>2 DEF Alone, Unread
  <2> QED
    BY <2>1, <2>4, <2>5 DEF Alone, ClientTyped
<1>3. CASE AnswerTest
  <2>1. /\ Stream' = Append(Append(Stream, Part(cmd, "header")), Part(cmd, "payload"))
        /\ ~Quiet /\ ~Writing
        /\ Holding => Quiet' /\ cmd = Request
    BY <1>3, Written, DeviceWrites
  <2>2. client = "header" /\ Holding /\ Exact(0)
    BY <2>1 DEF Alone, ClientTyped
  <2>3. Part(cmd, "header") \in Items /\ Part(cmd, "payload") \in Items
    BY <1>3, PartIsItem DEF AnswerTest, Basic, Handshake
  <2>4. /\ Append(Stream, Part(cmd, "header")) \in Seq(Items)
        /\ Len(Append(Stream, Part(cmd, "header"))) = read + 1
        /\ Append(Stream, Part(cmd, "header"))[read + 1] = Part(Request, "header")
    BY <1>0, <2>1, <2>2, <2>3, AppendItem DEF Exact
  <2>5. /\ Len(Stream') = read + 2
        /\ Stream'[read + 1] = Part(Request, "header")
        /\ Stream'[read + 2] = Part(Request, "payload")
    <3>1. read + 1 \in 1 .. read + 1 /\ (read + 1) + 1 = read + 2
      BY <1>0
    <3> QED
      BY <2>1, <2>2, <2>3, <2>4, <3>1, AppendItem
  <2> QED
    BY <1>0, <2>1, <2>2, <2>5 DEF Alone, Unread
<1>4. CASE Restart
  <2>1. Quiet' /\ ~Writing /\ Stream' = Append(Stream, BootLog) /\ read' = read
    BY <1>0, <1>4, RestartIsQuiet, StreamRestart DEF Basic
  <2>2. Exact(0) => Unread(0)
    BY <1>0, ExactIsUnread
  <2>3. Unread(0) => Unread(0)'
    BY <1>0, <2>1, LogAppended DEF Unread
  <2>4. Unread(1) => Unread(1)' /\ Stream'[read + 1] = Stream[read + 1]
    <3>1. read + 1 \in 1 .. read + 1
      BY <1>0
    <3> QED
      BY <1>0, <2>1, <3>1, LogAppended DEF Unread
  <2>5. Unread(2) => /\ Unread(2)'
                     /\ Stream'[read + 1] = Stream[read + 1]
                     /\ Stream'[read + 2] = Stream[read + 2]
    <3>1. read + 1 \in 1 .. read + 2 /\ read + 2 \in 1 .. read + 2
      BY <1>0
    <3> QED
      BY <1>0, <2>1, <3>1, LogAppended DEF Unread
  <2> QED
    BY <1>0, <2>1, <2>2, <2>3, <2>4, <2>5 DEF Alone
<1>5. CASE ~WorkHeader /\ ~WorkPayload /\ ~AnswerTest /\ ~Restart
  <2>1. /\ Quiet => Quiet'
        /\ Holding => Holding' \/ Quiet'
        /\ Writing => Writing'
    BY <1>5, DeviceMoves
  <2>2. Stream' = Stream
    BY <1>5, Unwritten DEF Next
  <2>3. /\ Unread(0)' = Unread(0) /\ Unread(1)' = Unread(1) /\ Unread(2)' = Unread(2)
        /\ Exact(0)' = Exact(0) /\ Exact(1)' = Exact(1)
    BY <1>0, <2>2 DEF Unread, Exact
  <2>4. Exact(0) => Unread(0)
    BY <1>0, ExactIsUnread
  <2> QED
    BY <1>0, <2>1, <2>2, <2>3, <2>4 DEF Alone
<1> QED
  BY <1>1, <1>2, <1>3, <1>4, <1>5

LEMMA DeviceExchange ==
    ASSUME Basic, Exchange, Device, UNCHANGED clientVars
    PROVE  Exchange'
<1>1. UNCHANGED <<client, asked, requests, read, shown, clean>>
  BY DEF clientVars
<1>2. Len(wire) \in Nat /\ Len(wire') \in Nat /\ Len(wire) <= Len(wire')
  <2>1. CASE Transmit
    <3>1. Head(tx) \in Items /\ wire \in Seq(Items) /\ wire' = Append(wire, Head(tx))
      BY <2>1, HeadTailProperties DEF Transmit, Basic, Typed
    <3> QED
      BY <3>1, AppendItem
  <2>2. CASE Listener \/ uart_mole_init \/ WorkHeader \/ WorkPayload \/ Release
    <3>1. wire' = wire
      BY <2>2 DEF Listener, FlushInput, ResetQueue, Receive, Drop, Accept, Stage, StageNothing,
         Add, AnswerTest, uart_mole_init, WorkHeader, WorkPayload, Release
    <3> QED
      BY <3>1, StreamLength DEF Basic
  <2>3. CASE Restart
    BY <2>3, BootLogIsItem, AppendItem DEF Restart, Basic, Typed
  <2> QED
    BY <2>1, <2>2, <2>3 DEF Device, Main
<1>3. ClientTyped'
  BY <1>1, <1>2 DEF Exchange, ClientTyped
<1>4. clean => Alone'
  BY DeviceAlone DEF Exchange
<1> QED
  BY <1>1, <1>3, <1>4 DEF Exchange, ShownMatches

(* The client asks at its prompt, when nothing is on its way. *)
LEMMA SendExchange ==
    ASSUME Basic, Exchange, NEW t \in Tags, Send(t)
    PROVE  Exchange'
<1>1. /\ client = "prompt" /\ client' = "header" /\ asked' = t /\ requests' = requests + 1
      /\ Arrive(<<[tag |-> t, from |-> requests + 1]>>)
      /\ UNCHANGED <<listener, pkg, active, main, tx, wire, read, shown>>
      /\ clean' = (clean /\ read = Len(wire) + Len(tx))
      /\ requests \in Nat
  BY DEF Send, Basic, Typed
<1>2. ClientTyped'
  BY <1>1 DEF Exchange, ClientTyped
<1>3. ASSUME clean' PROVE clean /\ Alone'
  <2>0. clean /\ read = Len(wire) + Len(tx)
    BY <1>1, <1>3
  <2>1. /\ Quiet /\ Exact(0)' /\ Unread(0)'
    <3>1. Quiet /\ Len(Stream) = read + 0 /\ Len(Stream) \in Nat /\ read \in Nat
      BY <1>1, <2>0, StreamLength DEF Exchange, ClientTyped, Alone, Basic
    <3>2. Stream' = Stream /\ read' = read
      BY <1>1 DEF Stream
    <3> QED
      BY <3>1, <3>2, ExactIsUnread DEF Exact, Unread
  <2>2. Request' = [tag |-> t, from |-> requests + 1] /\ (Pending' <=> Pending)
    BY <1>1 DEF Request, Pending
  <2>3. CASE listener \in {"off", "flush"}
    <3>1. Quiet'
      BY <1>1, <2>1, <2>2, <2>3 DEF Quiet, NoneReceived
    <3> QED
      BY <1>1, <2>0, <2>1, <3>1 DEF Alone
  <2>4. CASE listener \notin {"off", "flush"}
    <3>1. rx = <<>> /\ rx' = rx \o <<Request'>>
      BY <1>1, <2>1, <2>2, <2>4 DEF Arrive, Quiet, NoneReceived
    <3>2. rx' = <<Request'>>
      BY <3>1
    <3>3. listener' \in {"reset", "wait"}
      BY <1>1, <2>1, <2>4 DEF Quiet, InHand, Basic, Typed
    <3>4. Holding'
      BY <1>1, <2>1, <2>2, <3>2, <3>3 DEF Holding, Quiet
    <3> QED
      BY <1>1, <2>0, <2>1, <3>4 DEF Alone
  <2> QED
    BY <2>3, <2>4
<1>4. ShownMatches => ShownMatches'
  BY <1>1 DEF ShownMatches
<1> QED
  BY <1>1, <1>2, <1>3, <1>4 DEF Exchange

(* A break on the line is flushed, or the exchange is not clean any more. *)
LEMMA PlugInExchange ==
    ASSUME Basic, Exchange, PlugIn
    PROVE  Exchange'
<1>1. /\ client = "prompt" /\ clean' = (clean /\ listener \in {"off", "flush"})
      /\ UNCHANGED <<listener, pkg, active, main, tx, wire>>
      /\ UNCHANGED <<client, asked, requests, read, shown>>
  BY DEF PlugIn
<1>2. ClientTyped'
  BY <1>1 DEF Exchange, ClientTyped
<1>3. clean' => clean /\ Alone'
  <2> SUFFICES ASSUME clean' PROVE clean /\ Alone'
    OBVIOUS
  <2>1. clean /\ listener \in {"off", "flush"}
    BY <1>1
  <2>2. Quiet /\ Unread(0)
    BY <1>1, <2>1 DEF Exchange, Alone
  <2>3. Quiet' /\ Unread(0)'
    BY <1>1, <2>1, <2>2 DEF Quiet, NoneReceived, Pending, Unread, Stream
  <2> QED
    BY <1>1, <2>1, <2>3 DEF Alone
<1>4. ShownMatches => ShownMatches'
  BY <1>1 DEF ShownMatches
<1> QED
  BY <1>2, <1>3, <1>4 DEF Exchange

(* A device with nothing under way has nothing to answer. *)
LEMMA IdleIsQuiet == Basic /\ ~UnderWay => Quiet
<1>1. NoPkg \notin Commands
  BY DEF NoPkg, Commands, Tags
<1> QED
  BY <1>1 DEF UnderWay, Quiet, NoneReceived, InHand, Basic, Handshake

(* What the client reads is the answer to its request. *)
LEMMA ReadingExchange ==
    ASSUME Basic, Exchange, Reading
    PROVE  Exchange'
<1>1. UNCHANGED <<asked, requests, wire, tx, rx, listener, pkg, active, main, cmd>>
  BY ReadingLeavesDevice
  DEF Reading, ReadHeader, ReadGarbage, ReadPayload, TimeOut, Reopen
<1>2. Stream' = Stream /\ Request' = Request /\ (Quiet' <=> Quiet) /\ (Writing' <=> Writing)
  BY <1>1 DEF Stream, Request, Quiet, Writing, NoneReceived, Pending
<1>3. /\ Len(wire) \in Nat /\ Len(Stream) \in Nat /\ Len(wire) <= Len(Stream)
      /\ \A i \in 1 .. Len(wire) : Stream[i] = wire[i]
      /\ tx = <<>> => Len(Stream) = Len(wire)
      /\ read \in Nat /\ read <= Len(wire) /\ requests \in Nat
  BY StreamLength DEF Basic, Typed, Exchange, ClientTyped
<1>4. ASSUME Available
      PROVE  /\ read + 1 \in 1 .. Len(wire) /\ wire[read + 1] = Stream[read + 1] /\ ~Exact(0)
             /\ Unread(0) => wire[read + 1].part = "text"
  BY <1>3, <1>4 DEF Available, Exact, Unread
<1>5. CASE ReadHeader
  <2>1. /\ client = "header" /\ client' = "payload" /\ read' = read + 1 /\ Available
        /\ wire[read + 1].part = "header"
        /\ header' = [tag |-> wire[read + 1].tag, from |-> wire[read + 1].from]
        /\ UNCHANGED <<shown, clean>>
    BY <1>5 DEF ReadHeader
  <2>2. ClientTyped'
    BY <1>1, <1>3, <1>4, <2>1 DEF Exchange, ClientTyped
  <2>3. ASSUME clean PROVE Alone'
    <3>1. Stream[read + 1] = Part(Request, "header")
      BY <1>4, <2>1, <2>3 DEF Exchange, Alone
    <3>2. header' = Request
      BY <1>4, <2>1, <3>1 DEF Part, Request
    <3>3. CASE Writing /\ Exact(1)
      BY <1>2, <1>3, <2>1, <3>2, <3>3 DEF Alone, Exact
    <3>4. CASE Quiet /\ Unread(2) /\ Stream[read + 2] = Part(Request, "payload")
      <4>1. Unread(1)' /\ read' + 1 = read + 2
        BY <1>2, <1>3, <2>1, <3>4 DEF Unread
      <4> QED
        BY <1>2, <2>1, <3>2, <3>4, <4>1 DEF Alone
    <3> QED
      BY <1>4, <2>1, <2>3, <3>3, <3>4 DEF Exchange, Alone
  <2> QED
    BY <1>1, <2>1, <2>2, <2>3 DEF Exchange, ShownMatches
<1>6. CASE ReadGarbage
  <2>1. /\ client = "header" /\ Available /\ wire[read + 1].part # "header"
        /\ client' = "prompt" /\ read' \in read .. Len(wire)
        /\ UNCHANGED <<shown, clean>>
    BY <1>6 DEF ReadGarbage
  <2>2. ASSUME clean PROVE Quiet /\ Unread(0)
    <3>1. Stream[read + 1] # Part(Request, "header")
      BY <1>4, <2>1 DEF Part
    <3> QED
      BY <1>4, <2>1, <2>2, <3>1 DEF Exchange, Alone
  <2>3. ASSUME clean PROVE Alone'
    <3>1. Unread(0)'
      BY <1>2, <1>3, <2>1, <2>2, <2>3 DEF Unread
    <3> QED
      BY <1>2, <2>1, <2>2, <2>3, <3>1 DEF Alone
  <2>4. ClientTyped'
    BY <1>1, <1>3, <2>1 DEF Exchange, ClientTyped
  <2> QED
    BY <1>1, <2>1, <2>3, <2>4 DEF Exchange, ShownMatches
<1>7. CASE ReadPayload
  <2>1. /\ client = "payload" /\ Available /\ read' = read + 1 /\ client' = "prompt"
        /\ shown' = IF PayloadLength[header.tag] >= LeastLength[Decoder(header)]
                    THEN [asked |-> Decoder(header), to |-> requests,
                          tag |-> header.tag, from |-> header.from]
                    ELSE NoAnswer
        /\ UNCHANGED clean
    BY <1>7 DEF ReadPayload
  <2>2. ClientTyped'
    BY <1>1, <1>3, <1>4, <2>1 DEF Exchange, ClientTyped
  <2>3. ASSUME clean PROVE Alone' /\ ShownMatches'
    <3>1. header = Request /\ Quiet /\ Unread(1)
      BY <1>4, <2>1, <2>3 DEF Exchange, Alone
    <3>2. Unread(0)'
      BY <1>2, <1>3, <2>1, <3>1 DEF Unread
    <3>3. header.tag = asked /\ header.from = requests /\ Decoder(header) = asked
      BY <3>1 DEF Request, Decoder
    <3>4. ShownMatches'
      BY <1>1, <2>1, <3>3 DEF ShownMatches
    <3> QED
      BY <1>2, <2>1, <3>1, <3>2, <3>4 DEF Alone
  <2> QED
    BY <2>1, <2>2, <2>3 DEF Exchange
<1>8. CASE TimeOut
  <2>1. /\ ListenerIsThrough /\ client' = "prompt"
        /\ clean' = (clean /\ ~UnderWay /\ ~Available)
        /\ UNCHANGED <<read, shown>>
    BY <1>8 DEF TimeOut
  <2>2. ClientTyped'
    BY <1>1, <1>3, <2>1 DEF Exchange, ClientTyped
  <2>3. ASSUME clean' PROVE clean /\ Alone'
    <3>1. clean /\ ~UnderWay /\ tx = <<>> /\ ~Available
      BY <2>1, <2>3 DEF UnderWay
    <3>2. Exact(0)'
      BY <1>2, <1>3, <2>1, <3>1 DEF Available, Exact
    <3>3. Unread(0)'
      BY <1>2, <1>3, <2>1, <3>2 DEF Exact, Unread
    <3> QED
      BY <1>2, <2>1, <3>1, <3>3, IdleIsQuiet DEF Alone
  <2> QED
    BY <1>1, <2>1, <2>2, <2>3 DEF Exchange, ShownMatches
<1>9. CASE Reopen
  <2>1. /\ client = "prompt" /\ read' = Len(wire) /\ client' = client
        /\ shown' = NoAnswer /\ clean' = (clean \/ ~UnderWay)
    BY <1>9 DEF Reopen
  <2>2. ClientTyped'
    BY <1>1, <1>3, <2>1 DEF Exchange, ClientTyped
  <2>3. ASSUME clean' PROVE Alone'
    <3>1. CASE clean
      <4>1. Quiet /\ Unread(0)
        BY <2>1, <3>1 DEF Exchange, Alone
      <4>2. Unread(0)'
        BY <1>2, <1>3, <2>1, <4>1 DEF Unread
      <4> QED
        BY <1>2, <2>1, <4>1, <4>2 DEF Alone
    <3>2. CASE ~UnderWay
      <4>1. Unread(0)'
        BY <1>2, <1>3, <2>1, <3>2 DEF UnderWay, Unread
      <4> QED
        BY <1>2, <2>1, <3>2, <4>1, IdleIsQuiet DEF Alone
    <3> QED
      BY <2>1, <2>3, <3>1, <3>2
  <2> QED
    BY <2>1, <2>2, <2>3 DEF Exchange, ShownMatches
<1> QED
  BY <1>5, <1>6, <1>7, <1>8, <1>9 DEF Reading

LEMMA StepExchange == Basic /\ Exchange /\ [Next]_vars => Exchange'
<1> SUFFICES ASSUME Basic, Exchange, [Next]_vars PROVE Exchange'
  OBVIOUS
<1>1. ASSUME Device, UNCHANGED clientVars PROVE Exchange'
  BY <1>1, DeviceExchange
<1>2. ASSUME NEW t \in Tags, Send(t) PROVE Exchange'
  BY <1>2, SendExchange
<1>3. CASE PlugIn
  BY <1>3, PlugInExchange
<1>4. CASE Reading
  BY <1>4, ReadingExchange
<1>5. CASE UNCHANGED vars
  BY <1>5 DEF vars, deviceVars, clientVars, Exchange, ClientTyped, Alone, ShownMatches, Quiet,
     Holding, Writing, NoneReceived, Pending, Request, Unread, Exact, Stream
<1> QED
  BY <1>1, <1>2, <1>3, <1>4, <1>5 DEF Next, Client, Reading

(***************************************************************************)
(* A client that begins with a quiet line prints the answer to the very    *)
(* request it has just made, by the decoder for it, or none: no answer to  *)
(* an earlier request, no glitch and no boot log is taken for it, for any  *)
(* number of requests and restarts (uart_client.c:26-78).                  *)
(***************************************************************************)
THEOREM AnswersAlwaysMatch == Spec => []AnswersMatch
<1>1. Exchange => AnswersMatch
  BY DEF Exchange, ShownMatches, AnswersMatch
<1>2. Spec => []Exchange
  BY InitExchange, StepExchange, BasicAlways, PTL DEF Spec
<1> QED
  BY <1>1, <1>2, PTL
=============================================================================
