------------------------------ MODULE SdioPort ------------------------------
(***************************************************************************)
(* The ports of the SDIO driver that are read through a ring buffer: the   *)
(* AT port and the log port (skw_sdio_rx.c).  The RX thread stores the     *)
(* packets of the firmware, a reader takes bytes out and waits for more,   *)
(* and a channel whose buffer is nearly full is stopped by its bit in a    *)
(* register that all ports share.  Ports are opened and closed at any      *)
(* time, and the firmware crashes and starts over.  Chip SV6160 (V10) with *)
(* ADMA, as on the tablet.                                                 *)
(***************************************************************************)
EXTENDS Integers, Sequences, FiniteSets

CONSTANTS
    Length,         \* port->length: bytes in the ring
    Sizes,          \* what a read asks for
    Lens,           \* bytes in a packet
    MaxEvent        \* bound: packets, opens, closes, crashes and failed accesses
                    \* of the register

ASSUME SdioPortAssumption ==
    /\ {Length} \cup Sizes \cup Lens \subseteq Nat \ {0}
    /\ MaxEvent \in Nat

Ports == {"atc", "log"}

VARIABLES
    port,       \* sdio_ports: state, wp, rp, rx_done, rx_flow_ctrl, next_seqno
    ring,       \* read_buffer; a byte that was read is Free
    reader,     \* the reader of each port: its place, the size it asked for,
                \* what it got and the value it read from the register
    rx,         \* the RX thread: its place, the port, the value
    ftl,        \* SKW_SDIO_RX_CHANNEL_FTL0: the stopped channels
    cp_state,
    fw,         \* firmware: its state, the number of each port's next packet
    air,        \* packets on the way to the host
    odd, events     \* history and bound

vars == <<port, ring, reader, rx, ftl, cp_state, fw, air, odd, events>>

Free == <<0, 0>>
Packet(seqno, len) == [i \in 1..len |-> <<seqno, i>>]

Fresh == [state |-> "open", wp |-> 0, rp |-> 0, rx_done |-> FALSE,
          rx_flow_ctrl |-> FALSE, next_seqno |-> 1]

\* After the first boot: before the ports are opened, or when they are.
Init ==
    /\ \E opened \in {{}, Ports} :
           port = [p \in Ports |-> IF p \in opened THEN Fresh
                                  ELSE [Fresh EXCEPT !.state = "idle", !.next_seqno = 0]]
    /\ ring = [p \in Ports |-> [i \in 0..(Length - 1) |-> Free]]
    /\ reader = [p \in Ports |-> [pc |-> "idle", size |-> 0, got |-> <<>>, ftl |-> {}]]
    /\ rx = [pc |-> "idle", p |-> "atc", ftl |-> {}]
    /\ ftl = {} /\ cp_state = "run"
    /\ fw = [state |-> "up", seqno |-> [p \in Ports |-> 1]] /\ air = <<>>
    /\ odd = {} /\ events = 0

Trouble(what) ==
    /\ events < MaxEvent /\ events' = events + 1
    /\ odd' = odd \cup what

\* A place behind the end of the ring is one at its start.
PlaceLate(i) == IF i <= Length THEN i ELSE i - Length
Place(i) == IF i < Length THEN i ELSE i - Length

Used(p) == (Length + port[p].wp - port[p].rp) % Length
RoomIn(p) == Length - 1 - Used(p)
\* rx_mutex is held across the two accesses of the register.
Held(p) == reader[p].pc \in {"fread", "fwrite"} \/ (rx.p = p /\ rx.pc \in {"fread", "fwrite"})
Waiting(p) == Cardinality({i \in DOMAIN air : air[i].kind = "data" /\ air[i].p = p})
-----------------------------------------------------------------------------
\* open_sdio_port; neither the register nor the firmware is told.  (An open
\* in the middle of the two register accesses, which makes the mutex anew
\* under its holder, is left out.)
Open(p) ==
    /\ events < MaxEvent /\ events' = events + 1
    /\ port[p].state # "open" /\ ~Held(p)
    /\ port' = [port EXCEPT ![p] = Fresh]
    /\ ring' = [ring EXCEPT ![p] = [i \in 0..(Length - 1) |-> Free]]
    /\ odd' = (IF p = "atc" THEN odd \ {"deaf"} ELSE odd)
              \cup (IF p \in ftl THEN {"stopped"} ELSE {})
              \cup (IF p = "atc" /\ (fw.seqno[p] # 1 \/ Waiting(p) # 0) THEN {"deaf"} ELSE {})
    /\ UNCHANGED <<reader, rx, ftl, cp_state, fw, air>>

\* close_sdio_port
Close(p) ==
    /\ events < MaxEvent /\ events' = events + 1
    /\ port[p].state # "idle"
    /\ port' = [port EXCEPT ![p].state = "clse", ![p].next_seqno = 1, ![p].rx_done = TRUE]
    /\ UNCHANGED <<ring, reader, rx, ftl, cp_state, fw, air, odd>>
-----------------------------------------------------------------------------
\* recv_data, sdio_read
ReaderAt(p, pc) == reader[p].pc = pc
ReaderTo(p, pc) == reader' = [reader EXCEPT ![p].pc = pc]
ReaderOnly == UNCHANGED <<rx, cp_state, fw, air>>

\* A port whose firmware has crashed tells its reader; the log port is used on.
Asserted(p) == port[p].state = "asst" /\ cp_state # "run"
AfterAssert(p) == IF p = "log" THEN [port EXCEPT ![p].state = "open"] ELSE port

Read(p) ==
    /\ ReaderAt(p, "idle") /\ port[p].state # "idle"
    /\ \E size \in Sizes :
           LET ask(pc) == reader' = [reader EXCEPT ![p] = [pc |-> pc, size |-> size, got |-> <<>>, ftl |-> {}]]
           IN  IF port[p].state = "clse"
               THEN ask("idle") /\ port' = [port EXCEPT ![p].state = "idle"]
               ELSE IF Asserted(p)
               THEN ask("idle") /\ port' = AfterAssert(p)
               ELSE ask("try") /\ UNCHANGED port
    /\ UNCHANGED <<ring, ftl, odd, events>> /\ ReaderOnly

\* What was completed before is forgotten first, then the buffer is looked at -
\* and whether the port was closed, but not whether the firmware has crashed.
ReadTries(p) ==
    /\ ReaderAt(p, "try") /\ ReaderTo(p, "test")
    /\ port' = [port EXCEPT ![p].rx_done = FALSE]
    /\ odd' = IF port[p].state = "asst" THEN odd \cup {"missed"} ELSE odd
    /\ UNCHANGED <<ring, ftl, events>> /\ ReaderOnly

\* ReadTests before what was completed is forgotten.
ReadTestsFirst(p) ==
    /\ ReaderAt(p, "test")
    /\ ReaderTo(p, IF port[p].wp # port[p].rp THEN "take"
                   ELSE IF port[p].state = "clse" THEN "idle" ELSE "wait")
    /\ port' = [port EXCEPT ![p].rx_done = FALSE]
    /\ UNCHANGED <<ring, ftl, odd, events>> /\ ReaderOnly

ReadTests(p) ==
    /\ ReaderAt(p, "test")
    /\ ReaderTo(p, IF port[p].wp # port[p].rp THEN "take"
                   ELSE IF port[p].state = "clse" THEN "idle" ELSE "wait")
    /\ UNCHANGED <<port, ring, ftl, odd, events>> /\ ReaderOnly

ReadWoken(p) ==
    /\ ReaderAt(p, "wait") /\ port[p].rx_done
    /\ LET woken == [port EXCEPT ![p].rx_done = FALSE] IN
       IF port[p].state = "clse"
       THEN ReaderTo(p, "idle") /\ port' = [woken EXCEPT ![p].state = "idle"]
       ELSE IF Asserted(p)
       THEN ReaderTo(p, "idle") /\ port' = [woken EXCEPT ![p].state = AfterAssert(p)[p].state]
       ELSE ReaderTo(p, "take") /\ port' = woken
    /\ UNCHANGED <<ring, ftl, odd, events>> /\ ReaderOnly

LowerOf(a, b) == IF a < b THEN a ELSE b

\* A stopped channel goes on with two thirds of its buffer free.
MayGoOnEmpty(room) == room >= Length
MayGoOn(room) == room > (Length * 2) \div 3

\* Under rx_mutex: the bytes up to the end of the buffer, then those from its
\* start.  An empty buffer starts over at 0.
ReadTakes(p) ==
    /\ ReaderAt(p, "take") /\ ~Held(p)
    /\ LET n == LowerOf(reader[p].size, Used(p))
           place(i) == Place(port[p].rp + i)
           empty == place(n) = port[p].wp
           room == Length - 1 - ((Length + port[p].wp - place(n)) % Length)
           goesOn == port[p].rx_flow_ctrl /\ MayGoOn(room)
       IN  IF Used(p) = 0
           THEN ReaderTo(p, "try") /\ UNCHANGED <<port, ring>>
           ELSE /\ reader' = [reader EXCEPT ![p].pc = IF goesOn THEN "fread" ELSE "idle",
                                            ![p].got = [i \in 1..n |-> ring[p][place(i - 1)]]]
                /\ ring' = [ring EXCEPT ![p] = [j \in DOMAIN @ |->
                                IF j \in {place(i) : i \in 0..(n - 1)} THEN Free ELSE @[j]]]
                /\ port' = [port EXCEPT ![p].rp = IF empty THEN 0 ELSE place(n),
                                        ![p].wp = IF empty THEN 0 ELSE @,
                                        ![p].rx_flow_ctrl = @ /\ ~goesOn]
    /\ UNCHANGED <<ftl, odd, events>> /\ ReaderOnly

\* skw_sdio_rx_port_follow_ctl: the register is read and written; no lock keeps
\* the other ports out.  An access may fail, which nobody looks at.
ReadFtl(p) ==
    /\ ReaderAt(p, "fread")
    /\ \/ /\ reader' = [reader EXCEPT ![p].pc = "fwrite", ![p].ftl = ftl \ {p}]
          /\ UNCHANGED <<odd, events>>
       \/ ReaderTo(p, "idle") /\ Trouble({"bus"})
    /\ UNCHANGED <<port, ring, ftl>> /\ ReaderOnly

\* The bits of the other ports have been changed meanwhile.
Race(p, value) == IF ftl \ {p} # value \ {p} THEN {"race"} ELSE {}

ReadSetsFtl(p) ==
    /\ ReaderAt(p, "fwrite")
    /\ reader' = [reader EXCEPT ![p].pc = "idle", ![p].ftl = {}]
    /\ \/ /\ ftl' = reader[p].ftl /\ odd' = odd \cup Race(p, reader[p].ftl)
          /\ UNCHANGED events
       \/ Trouble({"bus"}) /\ UNCHANGED ftl
    /\ UNCHANGED <<port, ring>> /\ ReaderOnly
-----------------------------------------------------------------------------
\* The RX thread (skw_sdio_handle_packet)
Take(kind) == rx.pc = "idle" /\ air # <<>> /\ Head(air).kind = kind /\ air' = Tail(air)
RxTo(pc) == rx' = [rx EXCEPT !.pc = pc, !.ftl = {}]
RxOnly == UNCHANGED reader

\* One byte stays free: a full buffer would look empty.
Fits(p, len) == len <= RoomIn(p)

\* A packet that does not fit is dropped, and counted all the same.
DropUncounted(p) == UNCHANGED port
Drop(p) == port' = [port EXCEPT ![p].next_seqno = @ + 1]

\* A packet out of its turn is dropped too, though not on the log port.
RxData ==
    /\ Take("data")
    /\ LET d == Head(air)  p == d.p  q == port[p]
           place(i) == Place(q.wp + i)
           stops == ~q.rx_flow_ctrl /\ RoomIn(p) - d.len < Length \div 3
       IN  /\ q.state # "idle" => ~Held(p)
           /\ IF q.state = "idle" \/ (p # "log" /\ d.seqno # q.next_seqno)
              THEN UNCHANGED <<rx, port, ring>>
              ELSE IF ~Fits(p, d.len)
              THEN Drop(p) /\ UNCHANGED <<rx, ring>>
              ELSE /\ port' = [port EXCEPT ![p].next_seqno = @ + 1, ![p].wp = place(d.len),
                                           ![p].rx_flow_ctrl = @ \/ stops]
                   /\ ring' = [ring EXCEPT ![p] = [j \in DOMAIN @ |->
                          IF \E i \in 1..d.len : j = place(i - 1)
                          THEN <<d.seqno, CHOOSE i \in 1..d.len : j = place(i - 1)>> ELSE @[j]]]
                   /\ rx' = [rx EXCEPT !.p = p, !.pc = IF stops THEN "fread" ELSE "complete"]
    /\ UNCHANGED <<ftl, cp_state, fw, odd, events>> /\ RxOnly

RxFtl ==
    /\ rx.pc = "fread"
    /\ \/ rx' = [rx EXCEPT !.pc = "fwrite", !.ftl = ftl \cup {rx.p}] /\ UNCHANGED <<odd, events>>
       \/ RxTo("complete") /\ Trouble({"bus"})
    /\ UNCHANGED <<port, ring, ftl, cp_state, fw, air>> /\ RxOnly

RxSetsFtl ==
    /\ rx.pc = "fwrite" /\ RxTo("complete")
    /\ \/ ftl' = rx.ftl /\ odd' = odd \cup Race(rx.p, rx.ftl) /\ UNCHANGED events
       \/ Trouble({"bus"}) /\ UNCHANGED ftl
    /\ UNCHANGED <<port, ring, cp_state, fw, air>> /\ RxOnly

RxCompletes ==
    /\ rx.pc = "complete" /\ RxTo("idle")
    /\ port' = [port EXCEPT ![rx.p].rx_done = TRUE]
    /\ UNCHANGED <<ring, ftl, cp_state, fw, air, odd, events>> /\ RxOnly

RxAssert ==
    /\ Take("assert")
    /\ cp_state' = IF cp_state = "blocked" THEN cp_state ELSE "assert"
    /\ UNCHANGED <<port, ring, rx, ftl, fw, odd, events>> /\ RxOnly

\* Every port in use is marked, and its reader woken.  Only the log port
\* expects the numbers of a new firmware.
PortsAssert ==
    port' = [p \in Ports |->
        IF port[p].state \in {"idle", "clse"} THEN port[p]
        ELSE [port[p] EXCEPT !.state = "asst", !.rx_done = TRUE,
                             !.next_seqno = IF p = "log" THEN 1 ELSE @]]

\* skw_recovery_mode: the chip starts over, its register and its numbers too;
\* what was read of it is handled still.
Restart ==
    /\ fw' = [state |-> "boot", seqno |-> [p \in Ports |-> 1]]
    /\ ftl' = {}
    /\ odd' = IF port["atc"].state \in {"idle", "clse"}
                 \/ (port["atc"].next_seqno = 1 /\ Waiting("atc") = 0)
              THEN odd \cap {"deaf"} ELSE {"deaf"}

RxDumpDone ==
    /\ Take("dumpdone")
    /\ IF cp_state = "blocked"
       THEN UNCHANGED <<port, cp_state, fw, ftl, odd>>
       ELSE PortsAssert /\ Restart /\ cp_state' = "dumpdone"
    /\ UNCHANGED <<ring, rx, events>> /\ RxOnly

\* After an exception the AT port is used on.
RxVersion ==
    /\ Take("version")
    /\ cp_state' = "run"
    /\ port' = IF cp_state # "run" /\ port["atc"].state = "asst"
               THEN [port EXCEPT !["atc"].state = "open"] ELSE port
    /\ UNCHANGED <<ring, rx, ftl, fw, odd, events>> /\ RxOnly

\* skw_sdio_exception_work, when no dump comes
ExceptionWork ==
    /\ cp_state = "assert" /\ cp_state' = "blocked"
    /\ PortsAssert /\ Restart
    /\ \E n \in 0..Len(air) : air' = SubSeq(air, 1, n)
    /\ UNCHANGED <<ring, rx, events>> /\ RxOnly
-----------------------------------------------------------------------------
\* The firmware: it keeps what it has for a stopped channel.
FwOnly == UNCHANGED <<port, ring, reader, rx, ftl, cp_state>>
Data(p, seqno, len) == [kind |-> "data", p |-> p, seqno |-> seqno, len |-> len]
Notice(kind) == [kind |-> kind, p |-> "atc", seqno |-> 0, len |-> 0]

FwSends ==
    /\ fw.state = "up" /\ events < MaxEvent /\ events' = events + 1
    /\ \E p \in Ports \ ftl, len \in Lens :
           /\ air' = Append(air, Data(p, fw.seqno[p], len))
           /\ fw' = [fw EXCEPT !.seqno[p] = @ + 1]
    /\ UNCHANGED odd /\ FwOnly

FwCrashes ==
    /\ fw.state = "up" /\ fw' = [fw EXCEPT !.state = "dump"]
    /\ air' = Append(air, Notice("assert"))
    /\ Trouble({}) /\ FwOnly

FwDumps ==
    /\ fw.state = "dump" /\ fw' = [fw EXCEPT !.state = "off"]
    /\ air' = Append(air, Notice("dumpdone"))
    /\ UNCHANGED <<odd, events>> /\ FwOnly

FwBoots ==
    /\ fw.state = "boot" /\ fw' = [fw EXCEPT !.state = "up"]
    /\ air' = Append(air, Notice("version"))
    /\ UNCHANGED <<odd, events>> /\ FwOnly
-----------------------------------------------------------------------------
Reader(p) ==
    \/ Read(p) \/ ReadTries(p) \/ ReadTests(p) \/ ReadWoken(p) \/ ReadTakes(p)
    \/ ReadFtl(p) \/ ReadSetsFtl(p)
Rx ==
    \/ RxData \/ RxFtl \/ RxSetsFtl \/ RxCompletes \/ RxAssert \/ RxDumpDone \/ RxVersion

Next ==
    \/ \E p \in Ports : Open(p) \/ Close(p) \/ Reader(p)
    \/ Rx \/ ExceptionWork \/ FwSends \/ FwCrashes \/ FwDumps \/ FwBoots

Spec == Init /\ [][Next]_vars

\* A port is read as long as it is open; the threads go on.
FairSpec == Spec /\ WF_vars(Rx) /\ \A p \in Ports : WF_vars(Reader(p))
-----------------------------------------------------------------------------
Content(p) == [i \in 1..Used(p) |-> ring[p][(port[p].rp + i - 1) % Length]]

\* The ring buffer with its wrapped copies, its reset when it is empty and its
\* reader beside the RX thread is the stream of whole packets its reader relies on.
Stream == INSTANCE PortStream WITH
    Room <- Length - 1, MaxLen <- Length - 1, MaxSeqno <- MaxEvent,
    queue <- [p \in Ports |-> Content(p)], got <- [p \in Ports |-> reader[p].got],
    open <- [p \in Ports |-> port[p].state = "open"]
IsStream == Stream!Spec

\* The AT port expects the number the firmware gives the next packet, so that
\* nothing is dropped as lost that was not lost - unless the firmware starts over
\* under an open port, or the port is opened when the firmware has sent already:
\* then it is deaf until it is opened under a new firmware.
InStep ==
    port["atc"].state = "open" /\ "deaf" \notin odd =>
        port["atc"].next_seqno + Waiting("atc") = fw.seqno["atc"]

\* The reader is awake or has nothing to wake for, and the channel is not stopped.
AtEase(p) ==
    /\ reader[p].pc = "wait" =>
           Used(p) = 0 /\ (port[p].state = "open" \/ (port[p].state = "asst" /\ "missed" \in odd))
    /\ p \in ftl => port[p].state # "open" \/ odd \cap {"race", "bus", "stopped"} # {}

\* A reader does not sleep for ever beside data, a close or a crash (one that comes
\* between its check and its wait excepted); and a channel that was stopped goes on,
\* unless two ports changed the register at once, an access failed or the port was
\* opened while it was stopped.  With events bounded, both ports come to rest so.
Flows == []<>\A p \in Ports : AtEase(p)
=============================================================================
