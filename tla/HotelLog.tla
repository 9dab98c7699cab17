------------------------------ MODULE HotelLog ------------------------------
(***************************************************************************)
(* One log between two nodes: rsdco_copy_request and the RDMA write on the *)
(* writer's side, rsdco_detect_poll on the reader's                        *)
(* (src/rsdco_reqs.cc).  The log is a ring of rooms in the reader's        *)
(* memory; nothing tells the writer how far the reader is.                 *)
(*                                                                         *)
(* The writer waits for the completion of a write before the next one, and *)
(* a write lands in the order of addresses, which is what the canary at    *)
(* its end relies on: the header first, of which the reader looks at the   *)
(* second room only, then room by room.                                    *)
(***************************************************************************)
EXTENDS Rooms, Sequences

CONSTANTS
  ROOMS,       \* rooms of the memory region, which the last entry of a lap may
               \* use beyond LOGIDX_END
  PROPOSALS,   \* values of the uint8_t proposal of a header (256)
  Lengths,     \* payload lengths
  HeaderOnly,  \* may an entry be a bare header: {FALSE} on a replication log,
               \* BOOLEAN on a checker log, where only the owner of the key
               \* gets the payload
  Lead,        \* how many entries the writer may be ahead of the reader
  MaxEntries   \* bound: entries written in a behaviour

ASSUME HotelAssumption ==
  /\ PROPOSALS \in Nat \ {0}
  /\ \A len \in Lengths : len \in Nat /\ len <= MaxLength
  /\ ROOMS \in Nat
  /\ LOGIDX_END + 2 < ROOMS
  /\ \A len \in Lengths : CanaryRoom(LOGIDX_END + 2, len) < ROOMS
  /\ HeaderOnly \subseteq BOOLEAN
  /\ Lead \in Nat
  /\ MaxEntries \in Nat

VARIABLES
  next_room_free,   \* of the writer's hotel
  proposal,         \* reserved[1] of the writer's hotel
  wire,             \* what is left of the RDMA write, part by part
  mem,              \* the rooms of the reader's memory
  cursor,           \* next_room_free of the reader's hotel
  local_proposal,   \* the proposal the reader expects
  prev_header_room, \* the header it detected before, 1 if there is none
  header_room,      \* the header it detected
  seen,             \* the length and the canary it has read
  at,               \* where the reader is in its loop
  written,          \* history: entries written
  taken             \* history: what detect_func was called on

vars == <<next_room_free, proposal, wire, mem, cursor, local_proposal,
          prev_header_room, header_room, seen, at, written, taken>>

writerVars == <<next_room_free, proposal, written>>
readerVars == <<cursor, local_proposal, prev_header_room, header_room, seen, at,
                taken>>

----------------------------------------------------------------------------
(* Cells                                                                   *)

Header(seq, len, prop, only) ==
  [kind |-> "header", seq |-> seq, len |-> len, proposal |-> prop,
   only |-> only]

Region == 0 .. ROOMS - 1

\* A room nothing was written to: zeros.
Zeros == [kind |-> "zeros"]

\* The header's second room.
HeaderRest == [kind |-> "header_rest"]

\* A room of payload, and the last one, with the canary byte at its offset.
Body(seq) == [kind |-> "body", seq |-> seq]
End(seq, offset) ==
  [kind |-> "end", seq |-> seq, offset |-> offset, canary |-> TRUE]

\* What the reader takes for a header; a payload is taken not to look like one.
HeaderAt(room) ==
  IF mem[room].kind = "header" THEN mem[room] ELSE Header(0, 0, 0, FALSE)

\* Is the byte at this offset of a room RSDCO_CANARY?  Bytes of a payload are
\* taken to differ from it.
CanaryAt(room, offset) ==
  /\ mem[room].kind = "end"
  /\ mem[room].offset = offset
  /\ mem[room].canary

\* The number of an entry stands for its bytes.
Entries == [seq : 1 .. MaxEntries, only : BOOLEAN]

\* What the reader acted on if it was not one entry.
Torn == [seq |-> 0, only |-> FALSE]

Init ==
  /\ next_room_free = 0
  /\ proposal = 0
  /\ wire = << >>
  /\ mem = [r \in Region |-> Zeros]
  /\ cursor = 0
  /\ local_proposal = 0
  /\ prev_header_room = 1
  /\ header_room = 1
  /\ seen = [len |-> 0, canary |-> FALSE]
  /\ at = "len"
  /\ written = << >>
  /\ taken = << >>

----------------------------------------------------------------------------
(* The writer                                                              *)

HeaderPart(room, header) ==
  [r \in {room, room + 1} |-> IF r = room THEN header ELSE HeaderRest]

BodyParts(room, header) ==
  [k \in 1 .. header.len \div 4 |-> [r \in {room + k + 1} |-> Body(header.seq)]]

EndPart(room, header) ==
  [r \in {CanaryRoom(room + 2, header.len)} |-> End(header.seq, header.len % 4)]

\* Mutant: the canary lands ahead of the payload.
Parts_CanaryFirst(room, header) ==
  <<HeaderPart(room, header)>>
    \o IF header.only THEN << >>
       ELSE <<EndPart(room, header)>> \o BodyParts(room, header)

\* The parts of memory an RDMA write of an entry sets, in their order.
Parts(room, header) ==
  <<HeaderPart(room, header)>>
    \o IF header.only THEN << >>
       ELSE Append(BodyParts(room, header), EndPart(room, header))

\* rsdco_copy_request and the post of the RDMA write, once the last one is
\* complete.  Nothing in the code makes the writer wait for the reader: that it
\* never comes round to what the reader still needs is an assumption.
Write(len, only) ==
  LET seq == Len(written) + 1
      header == Header(seq, len, proposal % PROPOSALS, only)
  IN /\ wire = << >>
     /\ seq <= MaxEntries
     /\ Len(written) <= Len(taken) + Lead
     /\ wire' = Parts(next_room_free, header)
     /\ next_room_free' = NextFreeRoom(next_room_free + 2, len + 1)
     /\ proposal' = proposal + 1
     /\ written' = Append(written, [seq |-> seq, only |-> only])
     /\ UNCHANGED <<mem, readerVars>>

\* The next part of the write reaches the reader's memory.
Land ==
  /\ wire # << >>
  /\ mem' = [r \in Region |-> IF r \in DOMAIN Head(wire) THEN Head(wire)[r]
                                                        ELSE mem[r]]
  /\ wire' = Tail(wire)
  /\ UNCHANGED <<writerVars, readerVars>>

----------------------------------------------------------------------------
(* The reader: one turn of the loop of rsdco_detect_poll                   *)

\* The length in the header tells where the canary would be.
ReadLength ==
  /\ at = "len"
  /\ seen' = [len |-> HeaderAt(cursor).len, canary |-> FALSE]
  /\ at' = "canary"
  /\ UNCHANGED <<writerVars, wire, mem, cursor, local_proposal,
                 prev_header_room, header_room, taken>>

ReadCanary ==
  /\ at = "canary"
  /\ seen' = [seen EXCEPT !.canary =
                CanaryAt(CanaryRoom(cursor + 2, seen.len), seen.len % 4)]
  /\ at' = "test"
  /\ UNCHANGED <<writerVars, wire, mem, cursor, local_proposal,
                 prev_header_room, header_room, taken>>

\* Mutant: the canary byte is left.
ClearCanary_Kept(room, offset) == mem' = mem

\* The canary byte of the detected entry becomes 0.
ClearCanary(room, offset) ==
  mem' = IF CanaryAt(room, offset) THEN [mem EXCEPT ![room].canary = FALSE]
                                   ELSE mem

\* The header and the canary belong to the next entry.
Detect(header) ==
  /\ cursor' = NextFreeRoom(cursor + 2, header.len + 1)
  /\ local_proposal' = (header.proposal + 1) % PROPOSALS
  /\ ClearCanary(CanaryRoom(cursor + 2, seen.len), seen.len % 4)
  /\ header_room' = cursor
  /\ at' = "act"

\* The header is read again, proposal and message first.
Test ==
  /\ at = "test"
  /\ LET header == HeaderAt(cursor)
     IN IF header.proposal = local_proposal /\ (seen.canary \/ header.only)
          THEN Detect(header)
          ELSE /\ at' = "len"
               /\ UNCHANGED <<cursor, local_proposal, header_room, mem>>
  /\ UNCHANGED <<writerVars, wire, prev_header_room, seen, taken>>

\* Does the entry at this room have all the rooms of its payload?
Whole(room) ==
  LET header == HeaderAt(room)
  IN \A r \in room + 2 .. CanaryRoom(room + 2, header.len) :
       mem[r].kind \in {"body", "end"} /\ mem[r].seq = header.seq

\* detect_func on the entry.
Act ==
  /\ at = "act"
  /\ LET header == HeaderAt(header_room)
     IN taken' = Append(taken,
                   IF header.only \/ Whole(header_room)
                     THEN [seq |-> header.seq, only |-> header.only]
                     ELSE Torn)
  /\ prev_header_room' = header_room
  /\ at' = "len"
  /\ UNCHANGED <<writerVars, wire, mem, cursor, local_proposal, header_room,
                 seen>>

Reader == ReadLength \/ ReadCanary \/ Test \/ Act

Next ==
  \/ \E len \in Lengths, only \in HeaderOnly : Write(len, only)
  \/ Land
  \/ Reader

Spec == Init /\ [][Next]_vars

\* A posted write completes, and the polling thread is scheduled.
FairSpec == Spec /\ WF_vars(Land) /\ WF_vars(Reader)

----------------------------------------------------------------------------
RoomCells ==
       [kind : {"header"}, seq : 1 .. MaxEntries, len : Lengths,
        proposal : 0 .. PROPOSALS - 1, only : BOOLEAN]
  \cup {Zeros, HeaderRest}
  \cup [kind : {"body"}, seq : 1 .. MaxEntries]
  \cup [kind : {"end"}, seq : 1 .. MaxEntries, offset : 0 .. 3,
        canary : BOOLEAN]

\* Types.  Both cursors stay at rooms a header may be in, on every lap, and no
\* write leaves the memory region, although the last entry of a lap goes beyond
\* LOGIDX_END.
TypeOK ==
  /\ next_room_free \in 0 .. LOGIDX_END
  /\ cursor \in 0 .. LOGIDX_END
  /\ {prev_header_room, header_room} \subseteq 0 .. LOGIDX_END \cup {1}
  /\ proposal \in Nat
  /\ local_proposal \in 0 .. PROPOSALS - 1
  /\ mem \in [Region -> RoomCells]
  /\ \A k \in DOMAIN wire :
       DOMAIN wire[k] \subseteq Region /\ \A r \in DOMAIN wire[k] : wire[k][r] \in RoomCells
  /\ seen \in [len : Lengths \cup {0}, canary : BOOLEAN]
  /\ at \in {"len", "canary", "test", "act"}
  /\ written \in Seq(Entries)
  /\ taken \in Seq(Entries \cup {Torn})

\* What rsdco_detect_action_rply reads, at reqs.cc:523-536, is the entry before
\* the one that was detected.  It was whole when it was detected, and still is
\* while the next one is being acted on, whatever landed in between.
PrevWhole ==
  at = "act" /\ taken # << >> =>
    LET prev == HeaderAt(prev_header_room)
    IN prev.seq = Len(taken) /\ (prev.only \/ Whole(prev_header_room))

Log == INSTANCE OrderedLog WITH Entry <- Entries

\* The log is an ordered log: the polling reader acts on every entry once, in
\* order, on its payload as written, although it learns of an entry only from
\* bytes that change under it, over stale ones of the lap before.
LogSpec == Log!Spec

\* "User action must be replayed." (reqs.cc:552): every entry with a payload is
\* acted on some time.
UserActionReplayed ==
  \A n \in 1 .. MaxEntries :
    Len(written) >= n /\ ~ written[n].only
      ~> \E k \in 1 .. Len(taken) : taken[k].seq = n
=============================================================================
