---------------------------- MODULE HotelLogInv ----------------------------
(***************************************************************************)
(* The inductive invariant of HotelLog for entries that all take the same  *)
(* rooms: where the entries of a lap are, what of them is in memory while  *)
(* the next one lands, and which canaries are still to be seen.            *)
(***************************************************************************)
EXTENDS HotelLog

\* Every payload takes the same number of rooms.
OneSize == \A a, b \in Lengths : a \div 4 = b \div 4

BodyRooms ==
  CHOOSE n \in {len \div 4 : len \in Lengths} \cup {0} : \A len \in Lengths : len \div 4 = n

\* The rooms of an entry: the header, the payload, and the room of the canary.
Stride == BodyRooms + 3

\* The entries of a lap, and the room of the k-th entry that was ever written.
PerLap == LOGIDX_END \div Stride + 1

Place(k) == ((k - 1) % PerLap) * Stride

\* What nothing in the code ensures: entries take the same rooms, the writer does
\* not come round to the entry before the one the reader acts on, and a bare
\* header does not carry the proposal of the lap before.
RingAssumption ==
  /\ OneSize
  /\ Lead + 2 <= PerLap
  /\ HeaderOnly \subseteq {FALSE} \/ PerLap % PROPOSALS # 0

----------------------------------------------------------------------------
\* How many entries the reader has detected; it may not have acted on the last.
Detected == Len(taken) + (IF at = "act" THEN 1 ELSE 0)

HeadersOf(k) ==
  [kind : {"header"}, seq : {k}, len : Lengths, proposal : {(k - 1) % PROPOSALS},
   only : {written[k].only}]

\* The last room of an entry: its canary is cleared when it is detected.
EndOf(k, len) ==
  [kind |-> "end", seq |-> k, offset |-> len % 4, canary |-> Detected < k]

\* All parts of an entry are where the writer put them.
InMemory(k) ==
  LET header == mem[Place(k)]
  IN /\ header \in HeadersOf(k)
     /\ ~header.only =>
          /\ \A r \in Place(k) + 2 .. Place(k) + Stride - 2 : mem[r] = Body(k)
          /\ mem[Place(k) + Stride - 1] = EndOf(k, header.len)

\* An entry that was written after its write completed.
Complete(k) == k = Len(written) => wire = << >>

\* The entries of the last lap.
MemoryInv ==
  \A k \in 1 .. Len(written) :
    Len(written) < k + PerLap /\ Complete(k) => InMemory(k)

\* The header of the last entry has not landed yet.
HeaderPending == wire # << >> /\ Place(Len(written)) \in DOMAIN Head(wire)

\* The entry that lands: some parts of it are in memory, the others on the wire.
WireInv ==
  wire # << >> =>
    LET last == Len(written)
    IN /\ Detected < last
       /\ \E header \in HeadersOf(last) :
            LET parts == Parts(Place(last), header)
            IN \E n \in 0 .. Len(parts) - 1 :
                 /\ Len(wire) = Len(parts) - n
                 /\ \A i \in 1 .. Len(wire) : wire[i] = parts[n + i]
                 /\ n > 0 => mem[Place(last)] = header
                 /\ \A i \in 1 .. n - 1 : mem[Place(last) + i + 1] = Body(last)

\* A header is of the last lap, or at the place of the one that is to land now.
HeaderInv ==
  \A r \in Region : mem[r].kind = "header" =>
    LET k == mem[r].seq
    IN /\ k \in 1 .. Len(written) /\ r = Place(k)
       /\ mem[r] \in HeadersOf(k)
       /\ IF HeaderPending
            THEN k < Len(written) /\ Len(written) <= k + PerLap
            ELSE Len(written) < k + PerLap

\* A canary that is set is of an entry the reader has not detected.
CanaryInv ==
  \A r \in Region : mem[r].kind = "end" /\ mem[r].canary =>
    LET k == mem[r].seq
    IN /\ k \in Detected + 1 .. Len(written) /\ ~written[k].only
       /\ r = Place(k) + Stride - 1
       /\ Complete(k)

\* The cursors and the proposals count the same entries.
CursorInv ==
  /\ next_room_free = Place(Len(written) + 1)
  /\ proposal = Len(written)
  /\ cursor = Place(Detected + 1)
  /\ local_proposal = Detected % PROPOSALS
  /\ at = "act" => header_room = Place(Detected)
  /\ Len(taken) > 0 => prev_header_room = Place(Len(taken))
  /\ Detected <= Len(written)
  /\ Len(written) <= Len(taken) + Lead + 1
  /\ at = "test" /\ seen.canary =>
       CanaryAt(CanaryRoom(cursor + 2, seen.len), seen.len % 4)
  /\ \A k \in 1 .. Len(written) :
       written[k].seq = k /\ written[k].only \in HeaderOnly

RingInv ==
  TypeOK /\ CursorInv /\ MemoryInv /\ WireInv /\ HeaderInv /\ CanaryInv
=============================================================================
