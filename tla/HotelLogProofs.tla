--------------------------- MODULE HotelLogProofs ---------------------------
(***************************************************************************)
(* The layout of the rooms and the types of HotelLog, for every size of    *)
(* the log, every set of lengths and every number of entries; and, for     *)
(* entries that all take the same rooms, that the ring is an ordered log.  *)
(***************************************************************************)
EXTENDS HotelLogInv, SequenceTheorems, TLAPS

----------------------------------------------------------------------------
(* Layout                                                                  *)

\* The rooms reserved for a payload and its canary are the ones they need: the
\* uint16_t sum of rsdco_next_free_room does not overflow up to MaxLength.
LEMMA TakesExactly ==
  ASSUME NEW len \in Nat, len <= MaxLength
  PROVE  Takes(len + 1) = len \div 4 + 1
<1>1. (len + 1) % UINT16 = len + 1
  BY DEF UINT16, MaxLength
<1>2. CASE (len + 1) % 4 = 0
  BY <1>1, <1>2 DEF Takes, UINT16, MaxLength
<1>3. CASE (len + 1) % 4 # 0
  <2>1. (len + 5) % UINT16 = len + 5
    BY <1>3 DEF UINT16, MaxLength
  <2> QED
    BY <1>1, <1>3, <2>1 DEF Takes
<1> QED
  BY <1>2, <1>3

\* The canary is in the last room of its entry: the next header is in the room
\* after it, or at the start of the log, and never on the canary.
THEOREM Layout ==
  ASSUME NEW room \in 0 .. LOGIDX_END, NEW len \in Nat, len <= MaxLength
  PROVE  LET next == NextFreeRoom(room + 2, len + 1)
         IN /\ next \in {0, CanaryRoom(room + 2, len) + 1}
            /\ next \in 0 .. LOGIDX_END
            /\ next # 0 => next > room + 2
<1>1. len \div 4 \in Nat
  BY DEF MaxLength, UINT16
<1> QED
  BY <1>1, TakesExactly, RoomsAssumption DEF NextFreeRoom, CanaryRoom

----------------------------------------------------------------------------
(* Types                                                                   *)

\* What an RDMA write can still set: cells of some rooms of the region.
Patches == UNION {[S -> RoomCells] : S \in SUBSET Region}

\* The inductive invariant: TypeOK says what the parts of a write are, this also
\* that there is a sequence of them.
HotelTypeInv == TypeOK /\ wire \in Seq(Patches)

\* A proposal number is below PROPOSALS.
LEMMA ModRange ==
  ASSUME NEW n \in Nat
  PROVE  n % PROPOSALS \in 0 .. PROPOSALS - 1
  BY HotelAssumption

\* The reader finds a header, or what it takes for one, in every room.
LEMMA HeaderAtType ==
  ASSUME mem \in [Region -> RoomCells], NEW room \in Region
  PROVE  /\ HeaderAt(room).len \in Lengths \cup {0}
         /\ HeaderAt(room).len \in Nat
         /\ HeaderAt(room).len <= MaxLength
         /\ HeaderAt(room).proposal \in 0 .. PROPOSALS - 1
         /\ HeaderAt(room).only \in BOOLEAN
         /\ HeaderAt(room).seq \in 0 .. MaxEntries
         /\ HeaderAt(room).seq = 0 => HeaderAt(room).only = FALSE
<1>1. 0 <= MaxLength /\ 0 \in 0 .. PROPOSALS - 1
  BY HotelAssumption DEF MaxLength, UINT16
<1>2. CASE mem[room].kind = "header"
  <2>1. mem[room] \in RoomCells
    OBVIOUS
  <2>2. mem[room] \in [kind : {"header"}, seq : 1 .. MaxEntries, len : Lengths,
                       proposal : 0 .. PROPOSALS - 1, only : BOOLEAN]
    BY <1>2, <2>1 DEF RoomCells, Zeros, HeaderRest
  <2> QED
    BY <1>1, <1>2, <2>2, HotelAssumption DEF HeaderAt
<1>3. CASE mem[room].kind # "header"
  BY <1>1, <1>3, HotelAssumption DEF HeaderAt, Header
<1> QED
  BY <1>2, <1>3

\* The rooms of an entry that begins where a header may be are in the region.
LEMMA InRegion ==
  ASSUME NEW room \in 0 .. LOGIDX_END, NEW len \in Lengths
  PROVE  room .. CanaryRoom(room + 2, len) \subseteq Region
<1>1. len \in Nat /\ len \div 4 \in Nat
  BY HotelAssumption
<1>2. LOGIDX_END + 2 + len \div 4 < ROOMS
  BY HotelAssumption DEF CanaryRoom
<1> QED
  BY <1>1, <1>2, RoomsAssumption, HotelAssumption DEF Region, CanaryRoom

\* Every part of a write of a well-formed entry is a patch.
LEMMA PartsType ==
  ASSUME NEW room \in 0 .. LOGIDX_END, NEW len \in Lengths,
         NEW seq \in 1 .. MaxEntries, NEW prop \in 0 .. PROPOSALS - 1,
         NEW only \in BOOLEAN
  PROVE  Parts(room, Header(seq, len, prop, only)) \in Seq(Patches)
<1> DEFINE header == Header(seq, len, prop, only)
<1>1. /\ header \in [kind : {"header"}, seq : 1 .. MaxEntries, len : Lengths,
                     proposal : 0 .. PROPOSALS - 1, only : BOOLEAN]
      /\ header.len = len /\ header.seq = seq /\ header.only = only
  BY DEF Header
<1>2. /\ header \in RoomCells /\ HeaderRest \in RoomCells
      /\ Body(seq) \in RoomCells /\ End(seq, len % 4) \in RoomCells
  <2>1. len % 4 \in 0 .. 3
    BY HotelAssumption
  <2> QED
    BY <1>1, <2>1 DEF RoomCells, Body, End
<1>3. /\ room \in Int
      /\ len \in Nat /\ len \div 4 \in Nat
      /\ CanaryRoom(room + 2, len) = room + 2 + len \div 4
      /\ room .. room + 2 + len \div 4 \subseteq Region
  <2>1. room .. CanaryRoom(room + 2, len) \subseteq Region
    BY InRegion
  <2> QED
    BY <2>1, HotelAssumption, RoomsAssumption DEF CanaryRoom
<1>4. HeaderPart(room, header) \in Patches
  <2>1. {room, room + 1} \subseteq Region
    BY <1>3
  <2>2. HeaderPart(room, header) \in [{room, room + 1} -> RoomCells]
    BY <1>2 DEF HeaderPart
  <2> QED
    BY <2>1, <2>2 DEF Patches
<1>5. BodyParts(room, header) \in Seq(Patches)
  <2>1. ASSUME NEW k \in 1 .. len \div 4
        PROVE  [r \in {room + k + 1} |-> Body(seq)] \in Patches
    <3>1. {room + k + 1} \subseteq Region
      BY <1>3
    <3>2. [r \in {room + k + 1} |-> Body(seq)] \in [{room + k + 1} -> RoomCells]
      BY <1>2
    <3> QED
      BY <3>1, <3>2 DEF Patches
  <2>2. BodyParts(room, header)
          = [k \in 1 .. len \div 4 |-> [r \in {room + k + 1} |-> Body(seq)]]
    BY <1>1 DEF BodyParts
  <2>3. BodyParts(room, header) \in [1 .. len \div 4 -> Patches]
    BY <2>1, <2>2
  <2> QED
    BY <1>3, <2>3, SeqDef
<1>6. EndPart(room, header) \in Patches
  <2>1. {CanaryRoom(room + 2, len)} \subseteq Region
    BY <1>3
  <2>2. EndPart(room, header) \in [{CanaryRoom(room + 2, len)} -> RoomCells]
    BY <1>1, <1>2 DEF EndPart
  <2> QED
    BY <2>1, <2>2 DEF Patches
<1> HIDE DEF header
<1>7. Append(BodyParts(room, header), EndPart(room, header)) \in Seq(Patches)
  BY <1>5, <1>6
<1>8. <<HeaderPart(room, header)>> \in Seq(Patches)
  BY <1>4
<1>9. Parts(room, header) \in Seq(Patches)
  <2>1. CASE only
    BY <1>1, <1>8, <2>1 DEF Parts
  <2>2. CASE ~only
    BY <1>1, <1>7, <1>8, <2>2 DEF Parts
  <2> QED
    BY <2>1, <2>2
<1> QED
  BY <1>9 DEF header

\* A sequence of patches has the parts TypeOK asks for.
LEMMA PatchFacts ==
  \A w \in Seq(Patches) : \A k \in DOMAIN w :
    DOMAIN w[k] \subseteq Region /\ \A r \in DOMAIN w[k] : w[k][r] \in RoomCells
<1> SUFFICES ASSUME NEW w \in Seq(Patches), NEW k \in DOMAIN w
             PROVE  /\ DOMAIN w[k] \subseteq Region
                    /\ \A r \in DOMAIN w[k] : w[k][r] \in RoomCells
  OBVIOUS
<1>1. w[k] \in Patches
  OBVIOUS
<1>2. PICK S \in SUBSET Region : w[k] \in [S -> RoomCells]
  BY <1>1 DEF Patches
<1> QED
  BY <1>2

\* Clearing a canary leaves a cell of the same kind.
LEMMA ClearCanaryType ==
  ASSUME mem \in [Region -> RoomCells], NEW room, NEW offset,
         ClearCanary(room, offset)
  PROVE  mem' \in [Region -> RoomCells]
<1>1. CASE CanaryAt(room, offset) /\ room \in Region
  <2>1. mem[room] \in [kind : {"end"}, seq : 1 .. MaxEntries, offset : 0 .. 3,
                       canary : BOOLEAN]
    BY <1>1 DEF CanaryAt, RoomCells, Zeros, HeaderRest
  <2>2. [mem[room] EXCEPT !.canary = FALSE] \in RoomCells
    BY <2>1 DEF RoomCells
  <2> QED
    BY <1>1, <2>2 DEF ClearCanary
<1>2. CASE ~ CanaryAt(room, offset)
  BY <1>2 DEF ClearCanary
<1>3. CASE room \notin Region
  BY <1>3 DEF ClearCanary
<1> QED
  BY <1>1, <1>2, <1>3

\* The empty memory and the empty log are within their types.
LEMMA HotelTypeInit == Init => HotelTypeInv
<1> SUFFICES ASSUME Init PROVE HotelTypeInv
  OBVIOUS
<1>1. /\ 0 \in 0 .. LOGIDX_END /\ 0 \in 0 .. PROPOSALS - 1
      /\ Zeros \in RoomCells
  BY RoomsAssumption, HotelAssumption DEF RoomCells
<1> QED
  BY <1>1 DEF Init, HotelTypeInv, TypeOK

\* No step takes a variable out of its range: the cursors return to room 0 in
\* time, and what lands stays inside the region.
LEMMA HotelTypeNext == HotelTypeInv /\ [Next]_vars => HotelTypeInv'
<1> SUFFICES ASSUME HotelTypeInv, [Next]_vars PROVE HotelTypeInv'
  OBVIOUS
<1> USE DEF HotelTypeInv, TypeOK, writerVars, readerVars
<1>0. 0 .. LOGIDX_END \subseteq Region
  BY RoomsAssumption, HotelAssumption DEF Region
<1>1. ASSUME NEW len \in Lengths, NEW only \in HeaderOnly, Write(len, only)
      PROVE  HotelTypeInv'
  <2> DEFINE seq == Len(written) + 1
  <2>1. /\ seq \in 1 .. MaxEntries /\ only \in BOOLEAN
        /\ proposal % PROPOSALS \in 0 .. PROPOSALS - 1
    <3>1. Len(written) \in Nat
      OBVIOUS
    <3>2. seq \in 1 .. MaxEntries
      BY <1>1, <3>1, HotelAssumption DEF Write
    <3>3. proposal % PROPOSALS \in 0 .. PROPOSALS - 1
      BY ModRange
    <3> QED
      BY <3>2, <3>3, HotelAssumption
  <2>2. wire' \in Seq(Patches)
    <3>1. wire' = Parts(next_room_free, Header(seq, len, proposal % PROPOSALS, only))
      BY <1>1 DEF Write
    <3> HIDE DEF seq
    <3> QED
      BY <2>1, <3>1, PartsType
  <2>3. next_room_free' \in 0 .. LOGIDX_END
    <3>1. len \in Nat /\ len <= MaxLength
      BY HotelAssumption
    <3> QED
      BY <1>1, <3>1, Layout DEF Write
  <2>4. written' \in Seq(Entries)
    <3>1. [seq |-> seq, only |-> only] \in Entries
      BY <2>1 DEF Entries
    <3> QED
      BY <1>1, <3>1 DEF Write
  <2> QED
    BY <1>1, <2>2, <2>3, <2>4, PatchFacts DEF Write
<1>2. CASE Land
  <2>1. /\ Head(wire) \in Patches /\ wire' \in Seq(Patches)
    BY <1>2 DEF Land
  <2>2. PICK S \in SUBSET Region : Head(wire) \in [S -> RoomCells]
    BY <2>1 DEF Patches
  <2>3. mem' \in [Region -> RoomCells]
    BY <1>2, <2>2 DEF Land
  <2> QED
    BY <1>2, <2>1, <2>3, PatchFacts DEF Land
<1>3. CASE ReadLength
  <2>1. HeaderAt(cursor).len \in Lengths \cup {0}
    BY <1>0, HeaderAtType
  <2> QED
    BY <1>3, <2>1 DEF ReadLength
<1>4. CASE ReadCanary
  <2>1. CanaryAt(CanaryRoom(cursor + 2, seen.len), seen.len % 4) \in BOOLEAN
    BY DEF CanaryAt
  <2> QED
    BY <1>4, <2>1 DEF ReadCanary
<1>5. CASE Test
  <2> DEFINE header == HeaderAt(cursor)
  <2>1. /\ header.len \in Nat /\ header.len <= MaxLength
        /\ header.proposal \in 0 .. PROPOSALS - 1
    BY <1>0, HeaderAtType
  <2>2. CASE header.proposal = local_proposal /\ (seen.canary \/ header.only)
    <3>1. Detect(header)
      BY <1>5, <2>2 DEF Test
    <3> HIDE DEF header
    <3>2. cursor' \in 0 .. LOGIDX_END
      BY <2>1, <3>1, Layout DEF Detect
    <3>3. local_proposal' \in 0 .. PROPOSALS - 1
      <4>1. (header.proposal + 1) % PROPOSALS \in 0 .. PROPOSALS - 1
        <5>1. header.proposal + 1 \in Nat
          BY <2>1, HotelAssumption
        <5> HIDE DEF HotelTypeInv, TypeOK
        <5> QED
          BY <5>1, ModRange
      <4> QED
        BY <3>1, <4>1 DEF Detect
    <3>4. mem' \in [Region -> RoomCells]
      BY <3>1, ClearCanaryType DEF Detect
    <3> QED
      BY <1>5, <3>1, <3>2, <3>3, <3>4 DEF Test, Detect
  <2>3. CASE ~(header.proposal = local_proposal /\ (seen.canary \/ header.only))
    BY <1>5, <2>3 DEF Test
  <2> QED
    BY <2>2, <2>3
<1>6. CASE Act
  <2> DEFINE header == HeaderAt(header_room)
             entry == IF header.only \/ Whole(header_room)
                        THEN [seq |-> header.seq, only |-> header.only]
                        ELSE Torn
  <2>1. header_room \in Region
    BY <1>0, RoomsAssumption, HotelAssumption DEF Region
  <2>2. /\ header.only \in BOOLEAN /\ header.seq \in 0 .. MaxEntries
        /\ header.seq = 0 => header.only = FALSE
    BY <2>1, HeaderAtType
  <2>3. entry \in Entries \cup {Torn}
    <3> HIDE DEF header
    <3>1. CASE header.seq = 0
      BY <2>2, <3>1 DEF Torn
    <3>2. CASE header.seq # 0
      <4>1. header.seq \in 1 .. MaxEntries
        BY <2>2, <3>2, HotelAssumption
      <4>2. [seq |-> header.seq, only |-> header.only] \in Entries
        BY <2>2, <4>1 DEF Entries
      <4> QED
        BY <4>2
    <3> QED
      BY <3>1, <3>2
  <2>4. taken' = Append(taken, entry)
    BY <1>6 DEF Act
  <2> HIDE DEF entry
  <2>5. taken' \in Seq(Entries \cup {Torn})
    BY <2>3, <2>4
  <2> QED
    BY <1>6, <2>5 DEF Act
<1>7. CASE UNCHANGED vars
  BY <1>7 DEF vars
<1> QED
  BY <1>1, <1>2, <1>3, <1>4, <1>5, <1>6, <1>7 DEF Next, Reader

\* Types, on any lap and for any number of entries, and room numbers that stay in
\* the memory region.
THEOREM HotelTypeCorrect == Spec => []TypeOK
<1>1. HotelTypeInv => TypeOK
  BY DEF HotelTypeInv
<1> QED
  BY <1>1, HotelTypeInit, HotelTypeNext, PTL DEF Spec

----------------------------------------------------------------------------
(* The places of a lap                                                     *)

\* Multiples of the stride are a stride apart.
LEMMA Apart ==
  ASSUME NEW x \in Nat, NEW y \in Nat, NEW s \in Nat, x < y
  PROVE  x * s + s <= y * s /\ x * s \in Nat
OBVIOUS

\* Quotient and remainder.
LEMMA Quotient ==
  ASSUME NEW n \in Nat, NEW p \in Nat, p > 0
  PROVE  /\ n \div p \in Nat /\ n % p \in 0 .. p - 1
         /\ (n \div p) * p \in Nat
         /\ n = (n \div p) * p + (n % p)
OBVIOUS

\* There is one quotient and one remainder.
LEMMA Remainder ==
  ASSUME NEW n \in Nat, NEW p \in Nat, p > 0, NEW q \in Nat, NEW r \in 0 .. p - 1,
         n = q * p + r
  PROVE  n % p = r
<1> DEFINE k == n \div p
<1>1. k \in Nat /\ k * p \in Nat /\ n = k * p + (n % p) /\ n % p \in 0 .. p - 1
  BY Quotient
<1>2. q * p \in Nat
  OBVIOUS
<1> HIDE DEF k
<1>3. CASE k < q
  <2>1. k * p + p <= q * p
    BY <1>1, <1>3, Apart
  <2> QED  BY <1>1, <1>2, <2>1
<1>4. CASE q < k
  <2>1. q * p + p <= k * p
    BY <1>1, <1>4, Apart
  <2> QED  BY <1>1, <1>2, <2>1
<1>5. CASE q = k
  BY <1>1, <1>2, <1>5
<1> QED  BY <1>1, <1>3, <1>4, <1>5

\* The next number around a ring, numbers of one ring, and of two.
LEMMA ModNext ==
  ASSUME NEW n \in Nat, NEW p \in Nat, p > 0
  PROVE  /\ n % p \in 0 .. p - 1
         /\ (n + 1) % p = IF (n % p) + 1 = p THEN 0 ELSE (n % p) + 1
         /\ (n + p) % p = n % p
<1> DEFINE q == n \div p
           r == n % p
<1>1. q \in Nat /\ r \in 0 .. p - 1 /\ q * p \in Nat /\ n = q * p + r
  BY Quotient
<1> HIDE DEF q, r
<1>2. (q + 1) * p = q * p + p
  BY <1>1
<1>3. (n + p) % p = r
  <2>1. n + p = (q + 1) * p + r /\ q + 1 \in Nat /\ n + p \in Nat
    BY <1>1, <1>2
  <2> QED  BY <1>1, <2>1, Remainder
<1>4. CASE r + 1 = p
  <2>1. n + 1 = (q + 1) * p + 0 /\ q + 1 \in Nat /\ n + 1 \in Nat /\ 0 \in 0 .. p - 1
    BY <1>1, <1>2, <1>4
  <2>2. (n + 1) % p = 0
    BY <2>1, Remainder
  <2> QED  BY <1>1, <1>3, <1>4, <2>2 DEF r
<1>5. CASE r + 1 # p
  <2>1. n + 1 = q * p + (r + 1) /\ n + 1 \in Nat /\ r + 1 \in 0 .. p - 1
    BY <1>1, <1>5
  <2>2. (n + 1) % p = r + 1
    BY <1>1, <2>1, Remainder
  <2> QED  BY <1>1, <1>3, <1>5, <2>2 DEF r
<1> QED  BY <1>4, <1>5

\* Less than a ring apart is not the same place.
LEMMA ModApart ==
  ASSUME NEW m \in Nat, NEW n \in Nat, NEW p \in Nat, p > 0, m < n, n < m + p
  PROVE  m % p # n % p
<1> SUFFICES ASSUME m % p = n % p  PROVE FALSE
  OBVIOUS
<1> DEFINE j == m \div p
           k == n \div p
<1>1. j \in Nat /\ k \in Nat /\ j * p \in Nat /\ k * p \in Nat
      /\ m = j * p + (m % p) /\ n = k * p + (n % p) /\ m % p \in Nat
  BY Quotient
<1> HIDE DEF j, k
<1>2. CASE j < k
  <2>1. j * p + p <= k * p
    BY <1>1, <1>2, Apart
  <2> QED  BY <1>1, <2>1
<1>3. CASE k < j
  <2>1. k * p + p <= j * p
    BY <1>1, <1>3, Apart
  <2> QED  BY <1>1, <2>1
<1> QED  BY <1>1, <1>2, <1>3

\* Nor is a distance that is no multiple of the ring.
LEMMA ModShift ==
  ASSUME NEW n \in Nat, NEW e \in Nat, NEW p \in Nat, p > 0, e % p # 0
  PROVE  n % p # (n + e) % p
<1> SUFFICES ASSUME n % p = (n + e) % p  PROVE FALSE
  OBVIOUS
<1> DEFINE j == n \div p
           k == (n + e) \div p
<1>1. j \in Nat /\ j * p \in Nat /\ n = j * p + (n % p) /\ n % p \in Nat
  BY Quotient
<1>2. k \in Nat /\ k * p \in Nat /\ n + e = k * p + ((n + e) % p)
  <2>1. n + e \in Nat
    OBVIOUS
  <2> QED  BY <2>1, Quotient
<1> HIDE DEF j, k
<1>3. e = k * p - j * p
  BY <1>1, <1>2
<1>4. CASE k < j
  <2>1. k * p + p <= j * p
    BY <1>1, <1>2, <1>4, Apart
  <2> QED  BY <1>1, <1>2, <1>3, <2>1
<1>5. CASE ~(k < j)
  <2>1. k - j \in Nat /\ e = (k - j) * p + 0 /\ 0 \in 0 .. p - 1
    BY <1>1, <1>2, <1>3, <1>5
  <2>2. e % p = 0
    BY <2>1, Remainder
  <2> QED  BY <2>2
<1> QED  BY <1>4, <1>5

\* The one size of the payloads.
LEMMA Sizes ==
  ASSUME OneSize
  PROVE  /\ BodyRooms \in Nat /\ Stride \in Nat /\ Stride = BodyRooms + 3
         /\ \A len \in Lengths : len \in Nat /\ len <= MaxLength /\ len \div 4 = BodyRooms
<1>1. \A len \in Lengths : len \in Nat /\ len <= MaxLength /\ len \div 4 \in Nat
  BY HotelAssumption
<1>2. \E n \in {len \div 4 : len \in Lengths} \cup {0} : \A len \in Lengths : len \div 4 = n
  BY DEF OneSize
<1>3. /\ BodyRooms \in {len \div 4 : len \in Lengths} \cup {0}
      /\ \A len \in Lengths : len \div 4 = BodyRooms
  BY <1>2 DEF BodyRooms
<1> QED  BY <1>1, <1>3 DEF Stride

\* Entries are at multiples of the stride that are in the log.
LEMMA Lap ==
  ASSUME OneSize
  PROVE  /\ PerLap \in Nat /\ PerLap > 0
         /\ PerLap * Stride > LOGIDX_END
         /\ (PerLap - 1) * Stride <= LOGIDX_END
<1>1. Stride \in Nat /\ Stride > 0 /\ LOGIDX_END \in Nat
  BY Sizes, RoomsAssumption
<1> DEFINE q == LOGIDX_END \div Stride
<1>2. q \in Nat /\ q * Stride \in Nat /\ LOGIDX_END = q * Stride + (LOGIDX_END % Stride)
      /\ LOGIDX_END % Stride \in 0 .. Stride - 1
  BY <1>1, Quotient
<1>3. PerLap = q + 1
  BY DEF PerLap
<1> HIDE DEF q
<1>4. (q + 1) * Stride = q * Stride + Stride
  BY <1>1, <1>2
<1> QED  BY <1>1, <1>2, <1>3, <1>4

\* The next place is a stride further, or the start of the log; after a lap it is
\* the same.
LEMMA PlaceNext ==
  ASSUME OneSize, NEW k \in Nat \ {0}
  PROVE  /\ Place(k) \in 0 .. LOGIDX_END
         /\ Place(k + 1) = IF Place(k) + Stride > LOGIDX_END THEN 0 ELSE Place(k) + Stride
         /\ Place(k + PerLap) = Place(k)
<1> DEFINE m == (k - 1) % PerLap
<1>1. Stride \in Nat /\ Stride > 0 /\ LOGIDX_END \in Nat
  BY Sizes, RoomsAssumption
<1>2. /\ PerLap \in Nat /\ PerLap > 0
      /\ PerLap * Stride > LOGIDX_END /\ (PerLap - 1) * Stride <= LOGIDX_END
  BY Lap
<1>3. /\ m \in 0 .. PerLap - 1
      /\ (k - 1 + 1) % PerLap = IF m + 1 = PerLap THEN 0 ELSE m + 1
      /\ (k - 1 + PerLap) % PerLap = m
  <2>1. k - 1 \in Nat
    OBVIOUS
  <2> QED  BY <1>2, <2>1, ModNext
<1>4. (k + 1) - 1 = k - 1 + 1 /\ (k + PerLap) - 1 = k - 1 + PerLap
  BY <1>2
<1>5. /\ Place(k) = m * Stride
      /\ Place(k + 1) = (IF m + 1 = PerLap THEN 0 ELSE m + 1) * Stride
      /\ Place(k + PerLap) = m * Stride
  BY <1>3, <1>4 DEF Place
<1> HIDE DEF m
<1>6. (m + 1) * Stride = m * Stride + Stride /\ m * Stride \in Nat /\ 0 * Stride = 0
  BY <1>1, <1>3
<1>7. CASE m + 1 = PerLap
  <2>1. m = PerLap - 1 /\ m \in Nat
    BY <1>2, <1>3, <1>7
  <2>2. m * Stride <= LOGIDX_END /\ (m + 1) * Stride > LOGIDX_END
    BY <1>2, <1>7, <2>1
  <2> QED  BY <1>1, <1>5, <1>6, <1>7, <2>2
<1>8. CASE m + 1 # PerLap
  <2>1. m \in Nat /\ m + 1 \in Nat /\ PerLap - 1 \in Nat /\ m + 1 <= PerLap - 1
    BY <1>2, <1>3, <1>8
  <2>2. (m + 1) * Stride <= (PerLap - 1) * Stride
    <3>1. CASE m + 1 = PerLap - 1
      BY <1>1, <3>1, <2>1
    <3>2. CASE m + 1 < PerLap - 1
      <4>1. (m + 1) * Stride + Stride <= (PerLap - 1) * Stride
        BY <1>1, <2>1, <3>2, Apart
      <4>2. (m + 1) * Stride \in Nat /\ (PerLap - 1) * Stride \in Nat
        BY <1>1, <2>1
      <4> QED  BY <1>1, <4>1, <4>2
    <3> QED  BY <2>1, <3>1, <3>2
  <2>3. (PerLap - 1) * Stride \in Nat
    BY <1>1, <2>1
  <2> QED  BY <1>1, <1>2, <1>5, <1>6, <1>8, <2>2, <2>3
<1> QED  BY <1>7, <1>8

\* Entries less than a lap apart share no room.
LEMMA PlaceApart ==
  ASSUME OneSize, NEW j \in Nat \ {0}, NEW k \in Nat \ {0}, j < k, k < j + PerLap
  PROVE  Place(j) + Stride <= Place(k) \/ Place(k) + Stride <= Place(j)
<1> DEFINE m == (j - 1) % PerLap
           n == (k - 1) % PerLap
<1>1. Stride \in Nat /\ PerLap \in Nat /\ PerLap > 0
  BY Sizes, Lap
<1>2. m \in Nat /\ n \in Nat
  <2>1. j - 1 \in Nat /\ k - 1 \in Nat
    OBVIOUS
  <2>2. m \in 0 .. PerLap - 1 /\ n \in 0 .. PerLap - 1
    BY <1>1, <2>1, ModNext
  <2> QED  BY <2>2, <1>1
<1>3. m # n
  <2>1. j - 1 \in Nat /\ k - 1 \in Nat /\ j - 1 < k - 1 /\ k - 1 < j - 1 + PerLap
    BY <1>1
  <2> QED  BY <1>1, <2>1, ModApart
<1>4. Place(j) = m * Stride /\ Place(k) = n * Stride
  BY DEF Place
<1> HIDE DEF m, n
<1>5. CASE m < n
  BY <1>1, <1>2, <1>4, <1>5, Apart
<1>6. CASE n < m
  BY <1>1, <1>2, <1>4, <1>6, Apart
<1> QED  BY <1>2, <1>3, <1>5, <1>6

\* The first entry is at the start of the log.
LEMMA PlaceOne ==
  ASSUME OneSize  PROVE Place(1) = 0
<1>1. Stride \in Nat /\ PerLap \in Nat /\ PerLap > 0
  BY Sizes, Lap
<1>2. 0 % PerLap = 0
  <2>1. 0 = 0 * PerLap + 0 /\ 0 \in 0 .. PerLap - 1
    BY <1>1
  <2> QED  BY <1>1, <2>1, Remainder
<1>3. 0 * Stride = 0 /\ 1 - 1 = 0
  BY <1>1
<1> QED  BY <1>2, <1>3 DEF Place

\* The next header goes to the place of the next entry, whatever the payload.
LEMMA NextPlace ==
  ASSUME OneSize, NEW k \in Nat \ {0}, NEW len \in Lengths
  PROVE  NextFreeRoom(Place(k) + 2, len + 1) = Place(k + 1)
<1>1. len \in Nat /\ len <= MaxLength /\ len \div 4 = BodyRooms /\ BodyRooms \in Nat
      /\ Stride = BodyRooms + 3
  BY Sizes
<1>2. Takes(len + 1) = BodyRooms + 1
  BY <1>1, TakesExactly
<1>3. Place(k) \in Nat /\ Place(k) + 2 + Takes(len + 1) = Place(k) + Stride
  <2>1. Place(k) \in 0 .. LOGIDX_END
    BY PlaceNext
  <2>2. Place(k) \in Nat
    BY <2>1, RoomsAssumption
  <2> QED  BY <1>1, <1>2, <2>2
<1> QED  BY <1>3, PlaceNext DEF NextFreeRoom

\* The part of a write that sets one room.
One(room, cell) == [r \in {room} |-> cell]

\* What the parts of a write are.
LEMMA PartsAre ==
  ASSUME OneSize, NEW k, NEW room \in 0 .. LOGIDX_END,
         NEW header, header.seq = k, header.len \in Lengths
  PROVE  LET parts == Parts(room, header)
         IN /\ Len(parts) = IF header.only THEN 1 ELSE BodyRooms + 2
            /\ parts[1] = HeaderPart(room, header)
            /\ ~header.only =>
                 /\ \A i \in 2 .. BodyRooms + 1 : parts[i] = One(room + i, Body(k))
                 /\ parts[BodyRooms + 2] = One(room + BodyRooms + 2, End(k, header.len % 4))
<1>1. header.seq = k /\ header.len \in Lengths
  OBVIOUS
<1>2. /\ BodyRooms \in Nat /\ header.len \div 4 = BodyRooms /\ header.len \in Nat
  BY <1>1, Sizes
<1> DEFINE body == BodyParts(room, header)
           end == EndPart(room, header)
           head == HeaderPart(room, header)
<1>3. /\ body = [i \in 1 .. BodyRooms |-> [r \in {room + i + 1} |-> Body(k)]]
      /\ end = [r \in {room + BodyRooms + 2} |-> End(k, header.len % 4)]
  <2>1. room \in Int /\ CanaryRoom(room + 2, header.len) = room + BodyRooms + 2
    BY <1>2 DEF CanaryRoom
  <2> QED  BY <1>1, <1>2, <2>1 DEF BodyParts, EndPart
<1>4. Parts(room, header) = <<head>> \o (IF header.only THEN << >> ELSE Append(body, end))
  BY DEF Parts
<1> HIDE DEF body, end, head
<1>5. CASE header.only
  BY <1>4, <1>5 DEF head
<1>6. CASE ~header.only
  <2> DEFINE S == {body[i] : i \in 1 .. BodyRooms} \cup {end, head}
  <2>1. body \in Seq(S) /\ Len(body) = BodyRooms
    <3>1. body \in [1 .. BodyRooms -> S]
      BY <1>3
    <3> HIDE DEF S
    <3> QED  BY <3>1, <1>2, SeqDef
  <2>2. end \in S /\ head \in S
    OBVIOUS
  <2> HIDE DEF S
  <2> DEFINE tail == Append(body, end)
  <2>3. /\ tail \in Seq(S) /\ Len(tail) = BodyRooms + 1
        /\ \A i \in 1 .. BodyRooms : tail[i] = body[i]
        /\ tail[BodyRooms + 1] = end
    BY <2>1, <2>2, <1>2
  <2> HIDE DEF tail
  <2>4. Parts(room, header) = <<head>> \o tail
    BY <1>4, <1>6 DEF tail
  <2> DEFINE parts == <<head>> \o tail
  <2>5. /\ <<head>> \in Seq(S) /\ Len(<<head>>) = 1 /\ <<head>>[1] = head
    BY <2>2
  <2>6. /\ Len(parts) = BodyRooms + 2
        /\ parts[1] = head
        /\ \A i \in 2 .. BodyRooms + 2 : parts[i] = tail[i - 1]
    BY <2>3, <2>5, <1>2
  <2> HIDE DEF parts
  <2>7. ASSUME NEW i \in 2 .. BodyRooms + 1
        PROVE  parts[i] = One(room + i, Body(k))
    <3>1. i - 1 \in 1 .. BodyRooms /\ i \in 2 .. BodyRooms + 2 /\ room + (i - 1) + 1 = room + i
      BY <1>2
    <3>2. parts[i] = body[i - 1]
      BY <3>1, <2>3, <2>6
    <3>3. body[i - 1] = [r \in {room + (i - 1) + 1} |-> Body(k)]
      BY <3>1, <1>3
    <3>4. parts[i] = [r \in {room + i} |-> Body(k)]
      BY <3>1, <3>2, <3>3
    <3> QED  BY <3>4 DEF One
  <2>8. parts[BodyRooms + 2] = end
    <3>1. BodyRooms + 2 \in 2 .. BodyRooms + 2 /\ (BodyRooms + 2) - 1 = BodyRooms + 1
      BY <1>2
    <3>2. parts[BodyRooms + 2] = tail[(BodyRooms + 2) - 1]
      BY <3>1, <2>6
    <3> QED  BY <3>1, <3>2, <2>3
  <2>9. Parts(room, header) = parts
    BY <2>4 DEF parts
  <2>10. parts[BodyRooms + 2] = One(room + BodyRooms + 2, End(k, header.len % 4))
    BY <2>8, <1>3 DEF One
  <2>11. parts[1] = HeaderPart(room, header)
    BY <2>6 DEF head
  <2> HIDE DEF parts
  <2>12. \A i \in 2 .. BodyRooms + 1 : parts[i] = One(room + i, Body(k))
    BY <2>7
  <2>13. Len(parts) = BodyRooms + 2
    BY <2>6
  <2> HIDE DEF parts
  <2> QED  BY Zenon, <2>9, <2>10, <2>11, <2>12, <2>13, <1>6
<1> QED  BY <1>5, <1>6

\* The parts of an entry that was written.
LEMMA PartsOf ==
  ASSUME OneSize, NEW k \in 1 .. Len(written), NEW room \in 0 .. LOGIDX_END,
         NEW header \in HeadersOf(k)
  PROVE  /\ Len(Parts(room, header)) = IF header.only THEN 1 ELSE BodyRooms + 2
         /\ Parts(room, header)[1] = HeaderPart(room, header)
         /\ ~header.only =>
              /\ \A i \in 2 .. BodyRooms + 1 :
                   Parts(room, header)[i] = One(room + i, Body(k))
              /\ Parts(room, header)[BodyRooms + 2]
                   = One(room + BodyRooms + 2, End(k, header.len % 4))
<1>1. header.seq = k /\ header.len \in Lengths
  BY DEF HeadersOf
<1> QED  BY ZenonT(60), <1>1, PartsAre

\* How many of them there are.
LEMMA PartsCount ==
  ASSUME OneSize, NEW k \in 1 .. Len(written), NEW room \in 0 .. LOGIDX_END,
         NEW header \in HeadersOf(k)
  PROVE  Len(Parts(room, header)) = IF header.only THEN 1 ELSE BodyRooms + 2
  BY PartsOf

----------------------------------------------------------------------------
(* The memory during a lap                                                 *)

\* The inductive invariant of the ring.
RingTypeInv == HotelTypeInv /\ RingInv

\* How the counts are related: the writer is less than a lap ahead of the entry
\* before the last one detected.
LEMMA Counts ==
  ASSUME RingAssumption, RingTypeInv
  PROVE  /\ OneSize
         /\ Len(written) \in Nat /\ Len(taken) \in Nat /\ Detected \in Nat
         /\ PerLap \in Nat /\ PerLap >= 2 /\ Lead \in Nat
         /\ PROPOSALS \in Nat /\ PROPOSALS > 0
         /\ Len(taken) <= Detected /\ Detected <= Len(taken) + 1
         /\ Detected <= Len(written)
         /\ Len(written) < Len(taken) + PerLap
         /\ DOMAIN written = 1 .. Len(written)
         /\ written \in Seq(Entries)
<1>1. OneSize /\ Lead \in Nat /\ PROPOSALS \in Nat /\ PROPOSALS > 0
  BY HotelAssumption DEF RingAssumption
<1>2. PerLap \in Nat /\ Lead + 2 <= PerLap
  BY <1>1, Lap DEF RingAssumption
<1>3. written \in Seq(Entries) /\ taken \in Seq(Entries \cup {Torn})
  BY DEF RingTypeInv, HotelTypeInv, TypeOK
<1>4. Detected <= Len(written) /\ Len(written) <= Len(taken) + Lead + 1
  BY DEF RingTypeInv, RingInv, CursorInv
<1>5. Len(written) \in Nat /\ Len(taken) \in Nat
  BY <1>3
<1>6. Detected \in Nat /\ Len(taken) <= Detected /\ Detected <= Len(taken) + 1
  BY <1>5 DEF Detected
<1> QED  BY <1>1, <1>2, <1>3, <1>4, <1>5, <1>6

\* All rooms of an entry are in the region.
LEMMA RoomsOf ==
  ASSUME OneSize, NEW k \in Nat \ {0}, NEW len \in Lengths
  PROVE  /\ Place(k) .. Place(k) + Stride - 1 \subseteq Region
         /\ Place(k) \in Region /\ Place(k) \in Nat
         /\ CanaryRoom(Place(k) + 2, len) = Place(k) + Stride - 1
<1>1. Place(k) \in 0 .. LOGIDX_END /\ len \div 4 = BodyRooms /\ Stride = BodyRooms + 3
      /\ BodyRooms \in Nat
  BY PlaceNext, Sizes
<1>2. Place(k) \in Nat
  BY <1>1, RoomsAssumption
<1>3. CanaryRoom(Place(k) + 2, len) = Place(k) + Stride - 1
  BY <1>1, <1>2 DEF CanaryRoom
<1>4. Place(k) .. CanaryRoom(Place(k) + 2, len) \subseteq Region
  BY <1>1, InRegion
<1> QED  BY <1>1, <1>2, <1>3, <1>4

\* Nothing moves in memory or on the wire.
LEMMA QuietKeeps ==
  ASSUME MemoryInv, WireInv, HeaderInv, CanaryInv,
         mem' = mem, wire' = wire, written' = written, Detected' = Detected
  PROVE  MemoryInv' /\ WireInv' /\ HeaderInv' /\ CanaryInv'
<1>1. \A k : HeadersOf(k)' = HeadersOf(k)
  BY DEF HeadersOf
<1>2. \A k : InMemory(k)' <=> InMemory(k)
  BY <1>1 DEF InMemory, EndOf
<1>3. \A k : Complete(k)' <=> Complete(k)
  BY DEF Complete
<1>4. HeaderPending' <=> HeaderPending
  BY DEF HeaderPending
<1>5. MemoryInv'
  BY <1>2, <1>3 DEF MemoryInv
<1>6. WireInv'
  BY <1>1 DEF WireInv
<1>7. HeaderInv'
  BY <1>1, <1>4 DEF HeaderInv
<1>8. CanaryInv'
  BY <1>3 DEF CanaryInv
<1> QED  BY <1>5, <1>6, <1>7, <1>8

\* Two entries at one place are a lap apart.
LEMMA SamePlace ==
  ASSUME OneSize, NEW j \in Nat \ {0}, NEW k \in Nat \ {0}, j < k, Place(j) = Place(k)
  PROVE  j + PerLap <= k
<1>1. Stride \in Nat /\ Stride > 0 /\ PerLap \in Nat
  BY Sizes, Lap
<1>2. Place(j) \in Nat
  <2>1. Place(j) \in 0 .. LOGIDX_END
    BY PlaceNext
  <2> QED  BY <2>1, RoomsAssumption
<1> SUFFICES ASSUME k < j + PerLap  PROVE FALSE
  BY <1>1
<1>3. Place(j) + Stride <= Place(k) \/ Place(k) + Stride <= Place(j)
  BY PlaceApart
<1> QED  BY <1>1, <1>2, <1>3

\* A canary the reader can see from its cursor is that of the next entry.
LEMMA CanaryIsNext ==
  ASSUME RingAssumption, RingTypeInv, NEW r, r = CanaryRoom(cursor + 2, seen.len),
         CanaryAt(r, seen.len % 4)
  PROVE  /\ Detected + 1 <= Len(written) /\ Complete(Detected + 1)
         /\ ~written[Detected + 1].only
         /\ r = Place(Detected + 1) + Stride - 1 /\ r \in Region
<1> DEFINE k == Detected + 1
<1>1. /\ OneSize /\ k \in Nat \ {0} /\ Len(written) \in Nat
      /\ PerLap \in Nat /\ Len(written) < k + PerLap
  <2>1. /\ OneSize /\ Detected \in Nat /\ Len(written) \in Nat /\ PerLap \in Nat
        /\ Len(taken) \in Nat /\ Len(taken) <= Detected
        /\ Len(written) < Len(taken) + PerLap
    BY Counts
  <2> QED  BY <2>1
<1>2. cursor = Place(k) /\ cursor \in 0 .. LOGIDX_END /\ cursor \in Nat
  BY RoomsAssumption DEF RingTypeInv, HotelTypeInv, TypeOK, RingInv, CursorInv
<1>3. seen.len \in Lengths \cup {0}
  BY DEF RingTypeInv, HotelTypeInv, TypeOK
<1>4. Stride = BodyRooms + 3 /\ BodyRooms \in Nat
  BY <1>1, Sizes
<1> HIDE DEF k
<1>5. r \in Region /\ r \in Place(k) + 2 .. Place(k) + Stride - 1
  <2>1. CASE seen.len \in Lengths
    <3>1. r = Place(k) + Stride - 1
      BY <2>1, <1>1, <1>2, RoomsOf
    <3>2. Place(k) .. Place(k) + Stride - 1 \subseteq Region
      BY <2>1, <1>1, RoomsOf
    <3> QED  BY <3>1, <3>2, <1>2, <1>4
  <2>2. CASE seen.len = 0
    <3>1. 0 \div 4 = 0
      OBVIOUS
    <3>2. r = cursor + 2
      BY <2>2, <3>1, <1>2 DEF CanaryRoom
    <3>3. r \in Region
      BY <3>2, <1>2, RoomsAssumption, HotelAssumption DEF Region
    <3> QED  BY <3>2, <3>3, <1>2, <1>4
  <2> QED  BY <2>1, <2>2, <1>3
<1>6. mem[r].kind = "end" /\ mem[r].canary
  BY DEF CanaryAt
<1> DEFINE j == mem[r].seq
<1>7. /\ j \in Detected + 1 .. Len(written) /\ ~written[j].only
      /\ r = Place(j) + Stride - 1 /\ Complete(j)
  BY <1>5, <1>6 DEF RingTypeInv, RingInv, CanaryInv
<1>8. j \in Nat \ {0} /\ k <= j /\ j <= Len(written)
  BY <1>1, <1>7 DEF k
<1> HIDE DEF j
<1>9. j = k
  <2> SUFFICES ASSUME k < j  PROVE FALSE
    BY <1>1, <1>8
  <2>1. Place(k) + Stride <= Place(j) \/ Place(j) + Stride <= Place(k)
    BY <1>1, <1>8, PlaceApart
  <2>2. Place(j) \in 0 .. LOGIDX_END
    BY <1>1, <1>8, PlaceNext
  <2>3. Place(j) \in Nat /\ Place(k) \in Nat
    BY <2>2, <1>2, RoomsAssumption
  <2> QED  BY <2>1, <2>3, <1>4, <1>5, <1>7
<1> QED  BY <1>5, <1>7, <1>8, <1>9 DEF k

\* A header the reader takes for a bare entry is that of the next entry, not of
\* the lap before.
LEMMA HeaderIsNext ==
  ASSUME RingAssumption, RingTypeInv,
         HeaderAt(cursor).proposal = local_proposal, HeaderAt(cursor).only
  PROVE  /\ Detected + 1 <= Len(written) /\ Complete(Detected + 1)
         /\ written[Detected + 1].only
<1> DEFINE k == Detected + 1
           header == mem[cursor]
           j == header.seq
           W == Len(written)
<1>1. /\ OneSize /\ k \in Nat \ {0} /\ k - 1 = Detected /\ W \in Nat /\ k - 1 <= W
      /\ PerLap \in Nat /\ PerLap >= 2 /\ W < k + PerLap
      /\ PROPOSALS \in Nat /\ PROPOSALS > 0
  <2>1. /\ OneSize /\ Detected \in Nat /\ Len(written) \in Nat /\ PerLap \in Nat
        /\ Len(taken) \in Nat /\ Len(taken) <= Detected /\ PerLap >= 2
        /\ Len(written) < Len(taken) + PerLap /\ Detected <= Len(written)
        /\ PROPOSALS \in Nat /\ PROPOSALS > 0
    BY Counts
  <2> QED  BY <2>1
<1>2. cursor = Place(k) /\ cursor \in 0 .. LOGIDX_END /\ local_proposal = (k - 1) % PROPOSALS
  BY <1>1 DEF RingTypeInv, HotelTypeInv, TypeOK, RingInv, CursorInv
<1>3. header.kind = "header" /\ HeaderAt(cursor) = header
  BY DEF HeaderAt, Header
<1>4. cursor \in Region
  BY <1>2, RoomsAssumption, HotelAssumption DEF Region
<1>5. /\ j \in 1 .. W /\ cursor = Place(j) /\ header \in HeadersOf(j)
      /\ IF HeaderPending THEN j < W /\ W <= j + PerLap ELSE W < j + PerLap
  BY <1>3, <1>4 DEF RingTypeInv, RingInv, HeaderInv
<1>6. /\ header.proposal = (j - 1) % PROPOSALS /\ header.only = written[j].only
      /\ j \in Nat \ {0} /\ j <= W
  BY SMTT(60), <1>1, <1>5 DEF HeadersOf
<1>7. written[j].only \in HeaderOnly
  BY <1>5 DEF RingTypeInv, RingInv, CursorInv
<1>8. written[j].only /\ TRUE \in HeaderOnly
  <2>1. header.only = TRUE
    BY <1>3, <1>6, <1>7, HotelAssumption
  <2> QED  BY <2>1, <1>6, <1>7
<1>9. PerLap % PROPOSALS # 0
  BY <1>8 DEF RingAssumption
<1>10. (j - 1) % PROPOSALS = (k - 1) % PROPOSALS
  BY <1>2, <1>3, <1>6
<1>15. W <= j + PerLap
  BY <1>1, <1>5, <1>6
<1> HIDE DEF j, k, W, header
<1>11. j = k
  <2>1. CASE k < j
    <3>1. k + PerLap <= j
      BY <2>1, <1>1, <1>2, <1>5, <1>6, SamePlace
    <3> QED  BY <3>1, <1>1, <1>6
  <2>2. CASE j < k
    <3>1. j + PerLap <= k
      BY <2>2, <1>1, <1>2, <1>5, <1>6, SamePlace
    <3>2. k = j + PerLap \/ k = j + PerLap + 1
      BY <3>1, <1>1, <1>6, <1>15
    <3>3. k # j + PerLap + 1
      <4> SUFFICES ASSUME k = j + PerLap + 1  PROVE FALSE
        OBVIOUS
      <4> DEFINE i == j + PerLap
      <4>1. i \in Nat \ {0} /\ i < k /\ ~(i + PerLap <= k)
        BY <1>1, <1>6
      <4>2. Place(i) = Place(j)
        BY <1>1, <1>6, PlaceNext
      <4> HIDE DEF i
      <4> QED  BY <4>1, <4>2, <1>1, <1>2, <1>5, SamePlace
    <3>4. k - 1 = (j - 1) + PerLap /\ j - 1 \in Nat
      BY <3>2, <3>3, <1>1, <1>6
    <3>5. (j - 1) % PROPOSALS # ((j - 1) + PerLap) % PROPOSALS
      BY <3>4, <1>1, <1>9, ModShift
    <3> QED  BY <3>4, <3>5, <1>10
  <2> QED  BY <2>1, <2>2, <1>1, <1>6
<1>12. Complete(k)
  <2> SUFFICES ASSUME k = W, wire # << >>  PROVE FALSE
    BY DEF Complete, W
  <2>1. ~HeaderPending
    BY <1>1, <1>5, <1>11
  <2>2. PICK h \in HeadersOf(W) :
          \E n \in 0 .. Len(Parts(Place(W), h)) - 1 :
            /\ Len(wire) = Len(Parts(Place(W), h)) - n
            /\ \A i \in 1 .. Len(wire) : wire[i] = Parts(Place(W), h)[n + i]
    BY DEF RingTypeInv, RingInv, WireInv, W
  <2>3. TypeOK /\ W \in 1 .. Len(written) /\ Place(W) \in 0 .. LOGIDX_END
    BY <1>1, <1>2 DEF RingTypeInv, HotelTypeInv, W
  <2>4. h.only
    BY <1>8, <1>11 DEF HeadersOf
  <2>5. Len(Parts(Place(W), h)) = 1 /\ Parts(Place(W), h)[1] = HeaderPart(Place(W), h)
    BY <1>1, <2>3, <2>4, PartsOf
  <2>6. Len(wire) = 1 /\ wire[1] = HeaderPart(Place(W), h)
    BY <2>2, <2>5
  <2>7. wire \in Seq(Patches)
    BY DEF RingTypeInv, HotelTypeInv
  <2>8. Head(wire) = HeaderPart(Place(W), h)
    BY <2>6, <2>7
  <2>9. Place(W) \in DOMAIN Head(wire)
    BY <2>8 DEF HeaderPart
  <2> QED  BY <2>1, <2>9 DEF HeaderPending, W
<1> QED  BY <1>6, <1>8, <1>11, <1>12 DEF k, W

\* An entry stays in memory while nobody writes to its rooms and it is not the
\* one being detected.
LEMMA Unharmed ==
  ASSUME OneSize, NEW j \in Nat \ {0}, InMemory(j),
         \A x \in Place(j) .. Place(j) + Stride - 1 : mem'[x] = mem[x],
         written'[j] = written[j], Detected' < j <=> Detected < j
  PROVE  InMemory(j)'
<1> DEFINE header == mem[Place(j)]
<1>1. Place(j) \in Nat /\ Stride \in Nat /\ Stride >= 3
  <2>1. Place(j) \in 0 .. LOGIDX_END
    BY PlaceNext
  <2> QED  BY <2>1, RoomsAssumption, Sizes
<1>2. HeadersOf(j)' = HeadersOf(j) /\ \A len : EndOf(j, len)' = EndOf(j, len)
  BY DEF HeadersOf, EndOf
<1>3. /\ mem'[Place(j)] = header
      /\ \A x \in Place(j) + 2 .. Place(j) + Stride - 2 : mem'[x] = mem[x]
      /\ mem'[Place(j) + Stride - 1] = mem[Place(j) + Stride - 1]
  BY <1>1
<1> QED  BY <1>2, <1>3 DEF InMemory

\* The reader detects an entry.
LEMMA DetectKeeps ==
  ASSUME RingAssumption, RingTypeInv, Test, NEW k, k = Detected + 1,
         NEW r, r = CanaryRoom(cursor + 2, seen.len),
         HeaderAt(cursor).proposal = local_proposal, seen.canary \/ HeaderAt(cursor).only
  PROVE  CursorInv' /\ MemoryInv' /\ WireInv' /\ HeaderInv' /\ CanaryInv'
<1> DEFINE W == Len(written)
           header == mem[cursor]
           last == Place(k) + Stride - 1
<1>1. /\ at = "test" /\ at' = "act" /\ header_room' = cursor
      /\ cursor' = NextFreeRoom(cursor + 2, HeaderAt(cursor).len + 1)
      /\ local_proposal' = (HeaderAt(cursor).proposal + 1) % PROPOSALS
      /\ mem' = IF CanaryAt(r, seen.len % 4) THEN [mem EXCEPT ![r].canary = FALSE] ELSE mem
      /\ next_room_free' = next_room_free /\ proposal' = proposal /\ written' = written
      /\ wire' = wire /\ prev_header_room' = prev_header_room /\ seen' = seen
      /\ taken' = taken
  BY DEF Test, Detect, ClearCanary, writerVars
<1>2. /\ OneSize /\ k \in Nat \ {0} /\ k - 1 = Detected /\ W \in Nat
      /\ PerLap \in Nat /\ PerLap >= 2 /\ W < k + PerLap
      /\ PROPOSALS \in Nat /\ PROPOSALS > 0 /\ Len(taken) \in Nat
  <2>1. /\ OneSize /\ Detected \in Nat /\ Len(written) \in Nat /\ PerLap \in Nat
        /\ Len(taken) \in Nat /\ Len(taken) <= Detected /\ PerLap >= 2
        /\ Len(written) < Len(taken) + PerLap
        /\ PROPOSALS \in Nat /\ PROPOSALS > 0
    BY Counts
  <2> QED  BY <2>1
<1>3. Detected' = k /\ Detected = Len(taken)
  BY <1>1, <1>2 DEF Detected
<1>4. /\ CursorInv /\ MemoryInv /\ WireInv /\ HeaderInv /\ CanaryInv
      /\ mem \in [Region -> RoomCells]
  BY DEF RingTypeInv, HotelTypeInv, RingInv, TypeOK
<1>5. cursor = Place(k) /\ local_proposal = (k - 1) % PROPOSALS
  BY <1>2, <1>4 DEF CursorInv
<1>6. seen.canary => CanaryAt(r, seen.len % 4)
  BY <1>1, <1>4 DEF CursorInv
<1>7. k <= W /\ Complete(k)
  BY <1>6, CanaryIsNext, HeaderIsNext
<1>8. InMemory(k)
  BY <1>2, <1>4, <1>7 DEF MemoryInv
<1>9. /\ header \in HeadersOf(k) /\ header.kind = "header" /\ header.len \in Lengths
      /\ header.proposal = (k - 1) % PROPOSALS /\ header.only = written[k].only
      /\ HeaderAt(cursor) = header
  BY <1>5, <1>8 DEF InMemory, HeadersOf, HeaderAt
<1>10. written[k].only \in BOOLEAN
  BY SMTT(60), <1>2, <1>4, <1>7, HotelAssumption DEF CursorInv
<1>11. /\ last \in Region /\ Place(k) \in Nat
       /\ Place(k) .. last \subseteq Region
       /\ Stride \in Nat /\ Stride >= 3
  <2>1. /\ Place(k) .. last \subseteq Region /\ Place(k) \in Nat
    BY <1>2, <1>9, RoomsOf
  <2>2. Stride \in Nat /\ Stride >= 3
    BY <1>2, Sizes
  <2> QED  BY <2>1, <2>2
<1>12. PICK len \in Lengths : len = header.len
  BY <1>9
<1> HIDE DEF W, header, last
\* What the canary of the entry becomes.
<1>13. /\ \A x \in Region : mem'[x] = mem[x] \/ (x = last /\ mem[x].kind = "end")
       /\ \A x \in Region : mem'[x].kind = mem[x].kind
       /\ written[k].only => mem' = mem
       /\ ~written[k].only =>
            mem'[last] = [kind |-> "end", seq |-> k, offset |-> len % 4, canary |-> FALSE]
  <2>1. CASE written[k].only
    <3>1. ~CanaryAt(r, seen.len % 4)
      BY <2>1, CanaryIsNext
    <3> QED  BY <2>1, <3>1, <1>1
  <2>2. CASE ~written[k].only
    <3>1. CanaryAt(r, seen.len % 4)
      BY <2>2, <1>6, <1>9
    <3>2. r = last /\ r \in Region
      BY <3>1, CanaryIsNext DEF last
    <3>3. mem[last] = EndOf(k, len)
      BY <2>2, <1>5, <1>8, <1>9, <1>12 DEF InMemory, header, last
    <3>4. mem' = [mem EXCEPT ![last].canary = FALSE]
      BY <3>1, <3>2, <1>1
    <3>5. mem'[last] = [mem[last] EXCEPT !.canary = FALSE]
      BY <3>2, <3>4, <1>4
    <3>6. mem'[last] = [kind |-> "end", seq |-> k, offset |-> len % 4, canary |-> FALSE]
      <4>1. PICK c : c = (Detected < k)
        OBVIOUS
      <4>2. mem[last] = [kind |-> "end", seq |-> k, offset |-> len % 4, canary |-> c]
        BY Zenon, <3>3, <4>1 DEF EndOf
      <4>3. ASSUME NEW o
            PROVE  [[kind |-> "end", seq |-> k, offset |-> o, canary |-> c] EXCEPT !.canary = FALSE]
                     = [kind |-> "end", seq |-> k, offset |-> o, canary |-> FALSE]
        <5>1. PICK e : e = [kind |-> "end", seq |-> k, offset |-> o, canary |-> c]
          OBVIOUS
        <5>2. e \in [kind : {"end"}, seq : {k}, offset : {o}, canary : {c}]
          BY <5>1
        <5>3. [e EXCEPT !.canary = FALSE]
                \in [kind : {"end"}, seq : {k}, offset : {o}, canary : {FALSE}]
          BY <5>2
        <5>4. [e EXCEPT !.canary = FALSE]
                = [kind |-> "end", seq |-> k, offset |-> o, canary |-> FALSE]
          <6>1. PICK f : f = [e EXCEPT !.canary = FALSE]
            OBVIOUS
          <6>2. f \in [kind : {"end"}, seq : {k}, offset : {o}, canary : {FALSE}]
            BY <5>3, <6>1
          <6>3. f = [kind |-> "end", seq |-> k, offset |-> o, canary |-> FALSE]
            BY <6>2
          <6> QED  BY Zenon, <6>1, <6>3
        <5> QED  BY Zenon, <5>1, <5>4
      <4>4. [[kind |-> "end", seq |-> k, offset |-> len % 4, canary |-> c] EXCEPT !.canary = FALSE]
              = [kind |-> "end", seq |-> k, offset |-> len % 4, canary |-> FALSE]
        BY Zenon, <4>3
      <4> QED  BY Zenon, <3>5, <4>2, <4>4
    <3>7. \A x \in Region : x # last => mem'[x] = mem[x]
      BY <3>4, <1>4
    <3>8. mem[last].kind = "end" /\ mem'[last].kind = "end"
      BY <3>3, <3>6 DEF EndOf
    <3> QED  BY <2>2, <3>6, <3>7, <3>8
  <2> QED  BY <2>1, <2>2, <1>10
<1>14. MemoryInv'
  <2> SUFFICES ASSUME NEW j \in 1 .. W, W < j + PerLap, Complete(j)
               PROVE  InMemory(j)'
    BY <1>1 DEF MemoryInv, Complete, W
  <2>1. j \in Nat \ {0} /\ InMemory(j)
    BY <1>2, <1>4 DEF MemoryInv, W
  <2>2. CASE j = k
    <3>1. mem'[Place(k)] = header
      <4>1. Place(k) \in Region
        BY <1>11 DEF last
      <4>2. mem[Place(k)] = header /\ mem[Place(k)].kind # "end"
        BY <1>5, <1>9 DEF header
      <4> QED  BY <4>1, <4>2, <1>13
    <3>2. HeadersOf(k)' = HeadersOf(k)
      BY <1>1 DEF HeadersOf
    <3>3. CASE written[k].only
      BY <2>2, <3>1, <3>2, <3>3, <1>9 DEF InMemory
    <3>4. CASE ~written[k].only
      <4>1. ASSUME NEW x \in Place(k) + 2 .. Place(k) + Stride - 2
            PROVE  mem'[x] = Body(k)
        <5>1. mem[x] = Body(k)
          BY <3>4, <1>5, <1>8, <1>9 DEF InMemory, header
        <5>2. x \in Region
          BY <1>11 DEF last
        <5> QED  BY <5>1, <5>2, <1>13 DEF Body
      <4>2. EndOf(k, len)' = [kind |-> "end", seq |-> k, offset |-> len % 4, canary |-> FALSE]
        <5>1. (Detected' < k) = FALSE
          BY <1>2, <1>3
        <5> QED  BY Zenon, <5>1 DEF EndOf
      <4>3. mem'[last] = EndOf(k, len)'
        BY <3>4, <4>2, <1>13
      <4> QED  BY <2>2, <3>1, <3>2, <4>1, <4>3, <1>9, <1>12 DEF InMemory, last
    <3> QED  BY <3>3, <3>4, <1>10
  <2>3. CASE j # k
    <3>1. PICK l \in Lengths : l = mem[Place(j)].len
      BY <2>1 DEF InMemory, HeadersOf
    <3>2. Place(j) .. Place(j) + Stride - 1 \subseteq Region /\ Place(j) \in Nat
      BY <2>1, <1>2, <3>1, RoomsOf
    <3>3. last \notin Place(j) .. Place(j) + Stride - 1
      <4>1. CASE j < k
        <5>1. k < j + PerLap
          BY <1>2, <1>7, <2>1
        <5>2. Place(j) + Stride <= Place(k) \/ Place(k) + Stride <= Place(j)
          BY <4>1, <5>1, <2>1, <1>2, PlaceApart
        <5> QED  BY <5>2, <3>2, <1>11 DEF last
      <4>2. CASE k < j
        <5>1. j < k + PerLap
          BY <1>2, <2>1
        <5>2. Place(j) + Stride <= Place(k) \/ Place(k) + Stride <= Place(j)
          BY <4>2, <5>1, <2>1, <1>2, PlaceApart
        <5> QED  BY <5>2, <3>2, <1>11 DEF last
      <4> QED  BY <4>1, <4>2, <2>3, <2>1, <1>2
    <3>4. \A x \in Place(j) .. Place(j) + Stride - 1 : mem'[x] = mem[x]
      BY <3>2, <3>3, <1>13
    <3>5. Detected' < j <=> Detected < j
      BY <1>2, <1>3, <2>1, <2>3
    <3>6. written'[j] = written[j]
      BY <1>1
    <3> QED  BY <1>2, <2>1, <3>4, <3>5, <3>6, Unharmed
  <2> QED  BY <2>2, <2>3
<1>15. WireInv'
  <2> SUFFICES ASSUME wire # << >>  PROVE WireInv'
    BY <1>1 DEF WireInv
  <2>1. k < W
    BY <1>2, <1>7 DEF Complete, W
  <2>12. PICK h \in HeadersOf(W) : \E n \in 0 .. Len(Parts(Place(W), h)) - 1 :
          /\ Len(wire) = Len(Parts(Place(W), h)) - n
          /\ \A i \in 1 .. Len(wire) : wire[i] = Parts(Place(W), h)[n + i]
          /\ n > 0 => mem[Place(W)] = h
          /\ \A i \in 1 .. n - 1 : mem[Place(W) + i + 1] = Body(W)
    BY <1>4 DEF WireInv, W
  <2>2. PICK n \in 0 .. Len(Parts(Place(W), h)) - 1 :
          /\ Len(wire) = Len(Parts(Place(W), h)) - n
          /\ \A i \in 1 .. Len(wire) : wire[i] = Parts(Place(W), h)[n + i]
          /\ n > 0 => mem[Place(W)] = h
          /\ \A i \in 1 .. n - 1 : mem[Place(W) + i + 1] = Body(W)
    BY <2>12
  <2>3. PICK V : V = W
    OBVIOUS
  <2>4. V = Len(written') /\ HeadersOf(V)' = HeadersOf(V) /\ V \in 1 .. Len(written)
        /\ V \in Nat \ {0}
    BY <2>1, <2>3, <1>1, <1>2 DEF HeadersOf, W
  <2>5. h \in HeadersOf(V) /\ h.kind = "header" /\ h.len \in Lengths /\ h.only = written[V].only
    BY <2>2, <2>3 DEF HeadersOf
  <2>6. /\ Place(V) .. Place(V) + Stride - 1 \subseteq Region
        /\ Place(V) \in Region /\ Place(V) \in Nat
        /\ Place(V) \in 0 .. LOGIDX_END
    BY <2>4, <2>5, <1>2, RoomsOf, PlaceNext
  <2>7. /\ Len(Parts(Place(V), h)) \in Nat
        /\ Len(Parts(Place(V), h)) <= BodyRooms + 2
        /\ BodyRooms \in Nat /\ Stride = BodyRooms + 3
    <3>1. TypeOK
      BY DEF RingTypeInv, HotelTypeInv
    <3>2. Len(Parts(Place(V), h)) = IF h.only THEN 1 ELSE BodyRooms + 2
      BY <3>1, <2>4, <2>5, <2>6, <1>2, PartsCount
    <3>3. BodyRooms \in Nat /\ Stride = BodyRooms + 3
      BY <1>2, Sizes
    <3> QED  BY <3>2, <3>3
  <2>8. n > 0 => mem'[Place(V)] = h
    BY <2>2, <2>3, <2>5, <2>6, <1>13
  <2>9. ASSUME NEW i \in 1 .. n - 1  PROVE mem'[Place(V) + i + 1] = Body(V)
    <3>1. Place(V) + i + 1 \in Place(V) .. Place(V) + Stride - 1
      BY <2>2, <2>3, <2>6, <2>7
    <3>2. mem[Place(V) + i + 1] = Body(V)
      BY <2>2, <2>3
    <3> QED  BY <3>1, <3>2, <2>6, <1>13 DEF Body
  <2>10. Detected' < V
    BY <2>1, <2>3, <1>3
  <2> QED  BY <2>2, <2>3, <2>4, <2>5, <2>8, <2>9, <2>10, <1>1 DEF WireInv
<1>16. HeaderInv'
  <2> SUFFICES ASSUME NEW x \in Region, mem'[x].kind = "header"
               PROVE  /\ mem'[x].seq \in 1 .. Len(written) /\ x = Place(mem'[x].seq)
                      /\ mem'[x] \in HeadersOf(mem'[x].seq)
                      /\ IF HeaderPending
                           THEN mem'[x].seq < Len(written) /\ Len(written) <= mem'[x].seq + PerLap
                           ELSE Len(written) < mem'[x].seq + PerLap
    <3>1. HeaderPending' <=> HeaderPending
      BY <1>1 DEF HeaderPending
    <3>2. \A j : HeadersOf(j)' = HeadersOf(j)
      BY <1>1 DEF HeadersOf
    <3> QED  BY <3>1, <3>2, <1>1 DEF HeaderInv
  <2>1. mem'[x] = mem[x]
    BY <1>13
  <2> QED  BY <2>1, <1>4 DEF HeaderInv
<1>17. CanaryInv'
  <2> SUFFICES ASSUME NEW x \in Region, mem'[x].kind = "end", mem'[x].canary
               PROVE  /\ mem'[x].seq \in k + 1 .. W
                      /\ ~written[mem'[x].seq].only
                      /\ x = Place(mem'[x].seq) + Stride - 1
                      /\ Complete(mem'[x].seq)
    BY <1>1, <1>3 DEF CanaryInv, Complete, W
  <2>1. mem'[x] = mem[x]
    <3> SUFFICES ASSUME x = last, mem' # mem  PROVE FALSE
      BY <1>13
    <3> QED  BY <1>10, <1>13
  <2> DEFINE j == mem[x].seq
  <2>2. /\ j \in Detected + 1 .. W /\ ~written[j].only
        /\ x = Place(j) + Stride - 1 /\ Complete(j)
    BY <2>1, <1>4 DEF CanaryInv, W
  <2> HIDE DEF j
  <2>3. j # k
    BY <1>13, <2>1, <2>2 DEF last
  <2>4. j \in k + 1 .. W
    BY <2>2, <2>3, <1>2
  <2> QED  BY <2>1, <2>2, <2>4 DEF j
<1>18. CursorInv'
  <2>1. cursor' = Place(k + 1)
    BY <1>1, <1>2, <1>5, <1>9, NextPlace
  <2>2. local_proposal' = k % PROPOSALS
    <3> DEFINE m == (k - 1) % PROPOSALS
    <3>1. k - 1 \in Nat /\ k = (k - 1) + 1
      BY <1>2
    <3>2. /\ m \in 0 .. PROPOSALS - 1
          /\ ((k - 1) + 1) % PROPOSALS = IF m + 1 = PROPOSALS THEN 0 ELSE m + 1
      BY <3>1, <1>2, ModNext
    <3>3. local_proposal' = (m + 1) % PROPOSALS
      BY <1>1, <1>9
    <3> HIDE DEF m
    <3>4. (m + 1) % PROPOSALS = IF m + 1 = PROPOSALS THEN 0 ELSE m + 1
      <4>1. CASE m + 1 = PROPOSALS
        <5>1. m + 1 \in Nat /\ m + 1 = 1 * PROPOSALS + 0 /\ 0 \in 0 .. PROPOSALS - 1
          BY <4>1, <3>2, <1>2
        <5> QED  BY <4>1, <5>1, <1>2, Remainder
      <4>2. CASE m + 1 # PROPOSALS
        <5>1. m + 1 \in 0 .. PROPOSALS - 1 /\ m + 1 = 0 * PROPOSALS + (m + 1) /\ m + 1 \in Nat
          BY <4>2, <3>2, <1>2
        <5>2. (m + 1) % PROPOSALS = m + 1
          BY <5>1, <1>2, Remainder
        <5> QED  BY <4>2, <5>2
      <4> QED  BY <4>1, <4>2
    <3> QED  BY <3>1, <3>2, <3>3, <3>4
  <2> QED  BY <2>1, <2>2, <1>1, <1>3, <1>4, <1>5, <1>7 DEF CursorInv, W
<1> QED  BY <1>14, <1>15, <1>16, <1>17, <1>18

\* What is on the wire, and what of the entry is in memory already.
LEMMA OnWire ==
  ASSUME RingAssumption, RingTypeInv, wire # << >>, NEW W, W = Len(written),
         NEW room, room = Place(W)
  PROVE  \E header \in HeadersOf(W) : \E n \in 0 .. BodyRooms + 1 :
           /\ Len(wire) = (IF header.only THEN 1 ELSE BodyRooms + 2) - n
           /\ header.only => n = 0
           /\ \A i \in 1 .. Len(wire) : wire[i] = Parts(room, header)[n + i]
           /\ n > 0 => mem[room] = header
           /\ \A i \in 1 .. n - 1 : mem[room + i + 1] = Body(W)
           /\ Head(wire) = IF n = 0 THEN HeaderPart(room, header)
                           ELSE IF n <= BodyRooms THEN One(room + n + 1, Body(W))
                           ELSE One(room + BodyRooms + 2, End(W, header.len % 4))
<1>1. Detected < W /\ \E h \in HeadersOf(W) : \E n \in 0 .. Len(Parts(room, h)) - 1 :
        /\ Len(wire) = Len(Parts(room, h)) - n
        /\ \A i \in 1 .. Len(wire) : wire[i] = Parts(room, h)[n + i]
        /\ n > 0 => mem[room] = h
        /\ \A i \in 1 .. n - 1 : mem[room + i + 1] = Body(W)
  BY DEF RingTypeInv, RingInv, WireInv
<1>2. PICK h \in HeadersOf(W) : \E n \in 0 .. Len(Parts(room, h)) - 1 :
        /\ Len(wire) = Len(Parts(room, h)) - n
        /\ \A i \in 1 .. Len(wire) : wire[i] = Parts(room, h)[n + i]
        /\ n > 0 => mem[room] = h
        /\ \A i \in 1 .. n - 1 : mem[room + i + 1] = Body(W)
  BY <1>1
<1>3. PICK n \in 0 .. Len(Parts(room, h)) - 1 :
        /\ Len(wire) = Len(Parts(room, h)) - n
        /\ \A i \in 1 .. Len(wire) : wire[i] = Parts(room, h)[n + i]
        /\ n > 0 => mem[room] = h
        /\ \A i \in 1 .. n - 1 : mem[room + i + 1] = Body(W)
  BY <1>2
<1>4. OneSize /\ TypeOK /\ Detected \in Nat /\ Len(written) \in Nat
  BY Counts DEF RingTypeInv, HotelTypeInv
<1>5. W \in 1 .. Len(written) /\ W \in Nat \ {0}
  BY <1>1, <1>4
<1>6. room \in 0 .. LOGIDX_END
  BY <1>4, <1>5, PlaceNext
<1>7. BodyRooms \in Nat
  BY <1>4, Sizes
<1>8. h.only \in BOOLEAN
  <2>1. h.only = written[W].only
    BY DEF HeadersOf
  <2>2. written[W] \in Entries
    BY <1>5, Counts
  <2> QED  BY <2>1, <2>2 DEF Entries
<1>9. /\ Len(Parts(room, h)) = IF h.only THEN 1 ELSE BodyRooms + 2
      /\ Parts(room, h)[1] = HeaderPart(room, h)
      /\ ~h.only =>
           /\ \A i \in 2 .. BodyRooms + 1 : Parts(room, h)[i] = One(room + i, Body(W))
           /\ Parts(room, h)[BodyRooms + 2]
                = One(room + BodyRooms + 2, End(W, h.len % 4))
  <2>1. h \in HeadersOf(W)
    BY <1>2
  <2> QED  BY <2>1, <1>4, <1>5, <1>6, PartsOf
<1>10. n \in 0 .. BodyRooms + 1 /\ (h.only => n = 0)
  BY <1>3, <1>7, <1>8, <1>9
<1>11. Head(wire) = Parts(room, h)[n + 1]
  <2>1. wire \in Seq(Patches) /\ Len(wire) \in Nat /\ Len(wire) > 0
    BY DEF RingTypeInv, HotelTypeInv
  <2>2. Head(wire) = wire[1] /\ 1 \in 1 .. Len(wire)
    BY <2>1
  <2> QED  BY <2>2, <1>3
<1>12. Head(wire) = IF n = 0 THEN HeaderPart(room, h)
                    ELSE IF n <= BodyRooms THEN One(room + n + 1, Body(W))
                    ELSE One(room + BodyRooms + 2, End(W, h.len % 4))
  <2>1. CASE n = 0
    BY <2>1, <1>9, <1>11
  <2>2. CASE n # 0 /\ n <= BodyRooms
    <3>1. n + 1 \in 2 .. BodyRooms + 1 /\ ~h.only /\ room + (n + 1) = room + n + 1
      BY <2>2, <1>6, <1>7, <1>10
    <3> QED  BY <2>2, <3>1, <1>9, <1>11
  <2>3. CASE n # 0 /\ ~(n <= BodyRooms)
    <3>1. n + 1 = BodyRooms + 2 /\ ~h.only
      BY <2>3, <1>7, <1>10
    <3> QED  BY <2>3, <3>1, <1>9, <1>11
  <2> QED  BY <2>1, <2>2, <2>3
<1>13. Len(wire) = (IF h.only THEN 1 ELSE BodyRooms + 2) - n
  BY <1>3, <1>9
<1> QED  BY <1>3, <1>10, <1>12, <1>13

\* The next part of an entry reaches the memory.
LEMMA LandKeeps ==
  ASSUME RingAssumption, RingTypeInv, Land
  PROVE  CursorInv' /\ MemoryInv' /\ WireInv' /\ HeaderInv' /\ CanaryInv'
<1>1. /\ wire # << >> /\ wire' = Tail(wire)
      /\ mem' = [r \in Region |-> IF r \in DOMAIN Head(wire) THEN Head(wire)[r] ELSE mem[r]]
      /\ next_room_free' = next_room_free /\ proposal' = proposal /\ written' = written
      /\ cursor' = cursor /\ local_proposal' = local_proposal
      /\ prev_header_room' = prev_header_room /\ header_room' = header_room
      /\ seen' = seen /\ at' = at /\ taken' = taken
  BY DEF Land, writerVars, readerVars
<1>2. PICK W : W = Len(written)
  OBVIOUS
<1>3. PICK room : room = Place(W)
  OBVIOUS
<1>4. PICK h \in HeadersOf(W) : \E n \in 0 .. BodyRooms + 1 :
        /\ Len(wire) = (IF h.only THEN 1 ELSE BodyRooms + 2) - n
        /\ h.only => n = 0
        /\ \A i \in 1 .. Len(wire) : wire[i] = Parts(room, h)[n + i]
        /\ n > 0 => mem[room] = h
        /\ \A i \in 1 .. n - 1 : mem[room + i + 1] = Body(W)
        /\ Head(wire) = IF n = 0 THEN HeaderPart(room, h)
                        ELSE IF n <= BodyRooms THEN One(room + n + 1, Body(W))
                        ELSE One(room + BodyRooms + 2, End(W, h.len % 4))
  BY SMTT(60), <1>1, <1>2, <1>3, OnWire
<1>5. PICK n \in 0 .. BodyRooms + 1 :
        /\ Len(wire) = (IF h.only THEN 1 ELSE BodyRooms + 2) - n
        /\ h.only => n = 0
        /\ \A i \in 1 .. Len(wire) : wire[i] = Parts(room, h)[n + i]
        /\ n > 0 => mem[room] = h
        /\ \A i \in 1 .. n - 1 : mem[room + i + 1] = Body(W)
        /\ Head(wire) = IF n = 0 THEN HeaderPart(room, h)
                        ELSE IF n <= BodyRooms THEN One(room + n + 1, Body(W))
                        ELSE One(room + BodyRooms + 2, End(W, h.len % 4))
  BY <1>4
<1>6. PICK o : o = h.len % 4
  OBVIOUS
<1>7. /\ h \in HeadersOf(W) /\ h.kind = "header" /\ h.seq = W /\ h.len \in Lengths
      /\ h.only = written[W].only
  BY <1>4 DEF HeadersOf
<1>8. /\ CursorInv /\ MemoryInv /\ WireInv /\ HeaderInv /\ CanaryInv
      /\ mem \in [Region -> RoomCells] /\ wire \in Seq(Patches)
  BY DEF RingTypeInv, HotelTypeInv, RingInv, TypeOK
<1>9. /\ OneSize /\ W \in Nat \ {0} /\ Detected \in Nat /\ Detected < W
      /\ PerLap \in Nat /\ W < Detected + 1 + PerLap
  <2>1. /\ OneSize /\ Detected \in Nat /\ Len(written) \in Nat /\ PerLap \in Nat
        /\ Len(taken) \in Nat /\ Len(taken) <= Detected
        /\ Len(written) < Len(taken) + PerLap
    BY Counts
  <2>2. Detected < W
    BY <1>1, <1>2, <1>8 DEF WireInv
  <2> QED  BY <2>1, <2>2, <1>2
<1>10. /\ BodyRooms \in Nat /\ Stride = BodyRooms + 3 /\ n \in Nat
       /\ room .. room + Stride - 1 \subseteq Region
       /\ room \in Region /\ room \in Nat
  BY <1>3, <1>7, <1>9, Sizes, RoomsOf
<1>11. h.only \in BOOLEAN
  BY <1>2, <1>7, <1>8, <1>9, HotelAssumption DEF CursorInv
<1>12. Detected' = Detected
  BY <1>1 DEF Detected
\* What lands, and what does not change.
<1>13. n = 0 => /\ DOMAIN Head(wire) = {room, room + 1}
                /\ mem'[room] = h /\ mem'[room + 1] = HeaderRest
                /\ \A x \in Region : x # room /\ x # room + 1 => mem'[x] = mem[x]
  <2> SUFFICES ASSUME n = 0
               PROVE  /\ DOMAIN Head(wire) = {room, room + 1}
                      /\ mem'[room] = h /\ mem'[room + 1] = HeaderRest
                      /\ \A x \in Region : x # room /\ x # room + 1 => mem'[x] = mem[x]
    OBVIOUS
  <2>1. PICK head : head = Head(wire)
    OBVIOUS
  <2>2. head = [x \in {room, room + 1} |-> IF x = room THEN h ELSE HeaderRest]
    BY <2>1, <1>5 DEF HeaderPart
  <2>3. DOMAIN head = {room, room + 1} /\ head[room] = h /\ head[room + 1] = HeaderRest
    BY <2>2, <1>10
  <2>4. room \in Region /\ room + 1 \in Region
    BY <1>10
  <2>5. mem' = [x \in Region |-> IF x \in DOMAIN head THEN head[x] ELSE mem[x]]
    BY <1>1, <2>1
  <2> QED  BY <2>1, <2>3, <2>4, <2>5
<1>14. ASSUME NEW x \in Region, NEW cell, Head(wire) = One(x, cell)
       PROVE  /\ DOMAIN Head(wire) = {x}
              /\ mem'[x] = cell
              /\ \A y \in Region : y # x => mem'[y] = mem[y]
  <2>1. PICK head : head = Head(wire)
    OBVIOUS
  <2>2. head = [y \in {x} |-> cell]
    BY <2>1, <1>14 DEF One
  <2>3. DOMAIN head = {x} /\ head[x] = cell
    BY <2>2
  <2>4. mem' = [y \in Region |-> IF y \in DOMAIN head THEN head[y] ELSE mem[y]]
    BY <1>1, <2>1
  <2> QED  BY <2>1, <2>3, <2>4
<1>15. n # 0 /\ n <= BodyRooms =>
         /\ DOMAIN Head(wire) = {room + n + 1}
         /\ mem'[room + n + 1] = Body(W)
         /\ \A y \in Region : y # room + n + 1 => mem'[y] = mem[y]
  <2> SUFFICES ASSUME n # 0, n <= BodyRooms
               PROVE  /\ DOMAIN Head(wire) = {room + n + 1}
                      /\ mem'[room + n + 1] = Body(W)
                      /\ \A y \in Region : y # room + n + 1 => mem'[y] = mem[y]
    OBVIOUS
  <2>1. Head(wire) = One(room + n + 1, Body(W)) /\ room + n + 1 \in Region
    BY <1>5, <1>10
  <2> QED  BY <2>1, <1>14
<1>16. n = BodyRooms + 1 =>
         /\ DOMAIN Head(wire) = {room + BodyRooms + 2}
         /\ mem'[room + BodyRooms + 2] = End(W, o)
         /\ \A y \in Region : y # room + BodyRooms + 2 => mem'[y] = mem[y]
  <2> SUFFICES ASSUME n = BodyRooms + 1
               PROVE  /\ DOMAIN Head(wire) = {room + BodyRooms + 2}
                      /\ mem'[room + BodyRooms + 2] = End(W, o)
                      /\ \A y \in Region : y # room + BodyRooms + 2 => mem'[y] = mem[y]
    OBVIOUS
  <2>1. Head(wire) = One(room + BodyRooms + 2, End(W, o)) /\ room + BodyRooms + 2 \in Region
    BY <1>5, <1>6, <1>10
  <2> QED  BY <2>1, <1>14
<1>17. /\ n = 0 \/ (n # 0 /\ n <= BodyRooms) \/ n = BodyRooms + 1
       /\ n # 0 => ~h.only
  BY <1>5, <1>10, <1>11
<1>18. \A y \in Region : y \notin room .. room + Stride - 1 => mem'[y] = mem[y]
  BY <1>10, <1>13, <1>15, <1>16, <1>17
<1>19. /\ Len(wire) \in Nat /\ Len(wire) > 0 /\ Len(wire') = Len(wire) - 1
       /\ \A i \in 1 .. Len(wire') : wire'[i] = wire[i + 1]
       /\ wire' = << >> <=> Len(wire) = 1
  <2>1. Len(wire) \in Nat /\ Len(wire) > 0
    BY <1>1, <1>8
  <2>2. /\ wire' \in Seq(Patches) /\ Len(wire') = Len(wire) - 1
        /\ \A i \in 1 .. Len(wire') : wire'[i] = wire[i + 1]
    BY <1>1, <1>8
  <2>3. wire' = << >> <=> Len(wire') = 0
    BY <2>2
  <2> QED  BY <2>1, <2>2, <2>3
\* An entry other than the one that lands stays as it is.
<1>20. ASSUME NEW j \in 1 .. W - 1, W < j + PerLap, InMemory(j)  PROVE InMemory(j)'
  <2>1. j \in Nat \ {0} /\ j < W
    BY <1>9
  <2>2. Place(j) + Stride <= room \/ room + Stride <= Place(j)
    BY <2>1, <1>3, <1>9, <1>20, PlaceApart
  <2>3. PICK l \in Lengths : l = mem[Place(j)].len
    BY <1>20 DEF InMemory, HeadersOf
  <2>4. Place(j) .. Place(j) + Stride - 1 \subseteq Region /\ Place(j) \in Nat
    BY <2>1, <2>3, <1>9, RoomsOf
  <2>5. \A x \in Place(j) .. Place(j) + Stride - 1 : mem'[x] = mem[x]
    BY <2>2, <2>4, <1>10, <1>18
  <2> QED  BY <2>1, <2>5, <1>1, <1>9, <1>12, <1>20, Unharmed
\* The header and the rooms of the payload that are in memory after the step.
<1>21. /\ mem'[room] = h
       /\ wire' # << >> => \A i \in 1 .. n : mem'[room + i + 1] = Body(W)
       /\ wire' = << >> /\ ~h.only => \A i \in 1 .. BodyRooms : mem'[room + i + 1] = Body(W)
  <2>1. CASE n = 0
    <3>1. wire' = << >> /\ ~h.only => BodyRooms + 2 = 1
      BY <2>1, <1>5, <1>10, <1>19
    <3> QED  BY <2>1, <3>1, <1>10, <1>13
  <2>2. CASE n # 0 /\ n <= BodyRooms
    <3>1. mem'[room] = h
      BY <2>2, <1>5, <1>10, <1>15
    <3>2. wire' # << >>
      BY <2>2, <1>5, <1>10, <1>17, <1>19
    <3>3. ASSUME NEW i \in 1 .. n  PROVE mem'[room + i + 1] = Body(W)
      <4>1. CASE i = n
        BY <2>2, <4>1, <1>15
      <4>2. CASE i # n
        <5>1. /\ i \in 1 .. n - 1 /\ room + i + 1 \in Region
              /\ room + i + 1 # room + n + 1
          BY <2>2, <4>2, <1>10
        <5>2. mem[room + i + 1] = Body(W)
          BY <5>1, <1>5
        <5> QED  BY <2>2, <5>1, <5>2, <1>15
      <4> QED  BY <4>1, <4>2
    <3> QED  BY <3>1, <3>2, <3>3
  <2>3. CASE n = BodyRooms + 1
    <3>1. mem'[room] = h
      BY <2>3, <1>5, <1>10, <1>16
    <3>2. wire' = << >>
      BY <2>3, <1>5, <1>10, <1>17, <1>19
    <3>3. ASSUME NEW i \in 1 .. BodyRooms  PROVE mem'[room + i + 1] = Body(W)
      <4>1. /\ i \in 1 .. n - 1 /\ room + i + 1 \in Region
            /\ room + i + 1 # room + BodyRooms + 2
        BY <2>3, <1>10
      <4>2. mem[room + i + 1] = Body(W)
        BY <4>1, <1>5
      <4> QED  BY <2>3, <4>1, <4>2, <1>16
    <3> QED  BY <3>1, <3>2, <3>3
  <2> QED  BY <2>1, <2>2, <2>3, <1>17
<1>22. \A j : HeadersOf(j)' = HeadersOf(j)
  BY <1>1 DEF HeadersOf
<1>23. MemoryInv'
  <2> SUFFICES ASSUME NEW j \in 1 .. W, W < j + PerLap, j = W => wire' = << >>
               PROVE  InMemory(j)'
    BY <1>1, <1>2 DEF MemoryInv, Complete
  <2>1. CASE j # W
    <3>1. j \in 1 .. W - 1 /\ j \in 1 .. Len(written) /\ Len(written) < j + PerLap
      BY <2>1, <1>2, <1>9
    <3>2. Complete(j)
      BY <2>1, <1>2 DEF Complete
    <3>3. InMemory(j)
      BY <3>1, <3>2, <1>8 DEF MemoryInv
    <3> QED  BY <3>1, <3>3, <1>20
  <2>2. CASE j = W
    <3>1. mem'[room] = h /\ h \in HeadersOf(W)' /\ wire' = << >>
      BY <2>2, <1>7, <1>21, <1>22
    <3>2. CASE h.only
      BY <2>2, <3>1, <3>2, <1>3 DEF InMemory
    <3>3. CASE ~h.only
      <4>1. ASSUME NEW x \in room + 2 .. room + Stride - 2  PROVE mem'[x] = Body(W)
        <5>1. x - room - 1 \in 1 .. BodyRooms /\ room + (x - room - 1) + 1 = x
          BY <1>10
        <5> QED  BY <5>1, <3>1, <3>3, <1>21
      <4>2. mem'[room + Stride - 1] = EndOf(W, h.len)'
        <5>1. n = BodyRooms + 1
          BY <3>1, <3>3, <1>5, <1>10, <1>19
        <5>2. mem'[room + Stride - 1] = End(W, o)
          BY <5>1, <1>10, <1>16
        <5>3. (Detected' < W) = TRUE
          BY <1>9, <1>12
        <5>4. EndOf(W, h.len)' = [kind |-> "end", seq |-> W, offset |-> o, canary |-> TRUE]
          BY Zenon, <5>3, <1>6 DEF EndOf
        <5> QED  BY <5>2, <5>4 DEF End
      <4> QED  BY <2>2, <3>1, <4>1, <4>2, <1>3 DEF InMemory
    <3> QED  BY <3>2, <3>3, <1>11
  <2> QED  BY <2>1, <2>2
<1>24. WireInv'
  <2> SUFFICES ASSUME wire' # << >>  PROVE WireInv'
    BY DEF WireInv
  <2>1. TypeOK /\ W \in 1 .. Len(written) /\ room \in 0 .. LOGIDX_END
    BY <1>2, <1>3, <1>9, PlaceNext DEF RingTypeInv, HotelTypeInv
  <2>2. Len(Parts(room, h)) = IF h.only THEN 1 ELSE BodyRooms + 2
    BY <2>1, <1>7, <1>9, PartsCount
  <2>3. Len(wire') = Len(Parts(room, h)) - (n + 1)
    BY <2>2, <1>5, <1>10, <1>19
  <2>4. n + 1 \in 0 .. Len(Parts(room, h)) - 1
    <3>1. Len(wire') >= 1
      BY <1>19
    <3> QED  BY <2>3, <3>1, <1>10, <2>2, <1>11
  <2>5. \A i \in 1 .. Len(wire') : wire'[i] = Parts(room, h)[(n + 1) + i]
    <3> SUFFICES ASSUME NEW i \in 1 .. Len(wire')
                 PROVE  wire'[i] = Parts(room, h)[(n + 1) + i]
      OBVIOUS
    <3>1. i + 1 \in 1 .. Len(wire) /\ n + (i + 1) = (n + 1) + i
      BY <1>10, <1>19
    <3> QED  BY <3>1, <1>5, <1>19
  <2>6. \A i \in 1 .. (n + 1) - 1 : mem'[room + i + 1] = Body(W)
    <3>1. (n + 1) - 1 = n
      BY <1>10
    <3>2. \A i \in 1 .. n : mem'[room + i + 1] = Body(W)
      BY <1>21
    <3> QED  BY <3>1, <3>2
  <2>7. W = Len(written') /\ Detected' < W /\ h \in HeadersOf(W)'
    BY <1>1, <1>2, <1>7, <1>9, <1>12, <1>22
  <2> QED  BY <2>3, <2>4, <2>5, <2>6, <2>7, <1>3, <1>21 DEF WireInv
\* The header lands first.
<1>25. HeaderPending <=> n = 0
  BY <1>1, <1>2, <1>3, <1>10, <1>13, <1>15, <1>16, <1>17 DEF HeaderPending
<1>26. ~HeaderPending'
  <2> SUFFICES ASSUME wire' # << >>  PROVE room \notin DOMAIN Head(wire')
    BY <1>1, <1>2, <1>3 DEF HeaderPending
  <2>1. TypeOK /\ W \in 1 .. Len(written) /\ room \in 0 .. LOGIDX_END
    BY <1>2, <1>3, <1>9, PlaceNext DEF RingTypeInv, HotelTypeInv
  <2>2. ~h.only /\ n <= BodyRooms /\ Len(wire) >= 2
    BY <1>5, <1>10, <1>17, <1>19
  <2>3. \A i \in 2 .. BodyRooms + 1 : Parts(room, h)[i] = One(room + i, Body(W))
    BY <2>1, <2>2, <1>7, <1>9, PartsOf
  <2>4. Parts(room, h)[BodyRooms + 2] = One(room + BodyRooms + 2, End(W, o))
    BY <2>1, <2>2, <1>6, <1>7, <1>9, PartsOf
  <2>5. Head(wire') = Parts(room, h)[n + 2]
    <3>1. wire' \in Seq(Patches)
      BY <1>1, <1>8
    <3>2. Head(wire') = wire'[1] /\ 1 \in 1 .. Len(wire')
      BY <2>2, <3>1, <1>19
    <3>3. Head(wire') = wire[2] /\ 2 \in 1 .. Len(wire)
      BY <2>2, <3>2, <1>19
    <3> QED  BY <3>3, <1>5
  <2>6. n + 2 \in 2 .. BodyRooms + 1 \/ n + 2 = BodyRooms + 2
    BY <2>2, <1>10
  <2>7. PICK i \in Nat : i > 0 /\ DOMAIN Head(wire') = {room + i}
    <3>1. CASE n + 2 \in 2 .. BodyRooms + 1
      <4>1. Head(wire') = One(room + (n + 2), Body(W)) /\ n + 2 \in Nat /\ n + 2 > 0
        BY <3>1, <2>3, <2>5, <1>10
      <4> QED  BY <4>1 DEF One
    <3>2. CASE n + 2 = BodyRooms + 2
      <4>1. Head(wire') = One(room + (BodyRooms + 2), End(W, o))
        <5>1. room + (BodyRooms + 2) = room + BodyRooms + 2
          BY <1>10
        <5> QED  BY <5>1, <3>2, <2>4, <2>5
      <4>2. BodyRooms + 2 \in Nat /\ BodyRooms + 2 > 0
        BY <1>10
      <4> QED  BY <4>1, <4>2 DEF One
    <3> QED  BY <2>6, <3>1, <3>2
  <2> QED  BY <2>7, <1>10
<1>27. HeaderInv'
  <2> SUFFICES ASSUME NEW x \in Region, mem'[x].kind = "header"
               PROVE  /\ mem'[x].seq \in 1 .. W /\ x = Place(mem'[x].seq)
                      /\ mem'[x] \in HeadersOf(mem'[x].seq)
                      /\ W < mem'[x].seq + PerLap
    BY <1>1, <1>2, <1>22, <1>26 DEF HeaderInv
  <2>1. CASE x = room
    BY <2>1, <1>3, <1>7, <1>9, <1>21
  <2>2. CASE x # room
    <3>1. mem'[x] = mem[x]
      <4>1. n = 0 => mem'[x] = mem[x]
        BY <2>2, <1>13 DEF HeaderRest
      <4>2. n # 0 /\ n <= BodyRooms => mem'[x] = mem[x]
        BY <1>15 DEF Body
      <4>3. n = BodyRooms + 1 => mem'[x] = mem[x]
        BY <1>16 DEF End
      <4> QED  BY <4>1, <4>2, <4>3, <1>17
    <3> DEFINE j == mem[x].seq
    <3>2. /\ j \in 1 .. W /\ x = Place(j) /\ mem[x] \in HeadersOf(j)
          /\ IF HeaderPending THEN j < W /\ W <= j + PerLap ELSE W < j + PerLap
      BY <3>1, <1>2, <1>8 DEF HeaderInv
    <3> HIDE DEF j
    <3>3. W # j + PerLap
      BY <2>2, <3>2, <1>3, <1>9, PlaceNext
    <3>4. W < j + PerLap
      BY <3>2, <3>3, <1>9
    <3> QED  BY <3>1, <3>2, <3>4 DEF j
  <2> QED  BY <2>1, <2>2
<1>28. CanaryInv'
  <2> SUFFICES ASSUME NEW x \in Region, mem'[x].kind = "end", mem'[x].canary
               PROVE  /\ mem'[x].seq \in Detected + 1 .. W
                      /\ ~written[mem'[x].seq].only
                      /\ x = Place(mem'[x].seq) + Stride - 1
                      /\ mem'[x].seq = W => wire' = << >>
    BY <1>1, <1>2, <1>12 DEF CanaryInv, Complete
  <2>1. CASE mem'[x] = mem[x]
    <3> DEFINE j == mem[x].seq
    <3>1. /\ j \in Detected + 1 .. W /\ ~written[j].only
          /\ x = Place(j) + Stride - 1 /\ j # W
      BY <2>1, <1>1, <1>2, <1>8 DEF CanaryInv, Complete
    <3> HIDE DEF j
    <3> QED  BY <2>1, <3>1 DEF j
  <2>2. CASE mem'[x] # mem[x]
    <3>1. n = BodyRooms + 1 /\ x = room + BodyRooms + 2
      <4>1. n # 0
        BY <2>2, <1>7, <1>10, <1>13 DEF HeaderRest
      <4>2. ~(n <= BodyRooms)
        BY <2>2, <4>1, <1>15 DEF Body
      <4> QED  BY <2>2, <4>1, <4>2, <1>16, <1>17
    <3>2. mem'[x].seq = W
      BY <3>1, <1>16 DEF End
    <3>3. ~h.only /\ wire' = << >>
      BY <3>1, <1>5, <1>10, <1>17, <1>19
    <3>4. x = room + Stride - 1
      BY <3>1, <1>10
    <3> QED  BY <3>2, <3>3, <3>4, <1>3, <1>7, <1>9
  <2> QED  BY <2>1, <2>2
\* A canary the reader has seen is of an entry that is complete.
<1>29. CursorInv'
  <2>1. at = "test" /\ seen.canary =>
          CanaryAt(CanaryRoom(cursor + 2, seen.len), seen.len % 4)'
    <3> SUFFICES ASSUME at = "test", seen.canary
                 PROVE  CanaryAt(CanaryRoom(cursor + 2, seen.len), seen.len % 4)'
      OBVIOUS
    <3>1. PICK r : r = CanaryRoom(cursor + 2, seen.len)
      OBVIOUS
    <3>2. CanaryAt(r, seen.len % 4)
      BY <3>1, <1>8 DEF CursorInv
    <3>3. PICK k : k = Detected + 1
      OBVIOUS
    <3>4. Complete(k) /\ r = Place(k) + Stride - 1 /\ r \in Region /\ k <= W
      BY <3>1, <3>2, <3>3, <1>2, CanaryIsNext
    <3>5. k \in Nat \ {0} /\ k < W /\ W < k + PerLap
      BY <3>3, <3>4, <1>1, <1>2, <1>9 DEF Complete
    <3>6. Place(k) + Stride <= room \/ room + Stride <= Place(k)
      BY <3>5, <1>3, <1>9, PlaceApart
    <3>7. Place(k) \in Nat
      <4>1. Place(k) \in 0 .. LOGIDX_END
        BY <3>5, <1>9, PlaceNext
      <4> QED  BY <4>1, RoomsAssumption
    <3>8. mem'[r] = mem[r]
      BY <3>4, <3>6, <3>7, <1>10, <1>18
    <3>9. CanaryAt(r, seen.len % 4)'
      BY <3>2, <3>8, <1>1 DEF CanaryAt
    <3>10. r = CanaryRoom(cursor' + 2, seen'.len)
      BY <3>1, <1>1
    <3> QED  BY <3>9, <3>10
  <2> QED  BY <2>1, <1>1, <1>8, <1>12 DEF CursorInv
<1> QED  BY <1>23, <1>24, <1>27, <1>28, <1>29

\* The writer posts the next entry.
LEMMA WriteKeeps ==
  ASSUME RingAssumption, RingTypeInv, NEW len \in Lengths, NEW only \in HeaderOnly,
         Write(len, only)
  PROVE  CursorInv' /\ MemoryInv' /\ WireInv' /\ HeaderInv' /\ CanaryInv'
<1>1. PICK W : W = Len(written)
  OBVIOUS
<1>2. PICK V : V = W + 1
  OBVIOUS
<1>3. PICK header : header = Header(V, len, proposal % PROPOSALS, only)
  OBVIOUS
<1>4. /\ wire = << >> /\ wire' = Parts(next_room_free, header)
      /\ W <= Len(taken) + Lead
      /\ next_room_free' = NextFreeRoom(next_room_free + 2, len + 1)
      /\ proposal' = proposal + 1
      /\ written' = Append(written, [seq |-> V, only |-> only])
      /\ mem' = mem /\ cursor' = cursor /\ local_proposal' = local_proposal
      /\ prev_header_room' = prev_header_room /\ header_room' = header_room
      /\ seen' = seen /\ at' = at /\ taken' = taken
  BY <1>1, <1>2, <1>3 DEF Write, readerVars
<1>5. /\ OneSize /\ W \in Nat /\ V \in Nat \ {0} /\ Detected \in Nat /\ Detected < V
      /\ PerLap \in Nat /\ Len(taken) \in Nat /\ Lead \in Nat
      /\ written \in Seq(Entries)
  BY <1>1, <1>2, Counts
<1>6. /\ CursorInv /\ MemoryInv /\ WireInv /\ HeaderInv /\ CanaryInv
      /\ mem \in [Region -> RoomCells]
  BY DEF RingTypeInv, HotelTypeInv, RingInv, TypeOK
<1>7. next_room_free = Place(V) /\ proposal = W
  BY <1>1, <1>2, <1>6 DEF CursorInv
<1>8. /\ Len(written') = V /\ written'[V] = [seq |-> V, only |-> only]
      /\ \A j \in 1 .. W : written'[j] = written[j]
  BY <1>1, <1>2, <1>4, <1>5
<1>9. Detected' = Detected
  BY <1>4 DEF Detected
<1>10. /\ header.kind = "header" /\ header.seq = V /\ header.len = len
       /\ header.only = only /\ header.proposal = W % PROPOSALS
  BY <1>3, <1>7 DEF Header
<1>11. header \in HeadersOf(V)'
  <2>1. V - 1 = W
    BY <1>2, <1>5
  <2>2. header = [kind |-> "header", seq |-> V, len |-> len,
                  proposal |-> (V - 1) % PROPOSALS, only |-> written'[V].only]
    BY <2>1, <1>3, <1>7, <1>8 DEF Header
  <2> QED  BY <2>2 DEF HeadersOf
<1>13. only \in BOOLEAN
  BY HotelAssumption
<1>14. Place(V) \in 0 .. LOGIDX_END
  BY <1>5, PlaceNext
<1>15. /\ Len(wire') = IF only THEN 1 ELSE BodyRooms + 2
       /\ wire'[1] = HeaderPart(Place(V), header)
  <2>1. PICK room \in 0 .. LOGIDX_END : room = Place(V)
    BY <1>14
  <2>2. header.seq = V /\ header.len \in Lengths
    BY <1>10
  <2>3. /\ Len(Parts(room, header)) = IF header.only THEN 1 ELSE BodyRooms + 2
        /\ Parts(room, header)[1] = HeaderPart(room, header)
    BY ZenonT(60), <2>2, <1>5, PartsAre
  <2> QED  BY <2>1, <2>3, <1>4, <1>7, <1>10
<1>16. BodyRooms \in Nat
  BY <1>5, Sizes
<1>17. Len(wire') \in Nat /\ Len(wire') >= 1
  BY <1>13, <1>15, <1>16
<1>18. wire' \in Seq(Patches) /\ wire' # << >> /\ Head(wire') = HeaderPart(Place(V), header)
  <2>1. HotelTypeInv /\ [Next]_vars
    BY DEF RingTypeInv, Next
  <2>2. wire' \in Seq(Patches)
    BY <2>1, HotelTypeNext DEF HotelTypeInv
  <2>3. wire' # << >> /\ Head(wire') = wire'[1]
    BY <2>2, <1>17
  <2> QED  BY <2>2, <2>3, <1>15
<1>19. HeaderPending'
  <2>1. Place(V) \in DOMAIN HeaderPart(Place(V), header)
    BY DEF HeaderPart
  <2> QED  BY <2>1, <1>8, <1>18 DEF HeaderPending
<1>20. MemoryInv'
  <2> SUFFICES ASSUME NEW j \in 1 .. V, V < j + PerLap, j = V => wire' = << >>
               PROVE  InMemory(j)'
    BY <1>8 DEF MemoryInv, Complete
  <2>1. j \in 1 .. W /\ j \in Nat \ {0} /\ W < j + PerLap
    BY <1>2, <1>5, <1>18
  <2>2. InMemory(j)
    BY <2>1, <1>1, <1>4, <1>6 DEF MemoryInv, Complete
  <2>3. \A x \in Place(j) .. Place(j) + Stride - 1 : mem'[x] = mem[x]
    BY <1>4
  <2> QED  BY <2>1, <2>2, <2>3, <1>5, <1>8, <1>9, Unharmed
<1>21. WireInv'
  <2>1. /\ 0 \in 0 .. Len(Parts(Place(V), header)) - 1
        /\ Len(wire') = Len(Parts(Place(V), header)) - 0
        /\ \A i \in 1 .. Len(wire') : wire'[i] = Parts(Place(V), header)[0 + i]
        /\ ~(0 > 0) /\ 1 .. 0 - 1 = {}
    BY <1>4, <1>7, <1>17
  <2> QED  BY <2>1, <1>5, <1>8, <1>9, <1>11 DEF WireInv
<1>22. HeaderInv'
  <2> SUFFICES ASSUME NEW x \in Region, mem[x].kind = "header"
               PROVE  /\ mem[x].seq \in 1 .. V /\ x = Place(mem[x].seq)
                      /\ \A j : j = mem[x].seq => mem[x] \in HeadersOf(j)'
                      /\ mem[x].seq < V /\ V <= mem[x].seq + PerLap
    BY <1>4, <1>8, <1>19 DEF HeaderInv
  <2> PICK j : j = mem[x].seq
    OBVIOUS
  <2>1. ~HeaderPending
    BY <1>4 DEF HeaderPending
  <2>2. /\ j \in 1 .. W /\ x = Place(j) /\ mem[x] \in HeadersOf(j) /\ W < j + PerLap
    BY <2>1, <1>1, <1>6 DEF HeaderInv
  <2>3. j \in 1 .. V /\ j < V /\ V <= j + PerLap
    BY <2>2, <1>2, <1>5
  <2>4. mem[x] \in HeadersOf(j)'
    <3>1. HeadersOf(j)' = HeadersOf(j)
      <4>1. written'[j] = written[j]
        BY <2>2, <1>8
      <4> QED  BY Zenon, <4>1 DEF HeadersOf
    <3> QED  BY <2>2, <3>1
  <2> QED  BY <2>2, <2>3, <2>4
<1>23. CanaryInv'
  <2> SUFFICES ASSUME NEW x \in Region, mem[x].kind = "end", mem[x].canary
               PROVE  /\ mem[x].seq \in Detected + 1 .. V
                      /\ ~written'[mem[x].seq].only
                      /\ x = Place(mem[x].seq) + Stride - 1
                      /\ mem[x].seq # V
    BY <1>4, <1>8, <1>9 DEF CanaryInv, Complete
  <2> DEFINE j == mem[x].seq
  <2>1. /\ j \in Detected + 1 .. W /\ ~written[j].only /\ x = Place(j) + Stride - 1
    BY <1>1, <1>6 DEF CanaryInv
  <2> HIDE DEF j
  <2>2. j \in 1 .. W /\ j \in Detected + 1 .. V /\ j # V
    BY <2>1, <1>2, <1>5
  <2> QED  BY <2>1, <2>2, <1>8 DEF j
<1>24. CursorInv'
  <2>1. next_room_free' = Place(V + 1)
    BY <1>4, <1>5, <1>7, NextPlace
  <2>2. \A j \in 1 .. V : written'[j].seq = j /\ written'[j].only \in HeaderOnly
    <3> SUFFICES ASSUME NEW j \in 1 .. V
                 PROVE  written'[j].seq = j /\ written'[j].only \in HeaderOnly
      OBVIOUS
    <3>1. CASE j = V
      BY <3>1, <1>8
    <3>2. CASE j # V
      <4>1. j \in 1 .. W
        BY <3>2, <1>2, <1>5
      <4> QED  BY <4>1, <1>1, <1>6, <1>8 DEF CursorInv
    <3> QED  BY <3>1, <3>2
  <2>3. at = "test" /\ seen.canary =>
          CanaryAt(CanaryRoom(cursor + 2, seen.len), seen.len % 4)'
    <3>1. CanaryAt(CanaryRoom(cursor + 2, seen.len), seen.len % 4)'
            <=> CanaryAt(CanaryRoom(cursor + 2, seen.len), seen.len % 4)
      BY <1>4 DEF CanaryAt
    <3> QED  BY <3>1, <1>6 DEF CursorInv
  <2>4. proposal' = V /\ V <= Len(taken) + Lead + 1 /\ Detected <= V
    BY <1>2, <1>4, <1>5, <1>7
  <2> QED  BY <2>1, <2>2, <2>3, <2>4, <1>4, <1>6, <1>8, <1>9 DEF CursorInv
<1> QED  BY <1>20, <1>21, <1>22, <1>23, <1>24

\* The steps of the reader that touch neither the memory nor the cursor.
LEMMA ReaderKeeps ==
  ASSUME RingAssumption, RingTypeInv,
         \/ ReadLength \/ ReadCanary \/ Act \/ UNCHANGED vars
         \/ Test /\ ~(/\ HeaderAt(cursor).proposal = local_proposal
                      /\ seen.canary \/ HeaderAt(cursor).only)
  PROVE  CursorInv' /\ MemoryInv' /\ WireInv' /\ HeaderInv' /\ CanaryInv'
<1>1. /\ CursorInv /\ MemoryInv /\ WireInv /\ HeaderInv /\ CanaryInv
      /\ seen \in [len : Lengths \cup {0}, canary : BOOLEAN]
      /\ taken \in Seq(Entries \cup {Torn}) /\ Len(taken) \in Nat
      /\ Len(written) \in Nat /\ Lead \in Nat
  BY Counts DEF RingTypeInv, HotelTypeInv, RingInv, TypeOK
<1>2. SUFFICES /\ CursorInv' /\ Detected' = Detected
               /\ mem' = mem /\ wire' = wire /\ written' = written
  BY <1>1, QuietKeeps
<1>3. CASE ReadLength
  <2>1. /\ at = "len" /\ at' = "canary" /\ mem' = mem /\ wire' = wire
        /\ written' = written /\ taken' = taken
        /\ next_room_free' = next_room_free /\ proposal' = proposal /\ cursor' = cursor
        /\ local_proposal' = local_proposal /\ prev_header_room' = prev_header_room
        /\ header_room' = header_room
    BY <1>3 DEF ReadLength, writerVars
  <2>2. Detected' = Detected
    BY <2>1 DEF Detected
  <2> QED  BY <2>1, <2>2, <1>1 DEF CursorInv
<1>4. CASE ReadCanary
  <2>1. /\ at = "canary" /\ at' = "test" /\ mem' = mem /\ wire' = wire
        /\ written' = written /\ taken' = taken
        /\ next_room_free' = next_room_free /\ proposal' = proposal /\ cursor' = cursor
        /\ local_proposal' = local_proposal /\ prev_header_room' = prev_header_room
        /\ header_room' = header_room
        /\ seen' = [seen EXCEPT !.canary =
                      CanaryAt(CanaryRoom(cursor + 2, seen.len), seen.len % 4)]
    BY <1>4 DEF ReadCanary, writerVars
  <2>2. Detected' = Detected
    BY <2>1 DEF Detected
  <2>3. PICK c : c = CanaryAt(CanaryRoom(cursor + 2, seen.len), seen.len % 4)
    OBVIOUS
  <2>4. seen' = [seen EXCEPT !.canary = c]
    BY Zenon, <2>1, <2>3
  <2>5. seen'.len = seen.len /\ seen'.canary = c
    BY <2>4, <1>1
  <2>6. seen'.canary => CanaryAt(CanaryRoom(cursor + 2, seen.len), seen.len % 4)'
    <3> SUFFICES ASSUME c
                 PROVE  CanaryAt(CanaryRoom(cursor + 2, seen.len), seen.len % 4)'
      BY <2>5
    <3>1. PICK r, o : r = CanaryRoom(cursor + 2, seen.len) /\ o = seen.len % 4
      OBVIOUS
    <3>2. CanaryAt(r, o)
      BY Zenon, <2>3, <3>1
    <3>3. CanaryAt(r, o)'
      BY <3>2, <2>1 DEF CanaryAt
    <3>4. r = CanaryRoom(cursor' + 2, seen'.len) /\ o = seen'.len % 4
      BY <3>1, <2>1, <2>5
    <3> QED  BY <3>3, <3>4
  <2> QED  BY <2>1, <2>2, <2>6, <1>1 DEF CursorInv
<1>5. CASE Act
  <2>1. PICK entry : taken' = Append(taken, entry)
    BY <1>5 DEF Act
  <2>2. /\ at = "act" /\ at' = "len" /\ mem' = mem /\ wire' = wire
        /\ written' = written
        /\ next_room_free' = next_room_free /\ proposal' = proposal /\ cursor' = cursor
        /\ local_proposal' = local_proposal /\ prev_header_room' = header_room
        /\ header_room' = header_room
    BY <1>5 DEF Act, writerVars
  <2>3. Len(taken') = Len(taken) + 1
    BY <2>1, <1>1
  <2>4. Detected' = Detected /\ Detected = Len(taken')
    BY <2>2, <2>3, <1>1 DEF Detected
  <2>5. Len(written) <= Len(taken) + Lead + 1
    BY <1>1 DEF CursorInv
  <2>6. Len(written) <= Len(taken') + Lead + 1
    BY <2>3, <2>5, <1>1
  <2> QED  BY <2>2, <2>4, <2>6, <1>1 DEF CursorInv
<1>6. CASE UNCHANGED vars
  <2>1. Detected' = Detected
    BY <1>6 DEF Detected, vars
  <2>2. CursorInv'
    BY <2>1, <1>1, <1>6 DEF CursorInv, vars, CanaryAt
  <2> QED  BY <2>1, <2>2, <1>6 DEF vars
<1>7. CASE Test /\ ~(/\ HeaderAt(cursor).proposal = local_proposal
                     /\ seen.canary \/ HeaderAt(cursor).only)
  <2>1. /\ at = "test" /\ at' = "len" /\ mem' = mem /\ wire' = wire
        /\ written' = written /\ taken' = taken
        /\ next_room_free' = next_room_free /\ proposal' = proposal /\ cursor' = cursor
        /\ local_proposal' = local_proposal /\ prev_header_room' = prev_header_room
        /\ header_room' = header_room
    BY <1>7 DEF Test, writerVars
  <2>2. Detected' = Detected
    BY <2>1 DEF Detected
  <2> QED  BY <2>1, <2>2, <1>1 DEF CursorInv
<1> QED  BY <1>3, <1>4, <1>5, <1>6, <1>7

\* The empty ring.
LEMMA RingInit == RingAssumption /\ Init => RingTypeInv
<1> SUFFICES ASSUME RingAssumption, Init  PROVE RingTypeInv
  OBVIOUS
<1>1. HotelTypeInv
  BY HotelTypeInit
<1>2. OneSize /\ Lead \in Nat /\ PROPOSALS \in Nat /\ PROPOSALS > 0
  BY HotelAssumption DEF RingAssumption
<1>3. Place(1) = 0
  BY <1>2, PlaceOne
<1>4. /\ next_room_free = 0 /\ proposal = 0 /\ wire = << >> /\ cursor = 0
      /\ local_proposal = 0 /\ at = "len" /\ written = << >> /\ taken = << >>
      /\ mem = [r \in Region |-> Zeros]
  BY DEF Init
<1>5. Len(written) = 0 /\ Len(taken) = 0 /\ Detected = 0
  BY <1>4 DEF Detected
<1>6. 0 % PROPOSALS = 0
  <2>1. 0 = 0 * PROPOSALS + 0 /\ 0 \in 0 .. PROPOSALS - 1
    BY <1>2
  <2> QED  BY <2>1, <1>2, Remainder
<1>7. CursorInv
  <2>1. 0 <= 0 + Lead + 1 /\ 0 + 1 = 1
    BY <1>2
  <2> QED  BY <2>1, <1>3, <1>4, <1>5, <1>6 DEF CursorInv
<1>8. MemoryInv /\ WireInv
  BY <1>4, <1>5 DEF MemoryInv, WireInv
<1>9. \A r \in Region : mem[r].kind = "zeros"
  BY <1>4 DEF Zeros
<1>10. HeaderInv /\ CanaryInv
  BY <1>9 DEF HeaderInv, CanaryInv
<1> QED  BY <1>1, <1>7, <1>8, <1>10 DEF RingTypeInv, RingInv, HotelTypeInv

\* Every step of the writer, the network and the reader keeps the invariant.
LEMMA RingNext == RingAssumption /\ RingTypeInv /\ [Next]_vars => RingTypeInv'
<1> SUFFICES ASSUME RingAssumption, RingTypeInv, [Next]_vars  PROVE RingTypeInv'
  OBVIOUS
<1>1. HotelTypeInv'
  BY HotelTypeNext DEF RingTypeInv
<1>2. SUFFICES CursorInv' /\ MemoryInv' /\ WireInv' /\ HeaderInv' /\ CanaryInv'
  BY <1>1 DEF RingTypeInv, RingInv, HotelTypeInv
<1>3. CASE \E len \in Lengths, only \in HeaderOnly : Write(len, only)
  BY <1>3, WriteKeeps
<1>4. CASE Land
  BY <1>4, LandKeeps
<1>5. CASE ReadLength \/ ReadCanary \/ Act \/ UNCHANGED vars
  BY <1>5, ReaderKeeps
<1>6. CASE Test
  <2>1. CASE /\ HeaderAt(cursor).proposal = local_proposal
             /\ seen.canary \/ HeaderAt(cursor).only
    BY <1>6, <2>1, DetectKeeps
  <2>2. CASE ~(/\ HeaderAt(cursor).proposal = local_proposal
               /\ seen.canary \/ HeaderAt(cursor).only)
    BY <1>6, <2>2, ReaderKeeps
  <2> QED  BY <2>1, <2>2
<1> QED  BY <1>3, <1>4, <1>5, <1>6 DEF Next, Reader

----------------------------------------------------------------------------
(* What the reader finds                                                   *)

\* An entry that is in memory is whole.
LEMMA WholeAt ==
  ASSUME OneSize, NEW k \in Nat \ {0}, InMemory(k)
  PROVE  /\ HeaderAt(Place(k)) = mem[Place(k)]
         /\ mem[Place(k)].seq = k
         /\ mem[Place(k)].only = written[k].only
         /\ mem[Place(k)].only \/ Whole(Place(k))
<1>1. PICK header \in HeadersOf(k) : header = mem[Place(k)]
  BY DEF InMemory
<1>2. /\ header.kind = "header" /\ header.seq = k /\ header.len \in Lengths
      /\ header.only = written[k].only
  BY <1>1 DEF HeadersOf
<1>3. HeaderAt(Place(k)) = header
  BY <1>1, <1>2 DEF HeaderAt
<1>4. ASSUME ~header.only  PROVE Whole(Place(k))
  <2> SUFFICES ASSUME NEW r \in Place(k) + 2 .. CanaryRoom(Place(k) + 2, header.len)
               PROVE  mem[r].kind \in {"body", "end"} /\ mem[r].seq = k
    BY <1>2, <1>3 DEF Whole
  <2>1. /\ CanaryRoom(Place(k) + 2, header.len) = Place(k) + Stride - 1
        /\ Place(k) \in Nat /\ Stride \in Nat
    BY <1>2, RoomsOf, Sizes
  <2>2. r \in Place(k) + 2 .. Place(k) + Stride - 2 \/ r = Place(k) + Stride - 1
    BY <2>1
  <2>3. CASE r \in Place(k) + 2 .. Place(k) + Stride - 2
    <3>1. mem[r] = Body(k)
      BY <2>3, <1>1, <1>4 DEF InMemory
    <3> QED  BY <3>1 DEF Body
  <2>4. CASE r = Place(k) + Stride - 1
    <3>1. mem[r] = EndOf(k, header.len)
      BY <2>4, <1>1, <1>4 DEF InMemory
    <3> QED  BY <3>1 DEF EndOf
  <2> QED  BY <2>2, <2>3, <2>4
<1> QED  BY <1>1, <1>2, <1>3, <1>4

\* Whatever the writer does meanwhile, the entry the reader acts on and the one
\* before it are in memory.
LEMMA StillThere ==
  ASSUME RingAssumption, RingTypeInv, at = "act",
         NEW k \in {Len(taken), Len(taken) + 1}, k # 0
  PROVE  InMemory(k) /\ k \in 1 .. Len(written)
<1>1. /\ Len(written) \in Nat /\ Len(taken) \in Nat /\ PerLap \in Nat
      /\ Len(written) < Len(taken) + PerLap /\ Detected <= Len(written)
  BY Counts
<1>2. Detected = Len(taken) + 1
  BY <1>1 DEF Detected
<1>3. k \in 1 .. Len(written) /\ Len(written) < k + PerLap /\ k <= Detected
  BY <1>1, <1>2
<1>4. Complete(k)
  BY <1>1, <1>2, <1>3 DEF Complete, RingTypeInv, RingInv, WireInv
<1> QED  BY <1>3, <1>4 DEF RingTypeInv, RingInv, MemoryInv

\* The entry before the one acted on is whole.
LEMMA RingPrevWhole == RingAssumption /\ RingTypeInv => PrevWhole
<1> SUFFICES ASSUME RingAssumption, RingTypeInv, at = "act", taken # << >>
             PROVE  LET prev == HeaderAt(prev_header_room)
                    IN prev.seq = Len(taken) /\ (prev.only \/ Whole(prev_header_room))
  BY DEF PrevWhole
<1>1. OneSize /\ Len(taken) \in Nat /\ taken \in Seq(Entries \cup {Torn})
  BY Counts DEF RingTypeInv, HotelTypeInv, TypeOK
<1>2. PICK k \in Nat \ {0} : k = Len(taken)
  BY <1>1
<1>3. InMemory(k)
  BY <1>2, StillThere
<1>4. prev_header_room = Place(k)
  BY <1>2 DEF RingTypeInv, RingInv, CursorInv
<1>5. /\ HeaderAt(Place(k)) = mem[Place(k)]
      /\ mem[Place(k)].seq = k
      /\ mem[Place(k)].only \/ Whole(Place(k))
  BY <1>1, <1>3, WholeAt
<1> QED  BY <1>2, <1>4, <1>5

\* One step of the log is a step of the ordered log or none.
LEMMA RingStep ==
  RingAssumption /\ RingTypeInv /\ [Next]_vars => [Log!Next]_<<written, taken>>
<1> SUFFICES ASSUME RingAssumption, RingTypeInv, [Next]_vars
             PROVE  Log!Next \/ (written' = written /\ taken' = taken)
  OBVIOUS
<1>1. ASSUME NEW len \in Lengths, NEW only \in HeaderOnly, Write(len, only)
      PROVE  Log!Next
  <2>1. PICK entry : entry = [seq |-> Len(written) + 1, only |-> only]
    OBVIOUS
  <2>2. written' = Append(written, entry) /\ taken' = taken
        /\ Len(written) + 1 <= MaxEntries
    BY <1>1, <2>1 DEF Write, readerVars
  <2>3. Len(written) \in Nat /\ only \in BOOLEAN /\ MaxEntries \in Nat
    BY Counts, HotelAssumption
  <2>4. entry \in Entries
    BY <2>1, <2>2, <2>3 DEF Entries
  <2> QED  BY <2>2, <2>4 DEF Log!Next, Log!Put
<1>2. CASE Land
  BY <1>2 DEF Land, writerVars, readerVars
<1>3. CASE ReadLength \/ ReadCanary \/ Test
  BY <1>3 DEF ReadLength, ReadCanary, Test, writerVars
<1>4. CASE Act
  <2>1. PICK k \in Nat \ {0} : k = Len(taken) + 1
    BY Counts
  <2>2. at = "act" /\ written' = written
    BY <1>4 DEF Act, writerVars
  <2>3. InMemory(k) /\ k \in 1 .. Len(written)
    BY <2>1, <2>2, StillThere
  <2>4. header_room = Place(k)
    BY <2>1, <2>2, Counts DEF RingTypeInv, RingInv, CursorInv, Detected
  <2>5. OneSize /\ written \in Seq(Entries) /\ Len(taken) \in Nat /\ Len(written) \in Nat
    BY Counts
  <2>6. PICK header : header = HeaderAt(header_room)
    OBVIOUS
  <2>7. header.seq = k /\ header.only = written[k].only
        /\ (header.only \/ Whole(header_room))
    BY <2>3, <2>4, <2>5, <2>6, WholeAt
  <2>8. taken' = Append(taken, [seq |-> k, only |-> written[k].only])
    BY <1>4, <2>6, <2>7 DEF Act
  <2>9. [seq |-> k, only |-> written[k].only] = written[k]
    <3>1. PICK entry \in Entries : entry = written[k]
      BY <2>3, <2>5
    <3>2. entry.seq = k
      BY <2>3, <3>1 DEF RingTypeInv, RingInv, CursorInv
    <3> QED  BY <3>1, <3>2 DEF Entries
  <2>10. taken' = Append(taken, written[Len(taken) + 1]) /\ Len(taken) < Len(written)
    BY <2>1, <2>3, <2>5, <2>8, <2>9
  <2> QED  BY <2>2, <2>10 DEF Log!Next, Log!Take
<1>5. CASE UNCHANGED vars
  BY <1>5 DEF vars
<1> QED  BY <1>1, <1>2, <1>3, <1>4, <1>5 DEF Next, Reader

\* The cursors of the two sides count the same entries, each entry of the last lap
\* is in memory as it was written, and no stale header or canary is taken for the
\* next one's, on every lap.
THEOREM RingInvCorrect ==
  ASSUME RingAssumption  PROVE Spec => []RingInv
<1>1. RingTypeInv => RingInv
  BY DEF RingTypeInv
<1> QED  BY <1>1, RingInit, RingNext, PTL DEF Spec

\* What rsdco_detect_action_rply reads of the entry before, at reqs.cc:523-536, is
\* still whole, whatever landed since it was detected.
THEOREM PrevWholeCorrect ==
  ASSUME RingAssumption  PROVE Spec => []PrevWhole
<1> QED  BY RingInit, RingNext, RingPrevWhole, PTL DEF Spec

\* The polled ring is an ordered log: detect_func is called on every entry once, in
\* order, on its payload as written.
THEOREM LogCorrect ==
  ASSUME RingAssumption  PROVE Spec => LogSpec
<1>1. Init => Log!Init
  BY DEF Init, Log!Init
<1> QED  BY <1>1, RingInit, RingNext, RingStep, PTL DEF Spec, LogSpec, Log!Spec
=============================================================================
