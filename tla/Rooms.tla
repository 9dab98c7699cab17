------------------------------- MODULE Rooms -------------------------------
(***************************************************************************)
(* The room arithmetic of a MemoryHotel (src/rsdco_hotel.cc and            *)
(* src/includes/rsdco_conn.h): rooms of four bytes, entries of a two-room  *)
(* header, the payload and one canary byte, and the return to room 0 once  *)
(* the next entry would begin past RSDCO_LOGIDX_END.                       *)
(***************************************************************************)
EXTENDS Integers

CONSTANT LOGIDX_END   \* RSDCO_LOGIDX_END: the last room a header may be in

ASSUME RoomsAssumption == LOGIDX_END \in Nat

\* buf_len of rsdco_next_free_room is a uint16_t.
UINT16 == 65536

\* Mutant: the length is rounded down.
Takes_Down(size) == ((size % UINT16) \div 4)

\* Rooms an area of this many bytes takes.  The rounding is a uint16_t sum.
Takes(size) ==
  LET bytes == size % UINT16
  IN IF bytes % 4 = 0 THEN bytes \div 4 ELSE ((bytes + 4) % UINT16) \div 4

\* rsdco_next_free_room: where the next header goes after an area of so many
\* bytes that begins in a room.
NextFreeRoom(room, size) ==
  LET next == room + Takes(size)
  IN IF next > LOGIDX_END THEN 0 ELSE next

\* The room the canary of a payload is in: the byte after the payload.
CanaryRoom(payload, len) == payload + len \div 4

\* The largest payload whose length and canary rsdco_next_free_room rounds
\* without a uint16_t overflow.
MaxLength == UINT16 - 5
=============================================================================
