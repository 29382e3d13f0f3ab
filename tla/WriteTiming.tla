---------------------------- MODULE WriteTiming ----------------------------
(***************************************************************************)
(* How the serial writer cuts data into blocks and how long it allows for  *)
(* each of them: WritePolicy of serial/writer/timing.rs, as used by the    *)
(* loop of serial/writer.rs.  Times are milliseconds.  The program         *)
(* computes in u128, which no baud rate of 32 bits and no block of 4 KiB   *)
(* can overflow.  A session takes its policy from the port's settings when *)
(* the port is opened, and its Budget stands for what follows from them.   *)
(***************************************************************************)
EXTENDS SerialSession

CONSTANTS
  Baud,       \* baud rates: a positive u32
  MaxLength   \* bound: longest data the user submits

ASSUME TimingAssumption ==
  /\ Baud \subseteq Nat \ {0}
  /\ MaxLength \in Nat

WriteChunkSize == 4096
MinWriteTimeout == 5000
MaxWriteTimeout == 30000
WriteMargin == 1000

\* A start bit, the data bits, the parity bit if there is one, and the stop bits.
FrameBits ==
  {1 + data + parity + stop : data \in 5..8, parity \in 0..1, stop \in 1..2}

Clamp(x, low, high) == IF x < low THEN low ELSE IF x > high THEN high ELSE x

DivCeil(x, y) == (x + y - 1) \div y

\* Mutant of ChunkSize: the margin is not taken off the longest budget.
ChunkSizeNoMargin(baud, frame) ==
  Clamp((MaxWriteTimeout * baud) \div (2 * frame * 1000), 1, WriteChunkSize)

\* WritePolicy::chunk_size.
ChunkSize(baud, frame) ==
  Clamp(((MaxWriteTimeout - WriteMargin) * baud) \div (2 * frame * 1000), 1, WriteChunkSize)

\* Twice the time the bytes take on the wire.
Transmission(baud, frame, size) == DivCeil(2 * size * frame * 1000, baud)

\* WritePolicy::timeout.
Timeout(baud, frame, size) ==
  Clamp(WriteMargin + Transmission(baud, frame, size), MinWriteTimeout, MaxWriteTimeout)

\* The next block of data of which "left" bytes have not been written.
BlockSize(baud, frame, left) ==
  IF left < ChunkSize(baud, frame) THEN left ELSE ChunkSize(baud, frame)

\* With the policy of any port that is opened, no block is empty or longer than what is
\* left, and the budget of each leaves twice its time on the wire and the margin: the limit of 30 seconds never cuts it, at any baud
\* rate, because blocks are small enough (docs/development/ARCHITECTURE.md, "low baud
\* rates reduce block size").
BudgetCoversWire ==
  connect = "opening" =>
    \A baud \in Baud, frame \in FrameBits, left \in 1..MaxLength :
      LET block == BlockSize(baud, frame, left)
      IN  /\ block \in 1..left
          /\ (Timeout(baud, frame, block) - WriteMargin) * baud >= 2 * block * frame * 1000
=============================================================================
