------------------------------- MODULE DeviceLog -------------------------------
(***************************************************************************)
(* The device's own log (firmware logs.rs, adapters/logs.rs): a bounded    *)
(* buffer of whole lines in memory a software reset leaves alone, from     *)
(* which the next boot takes the lines before the reset.  Lines are their  *)
(* length and the number of the line they are, and chunks are the lengths  *)
(* between their newlines.                                                 *)
(*                                                                         *)
(* Every append is made under the lock, so that it is one step; a reset    *)
(* that interrupts one is not modelled.                                    *)
(***************************************************************************)
EXTENDS Naturals, Sequences

CONSTANTS
  Capacity,          \* CURRENT_BYTES
  KeptCapacity,      \* PREVIOUS_BYTES
  MaxLine,           \* MAX_LINE_BYTES
  Lengths,           \* of what is logged
  NoBuffer,          \* a buffer no boot stamped
  MaxMade            \* bound: lines of a boot

\* CAPACITY_IS_SUFFICIENT, of both buffers.
ASSUME CapacityIsSufficient == Capacity > 4 * MaxLine /\ KeptCapacity > 4 * MaxLine

\* The sizes in the code say more: what an eviction frees holds any line.
ASSUME EvictionMakesRoom == Capacity \div 4 > MaxLine

\* What a line is, and a buffer of them; no boot has stamped NoBuffer.
Lines == [length : Nat, number : Nat]
Buffers == [lines : Seq(Lines), open : BOOLEAN, next : Nat, dropped : Nat]

ASSUME LogAssumption ==
  /\ Capacity \in Nat /\ KeptCapacity \in Nat /\ MaxLine \in Nat \ {0}
  /\ Lengths \subseteq Nat
  /\ NoBuffer \notin Buffers

VARIABLES
  current,           \* CURRENT: lines, whether the last is open, and counters
  previous,          \* PREVIOUS
  made               \* lines of this boot

logVars == <<current, previous, made>>

EmptyLog == [lines |-> <<>>, open |-> FALSE, next |-> 0, dropped |-> 0]

BytesOf(lines) ==
  LET total[i \in 0..Len(lines)] == IF i = 0 THEN 0 ELSE total[i - 1] + lines[i].length + 1
  IN  total[Len(lines)]
Stored(b) == BytesOf(b.lines) - (IF b.open THEN 1 ELSE 0)

FirstSequence(b) == IF b.next > Len(b.lines) THEN b.next - Len(b.lines) ELSE 0
IsIntact(b) == b # NoBuffer /\ Stored(b) <= Capacity /\ b.next >= Len(b.lines)

\* The buffer without its first n lines.
Without(b, n) ==
  [b EXCEPT !.lines = SubSeq(@, n + 1, Len(@)), !.dropped = @ + n,
            !.open = @ /\ n < Len(b.lines)]

\* LogBuffer::evict: whole lines, until a quarter of the buffer is free.
Evicted(b) ==
  LET frees(n) == Stored(Without(b, n)) <= Capacity - (Capacity \div 4)
  IN  Without(b, CHOOSE n \in 0..Len(b.lines) :
                   frees(n) /\ \A m \in 0..Len(b.lines) : frees(m) => n <= m)

OpenLength(b) == IF b.open THEN b.lines[Len(b.lines)].length ELSE 0

\* The open line goes on, or a line begins.
Written(b, length) ==
  IF b.open
  THEN [b EXCEPT !.lines[Len(b.lines)].length = @ + length]
  ELSE [b EXCEPT !.lines = Append(@, [length |-> length, number |-> made]),
                 !.open = TRUE, !.next = @ + 1]

\* LogBuffer::extend: the line's budget, then room for it and its terminator.
Extended(b, raw) ==
  LET room == MaxLine - OpenLength(b)
      length == IF raw < room THEN raw ELSE room
  IN  IF length = 0 THEN b
      ELSE Written(IF Stored(b) + length + 1 > Capacity THEN Evicted(b) ELSE b, length)

Terminated(b) == [b EXCEPT !.open = FALSE]

\* LogBuffer::copy_into: the newest whole lines, in less than the capacity.
CopiedAfterClaim(b) == EmptyLog

Copied(b) ==
  LET fits(n) == Stored(Without(b, n)) < KeptCapacity
  IN  Without(b, CHOOSE n \in 0..Len(b.lines) :
                   fits(n) /\ \A m \in 0..Len(b.lines) : fits(m) => n <= m)

-----------------------------------------------------------------------------
\* A line more or a longer one, and whether it is a new one.
Log(b) == current' = b /\ made' = IF b.next > current.next THEN made + 1 ELSE made

\* ESP-IDF writes a message in several calls, of which some end the line.
NativeChunk ==
  \E length \in Lengths, ends \in BOOLEAN :
    /\ Log(IF ends THEN Terminated(Extended(current, length)) ELSE Extended(current, length))
    /\ UNCHANGED previous

\* A Rust record and its newline go in under one guard.
RustRecord ==
  \E length \in Lengths :
    Log(Terminated(Extended(current, length))) /\ UNCHANGED previous

\* The allocation hook does not wait for the lock, nor does it end its line.
AllocationFails ==
  /\ Log(Extended(current, MaxLine))
  /\ UNCHANGED previous

\* install, after a software reset: the lines are copied, then the buffer is
\* claimed.
SoftwareReset ==
  /\ previous' = IF IsIntact(current) THEN Copied(current) ELSE NoBuffer
  /\ current' = EmptyLog /\ made' = 0

\* Without power RTC memory holds anything, which is not intact.
ColdBoot == previous' = NoBuffer /\ current' = EmptyLog /\ made' = 0

LogInit == current = EmptyLog /\ previous = NoBuffer /\ made = 0

LogNext ==
  \/ made < MaxMade /\ (NativeChunk \/ RustRecord \/ AllocationFails)
  \/ SoftwareReset \/ ColdBoot

LogSpec == LogInit /\ [][LogNext]_logVars

-----------------------------------------------------------------------------
(***************************************************************************)
(* sanitize, over the kinds of byte it tells apart: what follows an escape *)
(* up to a final byte is removed, and so are controls and trailing spaces. *)
(***************************************************************************)
Finals == {"[", "m"}
Controls == {"escape", "control"}

Sanitized(raw) ==
  LET from[i \in 1 .. Len(raw) + 1] ==
        IF i > Len(raw) THEN <<>>
        ELSE IF raw[i] = "escape" /\ i < Len(raw) /\ raw[i + 1] = "["
          THEN LET ends == {j \in i + 2 .. Len(raw) : raw[j] \in Finals}
               IN  IF ends = {} THEN <<>>
                   ELSE from[(CHOOSE j \in ends : \A k \in ends : j <= k) + 1]
        ELSE IF raw[i] \in Controls THEN from[i + 1]
        ELSE <<raw[i]>> \o from[i + 1]
      kept == IF Len(from[1]) > MaxLine THEN SubSeq(from[1], 1, MaxLine) ELSE from[1]
      text == {i \in DOMAIN kept : kept[i] # " "}
  IN  IF text = {} THEN <<>>
      ELSE SubSeq(kept, 1, CHOOSE i \in text : \A k \in text : k <= i)

-----------------------------------------------------------------------------
Numbered(b) ==
  \A i \in DOMAIN b.lines : b.lines[i].number = FirstSequence(b) + i - 1

(***************************************************************************)
(* A poller can trust the numbers: a line keeps the one it got, whatever   *)
(* was evicted before it, whatever chunks it was made of, and after the    *)
(* reset too.                                                              *)
(***************************************************************************)
NumbersStand == Numbered(current) /\ (previous # NoBuffer => Numbered(previous))

(***************************************************************************)
(* The lines that led up to a reset are there after it: the last ones,     *)
(* whole, as many as fit.                                                  *)
(***************************************************************************)
LastWordsKept ==
  [][SoftwareReset =>
       /\ previous' # NoBuffer
       /\ \E n \in 0..Len(current.lines) :
            previous'.lines = SubSeq(current.lines, n + 1, Len(current.lines))
       /\ current.lines # <<>> => previous'.lines # <<>>]_logVars

(***************************************************************************)
(* The log can be read across evictions and resets.                        *)
(***************************************************************************)
LogKept == []NumbersStand /\ LastWordsKept
=============================================================================
