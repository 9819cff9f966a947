------------------------------ MODULE SerialLink ------------------------------
(* The serial link of the gateway: eSL_WriteMessage of Serial_LinkCommand.c puts
   a message into characters, eSL_ReadMessage of SerialLink.c takes a buffer of
   characters apart and writes the message over the buffer it reads.  Its state
   survives the call in static variables.  The line between them loses and
   changes characters.

   One action is one round of the reading loop.  Arrays are sequences, so the
   character pu8Message[n] is buf[n + 1]. *)
EXTENDS Naturals, Sequences, FiniteSets, SequencesExt

CONSTANTS Messages,       \* messages sent: records [type, data]
          Noise,          \* what the line makes of a character
          RX_MAX_LENGTH,  \* 256
          CursorMod,      \* the reading index is a uint8: 256
          MaxCalls        \* bound: calls of eSL_ReadMessage

U16 == 65536   \* types and lengths are of type uint16

ASSUME MessageAssumption ==
    /\ Messages \subseteq [type : 0 .. U16 - 1, data : Seq(0 .. 255)]
    /\ \A m \in Messages : Len(m.data) < U16
ASSUME LinkAssumption ==
    /\ Noise \subseteq 0 .. 255
    /\ RX_MAX_LENGTH \in Nat /\ CursorMod \in Nat \ {0}
    /\ CursorMod <= RX_MAX_LENGTH
    /\ MaxCalls \in Nat

VARIABLES eRxState, u8CRC, u16Bytes, bInEsc,  \* static in eSL_ReadMessage
          type, length,   \* the caller's variables, *pu16Type and *pu16Length
          buf,            \* the caller's buffer, pu8Message
          i,              \* the reading index
          ret,            \* "line" before the call, "run" in it, then its result
          line,           \* what was in the buffer when the call began
          msg,            \* the message the sender put on the line
          hurt,           \* what the line did: "none", "payload" or "other"
          synced,         \* the buffer does not continue a message of the one before
          calls           \* counted against MaxCalls

statics == <<eRxState, u8CRC, u16Bytes, bInEsc>>
serialVars == <<eRxState, u8CRC, u16Bytes, bInEsc, type, length, buf, i, ret,
                line, msg, hurt, synced, calls>>

SL_START_CHAR == 1
SL_ESC_CHAR == 2
SL_END_CHAR == 3
Control == {SL_START_CHAR, SL_ESC_CHAR, SL_END_CHAR}

(* teSL_RxState, in the order of the enumeration. *)
WAIT_START == 0
WAIT_TYPEMSB == 1
WAIT_TYPELSB == 2
WAIT_LENMSB == 3
WAIT_LENLSB == 4
WAIT_CRC == 5
WAIT_DATA == 6

-----------------------------------------------------------------------------
(* b ^ 0x10, and the exclusive or of a sequence of bytes, bit by bit. *)
Bit(b, k) == (b \div 2^k) % 2
Flip(b) == IF Bit(b, 4) = 1 THEN b - 16 ELSE b + 16
Parity(s, k) == (Cardinality({n \in DOMAIN s : Bit(s[n], k) = 1}) % 2) * 2^k
Xor(s) == Parity(s, 0) + Parity(s, 1) + Parity(s, 2) + Parity(s, 3)
            + Parity(s, 4) + Parity(s, 5) + Parity(s, 6) + Parity(s, 7)

\* Mutant: the type is left out.
SumWithoutType(t, l, data) == Xor(<<l % 256, l \div 256>> \o data)
u8SL_CalculateCRC(t, l, data) == Xor(<<t % 256, t \div 256, l % 256, l \div 256>> \o data)

\* Mutant: the end character is not escaped.
EscapedLess(b) == IF b < SL_END_CHAR THEN <<SL_ESC_CHAR, Flip(b)>> ELSE <<b>>
Escaped(b) == IF b < 16 THEN <<SL_ESC_CHAR, Flip(b)>> ELSE <<b>>

(* The LinkMessage tables hold type, length, a place for the checksum and the
   data of a message. *)
eSL_WriteMessage(m) ==
    LET l == Len(m.data)
        bytes == <<m.type \div 256, m.type % 256, l \div 256, l % 256,
                   u8SL_CalculateCRC(m.type, l, m.data)>> \o m.data
    IN  <<SL_START_CHAR>> \o FlattenSeq([n \in DOMAIN bytes |-> Escaped(bytes[n])])
          \o <<SL_END_CHAR>>

-----------------------------------------------------------------------------
SerialInit ==
    /\ eRxState = WAIT_START /\ u8CRC = 0 /\ u16Bytes = 0 /\ bInEsc = FALSE
    /\ type = 0 /\ length = 0
    /\ buf = <<>> /\ i = 0 /\ ret = "FALSE"
    /\ line = <<>> /\ msg = [type |-> 0, data |-> <<>>]
    /\ hurt = "none" /\ synced = TRUE
    /\ calls = 0

(* The next message comes in.  The caller passes new variables, set to 0, or the
   ones of the last call. *)
Send(m) ==
    /\ ret \in {"TRUE", "FALSE"} /\ calls < MaxCalls
    /\ calls' = calls + 1
    /\ ret' = "line" /\ msg' = m /\ hurt' = "none"
    /\ line' = eSL_WriteMessage(m)
    /\ \/ UNCHANGED <<type, length>>
       \/ type' = 0 /\ length' = 0
    /\ buf' = <<>> /\ i' = 0 /\ synced' = TRUE
    /\ UNCHANGED statics

(* The line loses or changes a character of a message, one at most.  Every byte
   of a message is one character that is no control character, so these count
   the bytes; bytes 3 and 4 are the length. *)
ByteAt(k) == Cardinality({n \in 1 .. k : line[n] \notin Control})
Damage(new, kind) ==
    /\ ret = "line" /\ hurt = "none"
    /\ line' = new
    /\ hurt' = kind
    /\ UNCHANGED <<statics, type, length, buf, i, ret, msg, synced, calls>>
Lose(k) == Damage(RemoveAt(line, k), "other")
Change(k, b) ==
    /\ line[k] # b
    /\ Damage([line EXCEPT ![k] = b],
              IF line[k] \notin Control /\ b \notin Control /\ ByteAt(k) \notin {3, 4}
                THEN "payload" ELSE "other")

-----------------------------------------------------------------------------
(* eSL_ReadMessage. *)

Call ==
    /\ ret = "line"
    /\ ret' = "run"
    /\ buf' = line /\ i' = 0
    /\ synced' = (eRxState = WAIT_START)
    /\ UNCHANGED <<statics, type, length, line, msg, hurt, calls>>

StartChar ==
    /\ u16Bytes' = 0 /\ bInEsc' = FALSE
    /\ eRxState' = WAIT_TYPEMSB
    /\ synced' = (synced \/ i = 0)
    /\ UNCHANGED <<u8CRC, type, length, buf, ret>>

EscChar ==
    /\ bInEsc' = TRUE
    /\ UNCHANGED <<eRxState, u8CRC, u16Bytes, type, length, buf, ret, synced>>

(* The checksum is computed over length bytes of the buffer; behind its end they
   are whatever memory holds. *)
Behind == length > Len(buf)
Sum == u8SL_CalculateCRC(type, length, SubSeq(buf, 1, length))
EndChar ==
    /\ \/ /\ length > RX_MAX_LENGTH
          /\ eRxState' = WAIT_START /\ UNCHANGED ret
       \/ /\ length <= RX_MAX_LENGTH
          /\ IF Behind THEN TRUE ELSE u8CRC = Sum
          /\ eRxState' = WAIT_START /\ ret' = "TRUE"
       \/ /\ length <= RX_MAX_LENGTH
          /\ IF Behind THEN TRUE ELSE u8CRC # Sum
          /\ UNCHANGED <<eRxState, ret>>
    /\ UNCHANGED <<u8CRC, u16Bytes, bInEsc, type, length, buf, synced>>

(* A character of the message, in each state of the receiver. *)
InWaitStart ==
    /\ eRxState = WAIT_START
    /\ UNCHANGED <<eRxState, u8CRC, u16Bytes, type, length, buf>>
InTypeMsb(c) ==
    /\ eRxState = WAIT_TYPEMSB
    /\ type' = c * 256
    /\ eRxState' = WAIT_TYPELSB
    /\ UNCHANGED <<u8CRC, u16Bytes, length, buf>>
InTypeLsb(c) ==
    /\ eRxState = WAIT_TYPELSB
    /\ type' = (type + c) % U16
    /\ eRxState' = WAIT_LENMSB
    /\ UNCHANGED <<u8CRC, u16Bytes, length, buf>>
InLenMsb(c) ==
    /\ eRxState = WAIT_LENMSB
    /\ length' = c * 256
    /\ eRxState' = WAIT_LENLSB
    /\ UNCHANGED <<u8CRC, u16Bytes, type, buf>>
InLenLsb(c) ==
    /\ eRxState = WAIT_LENLSB
    /\ length' = (length + c) % U16
    /\ eRxState' = IF length' > RX_MAX_LENGTH THEN WAIT_START ELSE WAIT_CRC
    /\ UNCHANGED <<u8CRC, u16Bytes, type, buf>>
InCrc(c) ==
    /\ eRxState = WAIT_CRC
    /\ u8CRC' = c
    /\ eRxState' = WAIT_DATA
    /\ UNCHANGED <<u16Bytes, type, length, buf>>

(* i++, in 8 bits. *)
\* Mutant: an escape character is not passed over.
CursorKept == IF buf[i + 1] = SL_ESC_CHAR THEN i ELSE (i + 1) % CursorMod
NextCursor == (i + 1) % CursorMod

(* pu8Message[u16Bytes++] = u8Data.  In a message that began in an earlier buffer
   the place may lie behind this one. *)
\* Mutant: the data is written where the next character is read.
PutAtCursor(n, c) ==
    IF NextCursor < Len(buf) THEN [buf EXCEPT ![NextCursor + 1] = c] ELSE buf
Put(n, c) == IF n + 1 <= Len(buf) THEN [buf EXCEPT ![n + 1] = c] ELSE buf

\* Mutant: one byte too many.
RoomForOneMore == u16Bytes <= length
RoomLeft == u16Bytes < length
InData(c) ==
    /\ eRxState = WAIT_DATA
    /\ \/ /\ RoomLeft
          /\ buf' = Put(u16Bytes, c) /\ u16Bytes' = u16Bytes + 1
       \/ /\ ~RoomLeft
          /\ UNCHANGED <<buf, u16Bytes>>
    /\ UNCHANGED <<eRxState, u8CRC, type, length>>

MessageChar(b) ==
    LET c == IF bInEsc THEN Flip(b) ELSE b
    IN  /\ bInEsc' = FALSE
        /\ \/ InWaitStart \/ InTypeMsb(c) \/ InTypeLsb(c) \/ InLenMsb(c)
           \/ InLenLsb(c) \/ InCrc(c) \/ InData(c)
        /\ UNCHANGED <<ret, synced>>

ReadChar ==
    /\ ret = "run" /\ Len(buf) > i
    /\ i' = NextCursor
    /\ LET b == buf[i + 1]
       IN  \/ b = SL_START_CHAR /\ StartChar
           \/ b = SL_ESC_CHAR /\ EscChar
           \/ b = SL_END_CHAR /\ EndChar
           \/ b \notin Control /\ MessageChar(b)
    /\ UNCHANGED <<line, msg, hurt, calls>>

Return ==
    /\ ret = "run" /\ Len(buf) <= i
    /\ ret' = "FALSE"
    /\ UNCHANGED <<statics, type, length, buf, i, line, msg, hurt, synced, calls>>

eSL_ReadMessage == Call \/ ReadChar \/ Return

SerialNext ==
    \/ \E m \in Messages : Send(m)
    \/ \E k \in DOMAIN line : Lose(k) \/ \E b \in Noise : Change(k, b)
    \/ eSL_ReadMessage

SerialSpec == SerialInit /\ [][SerialNext]_serialVars
SerialFairness == WF_serialVars(eSL_ReadMessage)

-----------------------------------------------------------------------------
(* Properties. *)

(* The static variables and the caller's variables have the values their C types
   and the state machine allow; the data counter does not pass the length in a
   buffer that does not continue a message of the one before. *)
SerialTypeOK ==
    /\ eRxState \in 0 .. 6 /\ u8CRC \in 0 .. 255 /\ bInEsc \in BOOLEAN
    /\ type \in 0 .. U16 - 1 /\ length \in 0 .. U16 - 1
    /\ u16Bytes \in 0 .. RX_MAX_LENGTH
    /\ ret = "run" /\ synced /\ eRxState = WAIT_DATA => u16Bytes <= length /\ length <= RX_MAX_LENGTH
    /\ i \in 0 .. CursorMod - 1
    /\ buf \in Seq(0 .. 255) /\ line \in Seq(0 .. 255)
    /\ ret \in {"line", "run", "TRUE", "FALSE"}

Short == Len(line) < CursorMod

(* The message is written over the buffer it is read from.  No character is
   overwritten before it was read, unless the buffer continues a message of the
   one before. *)
UnreadIntact ==
    ret = "run" /\ synced /\ Short => \A k \in i + 1 .. Len(line) : buf[k] = line[k]

(* A message that arrives whole is returned whole, whatever the damaged ones
   before it left in the static variables: the decoder inverts the encoder and
   finds its place again at the next start character. *)
WholeIsReturned ==
    ret \in {"TRUE", "FALSE"} /\ calls > 0 /\ hurt = "none" /\ Short =>
        /\ ret = "TRUE"
        /\ type = msg.type
        /\ length = Len(msg.data)
        /\ SubSeq(buf, 1, length) = msg.data

(* One changed byte of type, checksum or data does not pass the checksum.  (A
   changed length, a lost character or a character that becomes a control
   character can.) *)
DamageIsSeen == hurt = "payload" => ret # "TRUE"

(* Every call comes to an end, unless the buffer is longer than the 8-bit index
   can count. *)
ReadReturns == (ret = "run" /\ Short) ~> ret \in {"TRUE", "FALSE"}

=============================================================================
