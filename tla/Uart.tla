-------------------------------- MODULE Uart --------------------------------
(***************************************************************************)
(* Console output (kernel/uart.c): uartputc() in any number of processes,  *)
(* the interrupt handler, and uartputc_sync(), which echoes and prints     *)
(* without uart_tx_lock.  Looking at LSR and writing THR are two steps.    *)
(***************************************************************************)
EXTENDS Integers, Sequences, FiniteSets

CONSTANTS Writers, Echoers,   \* processes in write(); CPUs that echo or print
          UART_TX_BUF_SIZE,
          CountMod,           \* uart_tx_w and uart_tx_r are uint64: 2^64
          FIFO_DEPTH,         \* of the transmit FIFO that uartinit() enables
          NoByte

(* A CPU echoes or prints one character at a time, with interrupts off: with  *)
(* the one of uartstart() they fit in the FIFO (NCPU is 8, the FIFO has 16).  *)
ASSUME UartAssumption ==
  /\ UART_TX_BUF_SIZE \in Nat \ {0} /\ CountMod \in Nat /\ CountMod > UART_TX_BUF_SIZE
  /\ CountMod % UART_TX_BUF_SIZE = 0
  /\ IsFiniteSet(Echoers) /\ FIFO_DEPTH \in Nat /\ Cardinality(Echoers) < FIFO_DEPTH
  /\ "intr" \notin Writers /\ NoByte \notin Writers \cup {"intr"} \cup Int

VARIABLES ring, tx_w, tx_r,   \* uart_tx_buf and its indices
          tx_lock,            \* who has uart_tx_lock: a writer, or "intr"
          hand,               \* c in uartstart()
          putting, echo,      \* where each writer and each echoer is
          fifo,               \* in the UART: accepted and not sent
          tx_intr             \* its interrupt is pending

uartVars == <<ring, tx_w, tx_r, tx_lock, hand, putting, echo, fifo, tx_intr>>

UartInit ==
  /\ ring = [i \in 0 .. UART_TX_BUF_SIZE - 1 |-> NoByte] /\ tx_w = 0 /\ tx_r = 0
  /\ tx_lock = NoByte /\ hand = NoByte /\ fifo = <<>> /\ tx_intr = FALSE
  /\ putting = [p \in Writers |-> "user"] /\ echo = [x \in Echoers |-> "idle"]

Waiting == (tx_w - tx_r) % CountMod
Queued  == [k \in 1 .. Waiting |-> ring[(tx_r + k - 1) % UART_TX_BUF_SIZE]]
IsFull  == tx_w = (tx_r + UART_TX_BUF_SIZE) % CountMod
Idle    == fifo = <<>>   \* LSR_TX_IDLE
Echoed  == -1
PutAt(p, l) == putting' = [putting EXCEPT ![p] = l]

(* The FIFO drops what it has no room for.                                    *)
WriteTHR(c) == fifo' = IF Len(fifo) < FIFO_DEPTH THEN Append(fifo, c) ELSE fifo

-----------------------------------------------------------------------------
(* uartputc() up to uartstart(); a character is told by its number.           *)
uartputc(p) ==
  /\ putting[p] \in {"user", "put"} /\ tx_lock = NoByte
  /\ \/ IsFull /\ PutAt(p, "sleep") /\ UNCHANGED <<ring, tx_w, tx_lock>>
     \/ /\ ~IsFull
        /\ ring' = [ring EXCEPT ![tx_w % UART_TX_BUF_SIZE] = tx_w]
        /\ tx_w' = (tx_w + 1) % CountMod
        /\ tx_lock' = p /\ PutAt(p, "start")
  /\ UNCHANGED <<tx_r, hand, echo, fifo, tx_intr>>

uartintr ==
  /\ tx_intr /\ tx_lock = NoByte
  /\ tx_intr' = FALSE /\ tx_lock' = "intr"
  /\ UNCHANGED <<ring, tx_w, tx_r, hand, putting, echo, fifo>>

(* uartstart(): a turn of the loop in two steps, or the return.               *)
(* Mutant: LSR is not read.                                                   *)
MustStopEmpty == Waiting = 0

MustStop == Waiting = 0 \/ ~Idle
WritersWoken == [p \in Writers |-> IF putting[p] = "sleep" THEN "put" ELSE putting[p]]
StartNext ==
  /\ tx_lock # NoByte /\ hand = NoByte /\ ~MustStop
  /\ hand' = ring[tx_r % UART_TX_BUF_SIZE]
  /\ tx_r' = (tx_r + 1) % CountMod
  /\ putting' = WritersWoken
  /\ UNCHANGED <<ring, tx_w, tx_lock, echo, fifo, tx_intr>>

StartWrite ==
  /\ hand # NoByte
  /\ WriteTHR(hand) /\ hand' = NoByte
  /\ UNCHANGED <<ring, tx_w, tx_r, tx_lock, putting, echo, tx_intr>>

StartReturn ==
  /\ tx_lock # NoByte /\ hand = NoByte /\ MustStop
  /\ putting' = [p \in Writers |-> IF p = tx_lock THEN "user" ELSE putting[p]]
  /\ tx_lock' = NoByte
  /\ UNCHANGED <<ring, tx_w, tx_r, hand, echo, fifo, tx_intr>>

(* uartputc_sync().                                                           *)
EchoIdle(x) ==
  /\ echo[x] = "idle" /\ Idle
  /\ echo' = [echo EXCEPT ![x] = "write"]
  /\ UNCHANGED <<ring, tx_w, tx_r, tx_lock, hand, putting, fifo, tx_intr>>

EchoWrite(x) ==
  /\ echo[x] = "write"
  /\ WriteTHR(Echoed) /\ echo' = [echo EXCEPT ![x] = "idle"]
  /\ UNCHANGED <<ring, tx_w, tx_r, tx_lock, hand, putting, tx_intr>>

(* The UART sends a character, and interrupts when it has no more.            *)
Send ==
  /\ fifo # <<>>
  /\ fifo' = Tail(fifo) /\ tx_intr' = (tx_intr \/ Len(fifo) = 1)
  /\ UNCHANGED <<ring, tx_w, tx_r, tx_lock, hand, putting, echo>>

UartNext ==
  \/ \E p \in Writers : uartputc(p)
  \/ uartintr \/ StartNext \/ StartWrite \/ StartReturn \/ Send
  \/ \E x \in Echoers : EchoIdle(x) \/ EchoWrite(x)
UartSpec == UartInit /\ [][UartNext]_uartVars

-----------------------------------------------------------------------------
(* Output never stops by itself: while characters wait somebody is in         *)
(* uartstart(), or the UART will interrupt; and who sleeps for room in the    *)
(* ring sleeps beside a full one.                                             *)
OutputGoesOn ==
  /\ Waiting > 0 => tx_lock # NoByte \/ fifo # <<>> \/ tx_intr
  /\ \A p \in Writers : putting[p] = "sleep" => IsFull \/ tx_lock # NoByte

(* uartstart() waits for an idle UART, so one of its characters is there at   *)
(* most, whatever is echoed beside it.                                        *)
Ours       == {k \in 1 .. Len(fifo) : fifo[k] # Echoed}
OneOfOurs  == \A j, k \in Ours : j = k
InTheUart  == IF Ours = {} THEN <<>> ELSE <<fifo[CHOOSE k \in Ours : TRUE]>>
ByteInHand == IF hand = NoByte THEN <<>> ELSE <<hand>>
OnItsWay   == InTheUart \o ByteInHand \o Queued

QueueInit == OnItsWay = <<>>
QueueStep ==
  \/ OnItsWay' = OnItsWay
  \/ OnItsWay # <<>> /\ OnItsWay' = Tail(OnItsWay)
  \/ \E c \in 0 .. CountMod - 1 : OnItsWay' = Append(OnItsWay, c)

(* PROPERTY: nothing that write() accepts is left behind, lost or reordered   *)
(* on its way out: what is on its way is a queue that moves (uart.c:86, 136). *)
OutputRight == QueueInit /\ [](OutputGoesOn /\ OneOfOurs) /\ [][QueueStep]_uartVars
=============================================================================
