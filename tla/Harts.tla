-------------------------------- MODULE Harts --------------------------------
(***************************************************************************)
(* The harts from start() to scheduler() (lab2/kernel/main.c) and their    *)
(* interrupts from then on: the PLIC (plic.c, external), devintr()         *)
(* (trap.c) and the timer (start.c, kernelvec.S). What a device's handler  *)
(* does with what is waiting is in Uart and VirtioDisk.                    *)
(***************************************************************************)
EXTENDS Integers, Sequences, FiniteSets
LOCAL INSTANCE Functions

CONSTANTS Others,      \* the harts but hart 0
          Irqs, None,
          MaxWork,     \* bound on what waits in a device
          MaxTimes     \* bound on the timer's interrupts

Harts == {0} \cup Others

VARIABLES pc, step, \* where a hart is; of main()
          started,
          ready,    \* what the boot has done for all harts
          own,      \* what a hart has done for itself
          work, pending, claimed,   \* the devices' work; the PLIC
          irq,      \* of devintr()
          sip,      \* the software interrupt the timer sets
          fired, ticks
hartVars == <<pc, step, started, ready, own, work, pending, claimed, irq, sip, fired, ticks>>
interruptVars == <<work, pending, claimed, irq, sip, fired, ticks>>
bootVars == <<step, started, ready, own>>

-----------------------------------------------------------------------------
(* main().                                                                    *)
main(h) ==
  IF h # 0 THEN <<"started?", "kvminithart", "trapinithart", "plicinithart">>
  ELSE <<"consoleinit", "printfinit", "kinit", "kvminit", "kvminithart", "procinit", "trapinit",
         "trapinithart", "plicinit", "plicinithart", "binit", "iinit", "fileinit",
         "virtio_disk_init", "userinit", "make_sem_array", "started">>
OfHart == {"kvminithart", "trapinithart", "plicinithart"}

Init ==
  /\ pc = [h \in Harts |-> "main"] /\ step = [h \in Harts |-> 1] /\ started = FALSE /\ ready = {} /\ own = [h \in Harts |-> {}]
  /\ work = [i \in Irqs |-> 0] /\ pending = {} /\ claimed = [i \in Irqs |-> None]
  /\ irq = [h \in Harts |-> None] /\ sip = [h \in Harts |-> FALSE] /\ fired = 0 /\ ticks = 0

Step(h) == main(h)[step[h]]
Boot(h) ==
  /\ pc[h] = "main" /\ (Step(h) = "started?" => started)
  /\ step' = [step EXCEPT ![h] = @ + 1]
  /\ pc' = [pc EXCEPT ![h] = IF step[h] = Len(main(h)) THEN "runs" ELSE @]
  /\ started' = (started \/ Step(h) = "started")
  /\ ready' = IF h = 0 THEN ready \cup {Step(h)} ELSE ready
  /\ own' = IF Step(h) \in OfHart THEN [own EXCEPT ![h] = @ \cup {Step(h)}] ELSE own
  /\ UNCHANGED interruptVars

-----------------------------------------------------------------------------
(* The hardware: a device has work; while it has, and nobody serves it, the   *)
(* PLIC has its interrupt; a hart that runs is interrupted.                   *)
Goes(h, to) == pc' = [pc EXCEPT ![h] = to] /\ UNCHANGED bootVars
Raise(i) ==
  /\ work[i] < MaxWork /\ work' = [work EXCEPT ![i] = @ + 1]
  /\ UNCHANGED <<pc, bootVars, pending, claimed, irq, sip, fired, ticks>>
Forward(i) ==
  /\ "plicinit" \in ready /\ work[i] > 0 /\ claimed[i] = None /\ i \notin pending
  /\ pending' = pending \cup {i} /\ UNCHANGED <<pc, bootVars, work, claimed, irq, sip, fired, ticks>>
External(h) == pc[h] = "runs" /\ "plicinithart" \in own[h] /\ pending # {}
               /\ Goes(h, "claim") /\ UNCHANGED interruptVars
Software(h) == pc[h] = "runs" /\ sip[h] /\ Goes(h, "timer") /\ UNCHANGED interruptVars

(* timervec: the timer interrupts at any time, and a software interrupt waits. *)
timervec(h) ==
  /\ fired < MaxTimes /\ fired' = (IF h = 0 THEN fired + 1 ELSE fired) /\ sip' = [sip EXCEPT ![h] = TRUE]
  /\ UNCHANGED <<pc, bootVars, work, pending, claimed, irq, ticks>>

-----------------------------------------------------------------------------
(* devintr(): the PLIC gives an interrupt to one hart, the others get none.   *)
plic_claim(h) ==
  /\ pc[h] = "claim"
  /\ IF pending = {} THEN Goes(h, "runs") /\ UNCHANGED <<pending, claimed, irq>>
     ELSE \E i \in pending :
            /\ Goes(h, "serve") /\ irq' = [irq EXCEPT ![h] = i]
            /\ pending' = pending \ {i} /\ claimed' = [claimed EXCEPT ![i] = h]
  /\ UNCHANGED <<work, sip, fired, ticks>>

Serve(h) ==
  /\ pc[h] = "serve"
  /\ IF work[irq[h]] = 0 THEN Goes(h, "complete") /\ UNCHANGED work
     ELSE work' = [work EXCEPT ![irq[h]] = @ - 1] /\ UNCHANGED <<pc, bootVars>>
  /\ UNCHANGED <<pending, claimed, irq, sip, fired, ticks>>
plic_complete(h) ==
  /\ pc[h] = "complete" /\ irq' = [irq EXCEPT ![h] = None] /\ Goes(h, "runs")
  /\ claimed' = [claimed EXCEPT ![irq[h]] = None]
  /\ UNCHANGED <<work, pending, sip, fired, ticks>>

Counts(h)   == h = 0
clockintr(h) ==
  /\ pc[h] = "timer" /\ ticks' = (IF Counts(h) THEN ticks + 1 ELSE ticks) /\ Goes(h, "ack")
  /\ UNCHANGED <<work, pending, claimed, irq, sip, fired>>
Acknowledge(h) ==
  /\ pc[h] = "ack" /\ sip' = [sip EXCEPT ![h] = FALSE] /\ Goes(h, "runs")
  /\ UNCHANGED <<work, pending, claimed, irq, fired, ticks>>

Next ==
  \/ \E h \in Harts : \/ Boot(h) \/ External(h) \/ Software(h) \/ timervec(h) \/ plic_claim(h)
                      \/ Serve(h) \/ plic_complete(h) \/ clockintr(h) \/ Acknowledge(h)
  \/ \E i \in Irqs : Raise(i) \/ Forward(i)
Spec == Init /\ [][Next]_hartVars

-----------------------------------------------------------------------------
(* PROPERTY: whatever a hart does in its boot finds what it uses done, by     *)
(* itself or by hart 0; and when it takes processes and interrupts, all of    *)
(* the kernel is there, its page table and its trap vector too (main.c:36).   *)
Uses == [s \in Range(main(0)) \cup {"started?"} |->
  CASE s = "printfinit"  -> {"consoleinit"}
    [] s = "kvminit"     -> {"kinit"}
    [] s = "kvminithart" -> {"kvminit"}
    [] s = "virtio_disk_init" -> {"kinit"}
    [] s = "userinit"    -> {"kinit", "procinit", "iinit"}
    [] OTHER -> {}]
BootOrder == \A h \in Harts :
  IF pc[h] = "main" THEN (Step(h) = "started?" \/ Uses[Step(h)] \subseteq ready)
  ELSE Range(main(0)) \subseteq ready /\ own[h] = OfHart

(* PROPERTY: the handler of a device runs on one hart at a time, and a device *)
(* whose interrupt is taken is one a hart is about to serve or to complete,   *)
(* so that it can interrupt again (trap.c:197).                               *)
Serving(i) == {h \in Harts : pc[h] \in {"serve", "complete"} /\ irq[h] = i}
OneHandler == \A i \in Irqs :
  /\ Cardinality(Serving(i)) <= 1
  /\ \A h \in Harts : claimed[i] = h => h \in Serving(i)
  /\ work[i] > 0 /\ claimed[i] # None => i \notin pending

(* PROPERTY: the clock is never ahead of the timer of hart 0, and its first   *)
(* interrupt at least is not lost; one that comes while another is served may *)
(* be, for the answer to that one clears it (trap.c:208-214).                 *)
TicksRight == ticks <= fired /\ (fired > 0 /\ ticks = 0 => sip[0])
=============================================================================
