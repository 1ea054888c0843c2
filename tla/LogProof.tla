------------------------------ MODULE LogProof ------------------------------
(***************************************************************************)
(* Machine-checked theorems about Log, for every number of processes,      *)
(* every set of blocks and contents and every size of the log: the stages  *)
(* of a commit, atomicity, also where calls write more than the log has    *)
(* room for, and how much they may write before log_write() panics.        *)
(***************************************************************************)
EXTENDS Log, TLAPS, FiniteSetTheorems

(* Where a process is says what else happens: no commit while a call is in    *)
(* progress, no call and no other commit during a commit.                     *)
LEMMA Where ==
  ASSUME TypeOK, CallsInv, NEW p \in Procs
  PROVE  /\ IsFiniteSet(Inside) /\ Cardinality(Inside) \in Nat
         /\ at[p] = "in" => outstanding >= 1 /\ ~committing
                            /\ (outstanding = 1 => Inside = {p})
         /\ committing => Inside = {}
         /\ at[p] \notin {"boot", "recover", "cleanup", "unborn"} => Running
<1> USE LogAssumption DEF CallsInv
<1>1. IsFiniteSet(Inside) /\ Cardinality(Inside) \in Nat
  <2>1. Inside \in SUBSET Procs BY DEF Inside
  <2>2. QED BY <2>1, FS_Subset, FS_CardinalityType
<1>2. outstanding = 0 => Inside = {} BY <1>1, FS_EmptySet DEF TypeOK
<1>3. ASSUME at[p] = "in" PROVE outstanding >= 1 /\ ~committing
  <2>1. p \in Inside BY <1>3 DEF Inside
  <2>2. QED BY <1>2, <2>1 DEF TypeOK
<1>4. ASSUME at[p] = "in", outstanding = 1 PROVE Inside = {p}
  <2>1. p \in Inside BY <1>4 DEF Inside
  <2>2. Cardinality(Inside \ {p}) = Cardinality(Inside) - 1 BY <1>1, <2>1, FS_RemoveElement
  <2>3. IsFiniteSet(Inside \ {p}) BY <1>1, FS_RemoveElement
  <2>4. Cardinality(Inside \ {p}) = 0
    BY <1>1, <1>4, <2>2, <2>3, FS_CardinalityType
  <2>5. Inside \ {p} = {} BY <2>3, <2>4, FS_EmptySet
  <2>6. QED BY <2>1, <2>5
<1>5. at[p] \notin {"boot", "recover", "cleanup", "unborn"} => Running BY DEF Running
<1>6. QED BY <1>1, <1>2, <1>3, <1>4, <1>5

(* What log_write() finds in the buffer it is about to pin.                   *)
LEMMA Unlogged ==
  ASSUME LogInv, NEW p \in Procs, at[p] = "in", NEW b \in Blocks
  PROVE  pin[b] = 1 <=> b \in Logged(lh)
<1> USE DEF LogInv
<1>1. Running /\ ~committing BY Where
<1>2. \A i : ~Installed(i) BY <1>1 DEF CallsInv, Committing, Installed
<1>3. QED BY <1>1, <1>2 DEF BufferInv, Logged

(* The block commit() or recovery is about to copy, and its buffer.           *)
LEMMA NextBlock ==
  ASSUME LogInv, NEW p \in Procs, at[p] \in {"write_log", "install", "recover"}
  PROVE  /\ tail[p] + 1 \in DOMAIN lh /\ tail[p] + 1 \in LogData
         /\ lh[tail[p] + 1] \in Blocks
         /\ at[p] = "install" => pin[lh[tail[p] + 1]] = 1
<1> USE DEF LogInv
<1>1. tail[p] \in Nat /\ Len(lh) \in Nat /\ tail[p] < Len(lh) /\ Len(lh) < NLog
  BY DEF TypeOK, StageInv, Stage, Fits
<1>2. lh \in Seq(Blocks) /\ NLog \in Nat BY LogAssumption DEF TypeOK
<1>3. tail[p] + 1 \in 1 .. Len(lh) BY <1>1
<1>4. tail[p] + 1 \in LogData /\ lh[tail[p] + 1] \in Blocks BY <1>1, <1>2, <1>3 DEF LogData
<1>5. ASSUME at[p] = "install" PROVE pin[lh[tail[p] + 1]] = 1
  <2>1. Running BY <1>5, Where
  <2>2. ~Installed(tail[p] + 1) BY <1>1, <1>5 DEF CallsInv, Installed, Committing, TypeOK
  <2>3. QED BY <1>2, <1>3, <1>4, <2>1, <2>2 DEF BufferInv
<1>6. QED BY <1>2, <1>3, <1>4, <1>5

LEMMA ContentsType ==
  ASSUME TypeOK, NEW b \in Blocks PROVE Contents(b) \in Data
BY DEF TypeOK, Contents

(* begin_op() and log_write() without the arithmetic of their tests.          *)
Begins(p) ==
  /\ at[p] = "begin"
  /\ \/ at' = [at EXCEPT ![p] = "asleep"] /\ outstanding' = outstanding
     \/ /\ ~committing
        /\ at' = [at EXCEPT ![p] = "in"] /\ outstanding' = outstanding + 1
  /\ UNCHANGED <<home, logb, head, cache, pin, lh, committing, tail, written>>

Writes(p, b, d) ==
  /\ at' = at /\ ~(Len(lh) >= NLog - 1)
  /\ cache' = [cache EXCEPT ![b] = d]
  /\ written' = [written EXCEPT ![p] = @ \cup {b}]
  /\ \/ b \in Logged(lh) /\ UNCHANGED <<lh, pin>>
     \/ b \notin Logged(lh) /\ lh' = Append(lh, b) /\ pin' = [pin EXCEPT ![b] = @ + 1]

Panics(p) == at' = [at EXCEPT ![p] = "panic"] /\ UNCHANGED <<cache, lh, pin, written>>

LEMMA BeginShape == ASSUME NEW p \in Procs, begin_op(p) PROVE Begins(p)
<1>1. /\ at[p] = "begin"
      /\ UNCHANGED <<home, logb, head, cache, pin, lh, committing, tail, written>>
  BY DEF begin_op, diskVars
<1>2. CASE committing \/ Len(lh) + (outstanding + 1) * MAXOPBLOCKS > LOGSIZE
  <2>1. at' = [at EXCEPT ![p] = "asleep"] /\ outstanding' = outstanding
    BY <1>2, Zenon DEF begin_op, Goto
  <2>2. QED BY <1>1, <2>1, Zenon DEF Begins
<1>3. CASE ~(committing \/ Len(lh) + (outstanding + 1) * MAXOPBLOCKS > LOGSIZE)
  <2>1. at' = [at EXCEPT ![p] = "in"] /\ outstanding' = outstanding + 1 /\ ~committing
    BY <1>3, Zenon DEF begin_op, Goto
  <2>2. QED BY <1>1, <2>1, Zenon DEF Begins
<1>4. QED BY <1>2, <1>3, Zenon

LEMMA WriteShape ==
  ASSUME NEW p \in Procs, NEW b \in Blocks, NEW d \in Data, log_write(p, b, d)
  PROVE  /\ at[p] = "in"
         /\ UNCHANGED <<home, logb, head, outstanding, committing, tail>>
         /\ Writes(p, b, d) \/ Panics(p)
<1>1. at[p] = "in" /\ UNCHANGED <<home, logb, head, outstanding, committing, tail>>
  BY DEF log_write, diskVars
<1>2. CASE Len(lh) >= LOGSIZE \/ Len(lh) >= NLog - 1 \/ outstanding < 1
  <2>1. Panics(p) BY <1>2, Zenon DEF log_write, Goto, Panics
  <2>2. QED BY <1>1, <2>1, Zenon
<1>3. CASE ~(Len(lh) >= LOGSIZE \/ Len(lh) >= NLog - 1 \/ outstanding < 1)
  <2>1. /\ cache' = [cache EXCEPT ![b] = d]
        /\ written' = [written EXCEPT ![p] = @ \cup {b}] /\ at' = at
        /\ IF b \in Logged(lh) THEN UNCHANGED <<lh, pin>>
           ELSE lh' = Append(lh, b) /\ pin' = [pin EXCEPT ![b] = @ + 1]
    BY <1>3, Zenon DEF log_write
  <2>2. Writes(p, b, d) BY <1>3, <2>1, Zenon DEF Writes
  <2>3. QED BY <1>1, <2>2, Zenon
<1>4. QED BY <1>2, <1>3, Zenon

LEMMA TypeStep == ASSUME LogInv, Next PROVE TypeOK'
<1>0. TypeOK /\ CallsInv BY DEF LogInv
<1> USE LogAssumption, <1>0 DEF TypeOK, diskVars, Goto, Places
<1>1. ASSUME NEW p \in Procs, Start(p) PROVE TypeOK' BY <1>1 DEF Start
<1>2. ASSUME NEW p \in Procs, begin_op(p) PROVE TypeOK'
  <2>1. Begins(p) BY ONLY <1>2, BeginShape
  <2>2. at' \in [Procs -> Places] BY <2>1 DEF Begins
  <2>3. outstanding' \in Nat BY <2>1 DEF Begins
  <2>4. QED BY <2>1, <2>2, <2>3 DEF Begins
<1>3. ASSUME NEW p \in Procs, end_op(p) PROVE TypeOK'
  <2>1. outstanding - 1 \in Nat BY <1>3, Where DEF end_op
  <2>2. Woken \in [Procs -> Places] BY DEF Woken
  <2>3. at' \in [Procs -> Places] BY <1>3, <2>2 DEF end_op
  <2>4. QED BY <1>3, <2>1, <2>3 DEF end_op
<1>4. ASSUME NEW p \in Procs, write_log(p) PROVE TypeOK'
  <2>1. lh[tail[p] + 1] \in Blocks BY <1>4, NextBlock DEF write_log
  <2>2. Contents(lh[tail[p] + 1]) \in Data BY <2>1, ContentsType
  <2>3. at' \in [Procs -> Places] BY <1>4 DEF write_log
  <2>4. logb' \in [LogData -> Data] /\ cache' \in [Blocks -> Data \cup {NotCached}]
    BY <1>4, <2>1, <2>2 DEF write_log
  <2>5. tail' \in [Procs -> Nat] BY <1>4 DEF write_log
  <2>6. QED BY <1>4, <2>3, <2>4, <2>5 DEF write_log
<1>5. ASSUME NEW p \in Procs, write_head(p) PROVE TypeOK' BY <1>5 DEF write_head
<1>6. ASSUME NEW p \in Procs, install_trans(p) PROVE TypeOK'
  <2>1. /\ tail[p] + 1 \in LogData /\ lh[tail[p] + 1] \in Blocks
        /\ at[p] = "install" => pin[lh[tail[p] + 1]] = 1
    BY <1>6, NextBlock DEF install_trans
  <2>2. logb[tail[p] + 1] \in Data BY <2>1
  <2>3. pin' \in [Blocks -> {0, 1}] BY <1>6, <2>1 DEF install_trans
  <2>4. at' \in [Procs -> Places] BY <1>6 DEF install_trans
  <2>5. home' \in [Blocks -> Data] /\ cache' \in [Blocks -> Data \cup {NotCached}]
    BY <1>6, <2>2 DEF install_trans
  <2>6. tail' \in [Procs -> Nat] BY <1>6 DEF install_trans
  <2>7. QED BY <1>6, <2>3, <2>4, <2>5, <2>6 DEF install_trans
<1>7. ASSUME NEW p \in Procs, clear(p) PROVE TypeOK' BY <1>7 DEF clear
<1>8. ASSUME NEW p \in Procs, committed(p) PROVE TypeOK'
  <2>1. Woken \in [Procs -> Places] BY DEF Woken
  <2>2. QED BY <1>8, <2>1 DEF committed
<1>9. ASSUME NEW p \in Procs, NEW b \in Blocks, Read(p, b) PROVE TypeOK'
  BY <1>9, ContentsType DEF Read
<1>10. ASSUME NEW p \in Procs, NEW b \in Blocks, NEW d \in Data, log_write(p, b, d)
       PROVE  TypeOK'
  <2>1. /\ at[p] = "in" /\ (Writes(p, b, d) \/ Panics(p))
        /\ UNCHANGED <<home, logb, head, outstanding, committing, tail>>
    BY ONLY <1>10, WriteShape
  <2>2. pin[b] = 1 <=> b \in Logged(lh) BY <2>1, Unlogged
  <2>3. CASE Panics(p) BY <2>1, <2>3 DEF Panics
  <2>4. CASE Writes(p, b, d)
    <3>1. cache' \in [Blocks -> Data \cup {NotCached}] BY <2>4 DEF Writes
    <3>2. written' \in [Procs -> SUBSET Blocks] BY <2>4 DEF Writes
    <3>3. lh' \in Seq(Blocks) /\ pin' \in [Blocks -> {0, 1}]
      <4>1. CASE b \in Logged(lh) BY <2>4, <4>1 DEF Writes
      <4>2. CASE b \notin Logged(lh)
        <5>1. lh' = Append(lh, b) /\ pin' = [pin EXCEPT ![b] = @ + 1] BY <2>4, <4>2 DEF Writes
        <5>2. pin[b] = 0 BY <2>2, <4>2
        <5>3. QED BY <5>1, <5>2
      <4>3. QED BY <4>1, <4>2
    <3>4. at' = at BY <2>4 DEF Writes
    <3>5. QED BY <2>1, <3>1, <3>2, <3>3, <3>4
  <2>5. QED BY <2>1, <2>3, <2>4
<1>11. ASSUME NEW b \in Blocks, Recycle(b) PROVE TypeOK' BY <1>11 DEF Recycle
<1>12. CASE read_head BY <1>12 DEF read_head
<1>13. CASE recovered BY <1>13 DEF recovered
<1>14. CASE Crash
  <2>1. NoBuffers \in [Blocks -> Data \cup {NotCached}] /\ Unpinned \in [Blocks -> {0, 1}]
    BY DEF NoBuffers, Unpinned
  <2>2. Booting \in [Procs -> Places] BY DEF Booting
  <2>3. at' = Booting /\ cache' = NoBuffers /\ pin' = Unpinned BY <1>14 DEF Crash
  <2>4. tail' \in [Procs -> Nat] /\ written' \in [Procs -> SUBSET Blocks]
    BY <1>14 DEF Crash
  <2>5. /\ outstanding' = 0 /\ committing' = FALSE /\ lh' = << >>
        /\ home' = home /\ logb' = logb /\ head' = head
    BY <1>14 DEF Crash
  <2>6. lh' \in Seq(Blocks) BY ONLY <2>5
  <2>7. QED BY <2>1, <2>2, <2>3, <2>4, <2>5, <2>6
<1>15. QED
  BY <1>1, <1>2, <1>3, <1>4, <1>5, <1>6, <1>7, <1>8, <1>9, <1>10, <1>11, <1>12,
     <1>13, <1>14 DEF Next, Commit

-----------------------------------------------------------------------------
(* The calls that are in progress are counted by log.outstanding.             *)
LEMMA InsideStep == ASSUME LogInv, Next PROVE (Cardinality(Inside) <= outstanding)'
<1>0. TypeOK /\ CallsInv BY DEF LogInv
<1>1. /\ IsFiniteSet(Inside) /\ Cardinality(Inside) \in Nat
      /\ outstanding \in Nat /\ Cardinality(Inside) <= outstanding
  BY <1>0, LogAssumption, Where DEF CallsInv, TypeOK
<1>2. ASSUME NEW n \in {outstanding, outstanding + 1}, Inside' = Inside, outstanding' = n
      PROVE  Cardinality(Inside') <= outstanding'
  BY <1>1, <1>2
<1>3. ASSUME NEW p \in Procs, Inside' = Inside \cup {p}, outstanding' = outstanding + 1
      PROVE  Cardinality(Inside') <= outstanding'
  <2>1. Cardinality(Inside \cup {p}) \in {Cardinality(Inside), Cardinality(Inside) + 1}
    BY <1>1, FS_AddElement
  <2>2. QED BY <1>1, <1>3, <2>1
<1>4. ASSUME NEW p \in Inside, Inside' = Inside \ {p},
             outstanding' \in {outstanding - 1, outstanding}
      PROVE  Cardinality(Inside') <= outstanding'
  <2>1. Cardinality(Inside \ {p}) = Cardinality(Inside) - 1 BY <1>1, FS_RemoveElement
  <2>2. QED BY <1>1, <1>4, <2>1
<1>5. ASSUME Inside' = {} PROVE Cardinality(Inside') <= outstanding'
  <2>1. outstanding' \in Nat BY TypeStep DEF TypeOK
  <2>2. QED BY <1>5, <2>1, FS_EmptySet
<1> USE <1>0 DEF TypeOK, Inside, Goto
<1>6. ASSUME NEW p \in Procs, Start(p) PROVE Inside' = Inside /\ outstanding' = outstanding
  BY <1>6 DEF Start
<1>7. ASSUME NEW p \in Procs, Begins(p) PROVE Cardinality(Inside') <= outstanding'
  <2>1. CASE at' = [at EXCEPT ![p] = "asleep"] /\ outstanding' = outstanding
    <3>1. Inside' = Inside BY <1>7, <2>1 DEF Begins
    <3>2. QED BY <1>2, <2>1, <3>1
  <2>2. CASE at' = [at EXCEPT ![p] = "in"] /\ outstanding' = outstanding + 1
    <3>1. Inside' = Inside \cup {p} BY <2>2
    <3>2. QED BY <1>3, <2>2, <3>1
  <2>3. QED BY <1>7, <2>1, <2>2 DEF Begins
<1>8. ASSUME NEW p \in Procs, end_op(p) PROVE Cardinality(Inside') <= outstanding'
  <2>1. p \in Inside /\ outstanding' = outstanding - 1 BY <1>8 DEF end_op
  <2>2. Inside' = Inside \ {p} BY <1>8 DEF end_op, Woken
  <2>3. QED BY <1>4, <2>1, <2>2
<1>9. ASSUME NEW p \in Procs, Commit(p)
      PROVE  Inside' = Inside /\ outstanding' = outstanding
  <2>1. CASE write_log(p) BY <2>1 DEF write_log
  <2>2. CASE write_head(p) BY <2>2 DEF write_head
  <2>3. CASE install_trans(p) BY <2>3 DEF install_trans
  <2>4. CASE clear(p) BY <2>4 DEF clear
  <2>5. CASE committed(p) BY <2>5 DEF committed, Woken
  <2>6. QED BY <1>9, <2>1, <2>2, <2>3, <2>4, <2>5 DEF Commit
<1>10. ASSUME NEW p \in Procs, NEW b \in Blocks, Read(p, b)
       PROVE  Inside' = Inside /\ outstanding' = outstanding
  BY <1>10 DEF Read
<1>11. ASSUME NEW p \in Procs, NEW b \in Blocks, NEW d \in Data, log_write(p, b, d)
       PROVE  Cardinality(Inside') <= outstanding'
  <2>1. at[p] = "in" /\ outstanding' = outstanding /\ (Writes(p, b, d) \/ Panics(p))
    BY ONLY <1>11, WriteShape
  <2>2. CASE Writes(p, b, d) BY <1>2, <2>1, <2>2 DEF Writes
  <2>3. CASE Panics(p)
    <3>1. p \in Inside /\ Inside' = Inside \ {p} BY <2>1, <2>3 DEF Panics
    <3>2. QED BY <1>4, <2>1, <3>1
  <2>4. QED BY <2>1, <2>2, <2>3
<1>12. ASSUME NEW b \in Blocks, Recycle(b)
       PROVE  Inside' = Inside /\ outstanding' = outstanding
  BY <1>12 DEF Recycle
<1>13. CASE read_head
  <2>1. Inside' = Inside /\ outstanding' = outstanding BY <1>13, LogAssumption DEF read_head
  <2>2. QED BY <1>2, <2>1
<1>14. CASE recovered
  <2>1. Inside' = {} BY <1>14 DEF recovered
  <2>2. QED BY <1>5, <2>1
<1>15. CASE Crash
  <2>1. Inside' = {} BY <1>15 DEF Crash, Booting
  <2>2. QED BY <1>5, <2>1
<1>16. QED
  BY ONLY <1>2, <1>6, <1>7, <1>8, <1>9, <1>10, <1>11, <1>12, <1>13, <1>14, <1>15, BeginShape,
     Next DEF Next

(* Everything else that is said about calls, and the end of recovery.         *)
LEMMA CallsStep == ASSUME LogInv, Next PROVE CallsInv'
<1>0. TypeOK /\ CallsInv BY DEF LogInv
<1>1. (Cardinality(Inside) <= outstanding)' BY InsideStep
<1>2. TypeOK' BY TypeStep
<1> USE <1>0, <1>1, LogAssumption DEF CallsInv, TypeOK, Running, Committing, Goto
<1>3. ASSUME NEW p \in Procs, Start(p) PROVE CallsInv' BY <1>3 DEF Start
<1>4. ASSUME NEW p \in Procs, Begins(p) PROVE CallsInv' BY <1>4 DEF Begins
<1>5. ASSUME NEW p \in Procs, end_op(p) PROVE CallsInv'
  <2>1. /\ outstanding >= 1 /\ ~committing /\ outstanding' = outstanding - 1 /\ at[p] = "in"
        /\ lh' = lh /\ pin' = pin /\ Running
    BY <1>5, Where DEF end_op
  <2>2. CASE outstanding = 1
    <3>1. /\ committing' = TRUE
          /\ at' = [at EXCEPT ![p] = IF lh = << >> THEN "committed" ELSE "write_log"]
      BY <1>5, <2>1, <2>2 DEF end_op
    <3>2. \A q \in Procs : at'[q] \in Committing => q = p BY <2>1, <3>1
    <3>3. QED BY <2>1, <2>2, <3>1, <3>2
  <2>3. CASE outstanding # 1
    <3>1. committing' = FALSE /\ at' = [Woken EXCEPT ![p] = "user"]
      BY <1>5, <2>1, <2>3 DEF end_op
    <3>2. \A q \in Procs : at'[q] \notin Committing
                          /\ (at'[q] \in {"boot", "recover", "cleanup"} => at'[q] = at[q])
      BY <2>1, <3>1 DEF Woken
    <3>3. Running' BY <2>1, <3>1 DEF Woken
    <3>4. QED BY <2>1, <2>3, <3>1, <3>2, <3>3
  <2>4. QED BY <2>2, <2>3
<1>6. ASSUME NEW p \in Procs, write_log(p) PROVE CallsInv' BY <1>6 DEF write_log
<1>7. ASSUME NEW p \in Procs, write_head(p) PROVE CallsInv' BY <1>7 DEF write_head
<1>8. ASSUME NEW p \in Procs, install_trans(p) PROVE CallsInv' BY <1>8 DEF install_trans
<1>9. ASSUME NEW p \in Procs, clear(p) PROVE CallsInv' BY <1>9 DEF clear
<1>10. ASSUME NEW p \in Procs, committed(p) PROVE CallsInv'
  <2>1. /\ at[p] = "committed" /\ committing' = FALSE /\ at' = [Woken EXCEPT ![p] = "user"]
        /\ outstanding' = outstanding /\ lh' = lh /\ pin' = pin /\ lh = << >>
    BY <1>10 DEF committed, LogInv, StageInv, Stage
  <2>2. \A q \in Procs : at'[q] \notin Committing
                        /\ (at'[q] \in {"boot", "recover", "cleanup"} => at'[q] = at[q])
    BY <2>1 DEF Woken
  <2>3. Running /\ Running' BY <2>1 DEF Woken
  <2>4. QED BY <2>1, <2>2, <2>3
<1>11. ASSUME NEW p \in Procs, NEW b \in Blocks, Read(p, b) PROVE CallsInv'
  BY <1>11 DEF Read
<1>12. ASSUME NEW p \in Procs, NEW b \in Blocks, NEW d \in Data, log_write(p, b, d)
       PROVE  CallsInv'
  BY <1>12, WriteShape, Where DEF Writes, Panics
<1>13. ASSUME NEW b \in Blocks, Recycle(b) PROVE CallsInv' BY <1>13 DEF Recycle
<1>14. CASE read_head BY <1>14 DEF read_head
<1>15. CASE recovered BY <1>15 DEF recovered
<1>16. CASE Crash BY <1>16 DEF Crash, Booting, Unpinned
<1>17. QED
  BY ONLY <1>3, <1>4, <1>5, <1>6, <1>7, <1>8, <1>9, <1>10, <1>11, <1>12, <1>13, <1>14,
     <1>15, <1>16, BeginShape, Next DEF Next, Commit

-----------------------------------------------------------------------------
Idle == {"user", "begin", "asleep", "in", "panic", "unborn"}

(* A commit is the work of one process, and so is recovery.                   *)
LEMMA Alone ==
  ASSUME TypeOK, CallsInv, NEW p \in Procs, at[p] \notin Idle, NEW q \in Procs, q # p
  PROVE  at[q] \in Idle
BY DEF TypeOK, Places, CallsInv, Committing, Idle, Running

(* Steps outside commits and recovery leave a commit in progress alone.       *)
LEMMA StageFrame ==
  ASSUME LogInv, UNCHANGED <<home, logb, head, lh, tail>>,
         \A q \in Procs : at'[q] = at[q] \/ (at[q] \in Idle \ {"unborn"} /\ at'[q] \in Idle),
         \A b \in Blocks : cache'[b] = cache[b] \/ cache[b] = NotCached \/ pin[b] = 0
  PROVE  StageInv'
<1> USE LogAssumption DEF LogInv, TypeOK
<1>1. (Fits(lh) /\ Fits(head))' BY DEF StageInv, Fits
<1>2. (Running /\ (\A p \in Procs : at[p] \notin {"install", "clear"}) => head = << >>)'
  BY DEF StageInv, Running, Idle
<1>3. ASSUME NEW p \in Procs, at[p] \in {"write_log", "write_head", "install"},
             NEW i \in DOMAIN lh, at[p] = "install" => i > tail[p], cache[lh[i]] \in Data
      PROVE  cache'[lh[i]] = cache[lh[i]]
  <2>1. Running BY <1>3, Where
  <2>2. ~Installed(i)
    BY <1>3 DEF CallsInv, Installed, Committing
  <2>3. lh[i] \in Blocks /\ pin[lh[i]] = 1 BY <1>3, <2>1, <2>2 DEF BufferInv
  <2>4. QED BY <1>3, <2>3
<1>4. ASSUME NEW p \in Procs PROVE Stage(p)'
  <2>1. Stage(p) /\ lh \in Seq(Blocks) /\ Fits(lh) BY DEF StageInv
  <2>2. CASE at'[p] \in Idle BY <2>2 DEF Stage, Idle
  <2>3. CASE at'[p] = at[p]
    <3>1. ASSUME NEW i \in 1 .. tail[p], at[p] = "write_log"
          PROVE  logb[i] = cache'[lh[i]]
      <4>1. i \in DOMAIN lh /\ i \in LogData /\ logb[i] = cache[lh[i]]
        BY <2>1, <3>1 DEF Stage, Fits, LogData
      <4>2. QED BY <1>3, <3>1, <4>1
    <3>2. ASSUME NEW i \in DOMAIN lh, at[p] = "write_head"
          PROVE  logb[i] = cache'[lh[i]]
      <4>1. i \in LogData /\ logb[i] = cache[lh[i]]
        BY <2>1, <3>2 DEF Stage, Fits, LogData
      <4>2. QED BY <1>3, <3>2, <4>1
    <3>3. ASSUME NEW i \in tail[p] + 1 .. Len(lh), at[p] = "install"
          PROVE  cache'[lh[i]] = logb[i]
      <4>1. i \in DOMAIN lh /\ i \in LogData /\ logb[i] = cache[lh[i]] /\ i > tail[p]
        BY <2>1, <3>3 DEF Stage, Fits, LogData
      <4>2. QED BY <1>3, <3>3, <4>1
    <3>4. QED BY <2>1, <2>3, <3>1, <3>2, <3>3 DEF Stage
  <2>4. QED BY <2>2, <2>3
<1>5. QED BY <1>1, <1>2, <1>4 DEF StageInv

LEMMA StageStep == ASSUME LogInv, Next PROVE StageInv'
<1>0. TypeOK /\ CallsInv /\ StageInv /\ BufferInv BY DEF LogInv
<1>1. TypeOK' BY TypeStep
<1> USE <1>0, LogAssumption DEF TypeOK, Goto
<1>2. ASSUME NEW p \in Procs, Start(p) PROVE StageInv'
  BY <1>2, StageFrame DEF Start, diskVars, Idle
<1>3. ASSUME NEW p \in Procs, Begins(p) PROVE StageInv'
  BY <1>3, StageFrame DEF Begins, Idle
<1>4. ASSUME NEW p \in Procs, NEW b \in Blocks, Read(p, b) PROVE StageInv'
  BY <1>4, StageFrame DEF Read, diskVars, Contents
<1>5. ASSUME NEW b \in Blocks, Recycle(b) PROVE StageInv'
  BY <1>5, StageFrame DEF Recycle, diskVars
<1>6. ASSUME NEW p \in Procs, NEW b \in Blocks, NEW d \in Data, log_write(p, b, d)
      PROVE  StageInv'
  <2>1. /\ at[p] = "in" /\ (Writes(p, b, d) \/ Panics(p))
        /\ UNCHANGED <<home, logb, head, outstanding, committing, tail>>
    BY ONLY <1>6, WriteShape
  <2>2. CASE Panics(p) BY <2>1, <2>2, StageFrame DEF Panics, Idle
  <2>3. CASE Writes(p, b, d)
    <3>1. Running /\ ~committing BY <2>1, Where
    <3>2. \A q \in Procs : at[q] \in Idle
      BY <3>1 DEF CallsInv, Running, Committing, Idle, Places
    <3>3. head = << >> BY <3>1, <3>2 DEF StageInv, Idle
    <3>4. Fits(lh')
      <4>1. CASE b \in Logged(lh) BY <2>3, <4>1 DEF Writes, StageInv
      <4>2. CASE b \notin Logged(lh)
        <5>1. lh' = Append(lh, b) /\ Len(lh) + 1 < NLog BY <2>3, <4>2 DEF Writes
        <5>2. Fits(lh) /\ \A i \in DOMAIN lh : lh[i] # b BY <4>2 DEF StageInv, Logged
        <5>3. QED BY <5>1, <5>2 DEF Fits
      <4>3. QED BY <4>1, <4>2
    <3>5. \A q \in Procs : Stage(q)' BY <2>3, <3>2 DEF Writes, Stage, Idle
    <3>6. QED BY <2>1, <3>3, <3>4, <3>5 DEF StageInv
  <2>4. QED BY <2>1, <2>2, <2>3
<1>7. ASSUME NEW p \in Procs, end_op(p) PROVE StageInv'
  <2>1. /\ outstanding >= 1 /\ ~committing /\ Running /\ at[p] = "in"
        /\ UNCHANGED <<home, logb, head, cache, lh>> /\ tail' = [tail EXCEPT ![p] = 0]
    BY <1>7, Where DEF end_op, diskVars
  <2>2. \A q \in Procs : at[q] \in Idle
    BY <2>1 DEF CallsInv, Running, Committing, Idle, Places
  <2>3. head = << >> BY <2>1, <2>2 DEF StageInv, Idle
  <2>4. \A q \in Procs \ {p} : at'[q] \in Idle BY <1>7, <2>2 DEF end_op, Woken, Idle
  <2>5. at'[p] = "user" \/ (lh = << >> /\ at'[p] = "committed")
        \/ (lh # << >> /\ at'[p] = "write_log")
    BY <1>7, <2>1 DEF end_op, Woken
  <2>6. Stage(p)' BY <2>1, <2>5 DEF Stage
  <2>7. \A q \in Procs : Stage(q)' BY <2>4, <2>6 DEF Stage, Idle
  <2>8. QED BY <2>1, <2>3, <2>7 DEF StageInv, Fits
<1>8. ASSUME NEW p \in Procs, write_log(p) PROVE StageInv'
  <2> DEFINE i == tail[p] + 1
  <2>1. i \in DOMAIN lh /\ i \in LogData /\ lh[i] \in Blocks /\ Stage(p) /\ Fits(lh)
    BY <1>8, NextBlock DEF write_log, StageInv
  <2>2. /\ at[p] = "write_log" /\ logb' = [logb EXCEPT ![i] = Contents(lh[i])]
        /\ cache' = [cache EXCEPT ![lh[i]] = Contents(lh[i])]
        /\ tail' = [tail EXCEPT ![p] = i]
        /\ at' = [at EXCEPT ![p] = IF i < Len(lh) THEN "write_log" ELSE "write_head"]
        /\ UNCHANGED <<home, head, lh>>
    BY <1>8 DEF write_log
  <2>3. ASSUME NEW j \in 1 .. i PROVE logb'[j] = cache'[lh[j]]
    <3>1. j \in DOMAIN lh /\ j \in LogData /\ lh[j] \in Blocks BY <2>1 DEF LogData
    <3>2. CASE j = i BY <2>1, <2>2, <3>2
    <3>3. CASE j # i
      <4>1. j \in 1 .. tail[p] /\ lh[j] # lh[i] BY <2>1, <3>1, <3>3 DEF Fits
      <4>2. logb[j] = cache[lh[j]] BY <2>1, <2>2, <4>1 DEF Stage
      <4>3. QED BY <2>1, <2>2, <3>1, <3>3, <4>1, <4>2
    <3>4. QED BY <3>2, <3>3
  <2>4. Stage(p)'
    <3>1. CASE i < Len(lh) BY <2>1, <2>2, <2>3, <3>1 DEF Stage
    <3>2. CASE i = Len(lh) BY <2>1, <2>2, <2>3, <3>2 DEF Stage
    <3>3. QED BY <2>1, <3>1, <3>2
  <2>5. \A q \in Procs \ {p} : at'[q] \in Idle BY <2>2, Alone DEF Idle
  <2>6. \A q \in Procs : Stage(q)' BY <2>4, <2>5 DEF Stage, Idle
  <2>7. head = << >>
    <3>1. Running BY <2>2, Where
    <3>2. \A q \in Procs : at[q] \notin {"install", "clear"} BY <2>2, Alone DEF Idle
    <3>3. QED BY <3>1, <3>2 DEF StageInv
  <2>8. QED BY <2>2, <2>6, <2>7 DEF StageInv, Fits
<1>9. ASSUME NEW p \in Procs, write_head(p) PROVE StageInv'
  <2>1. /\ at[p] = "write_head" /\ head' = lh /\ tail' = [tail EXCEPT ![p] = 0]
        /\ at' = [at EXCEPT ![p] = "install"]
        /\ UNCHANGED <<home, logb, cache, lh>>
    BY <1>9 DEF write_head
  <2>2. /\ lh # << >> /\ (\A i \in DOMAIN lh : logb[i] = cache[lh[i]]) /\ Len(lh) \in Nat
    BY <2>1 DEF StageInv, Stage
  <2>3. Stage(p)' BY <2>1, <2>2 DEF Stage
  <2>4. \A q \in Procs \ {p} : at'[q] \in Idle BY <2>1, Alone DEF Idle
  <2>5. \A q \in Procs : Stage(q)' BY <2>3, <2>4 DEF Stage, Idle
  <2>6. QED BY <2>1, <2>5 DEF StageInv, Fits
<1>10. ASSUME NEW p \in Procs, install_trans(p) PROVE StageInv'
  <2> DEFINE i == tail[p] + 1
  <2>1. /\ i \in DOMAIN lh /\ i \in LogData /\ lh[i] \in Blocks /\ Stage(p) /\ Fits(lh)
        /\ at[p] \in {"install", "recover"}
    BY <1>10, NextBlock DEF install_trans, StageInv
  <2>2. /\ home' = [home EXCEPT ![lh[i]] = logb[i]]
        /\ cache' = [cache EXCEPT ![lh[i]] = logb[i]]
        /\ tail' = [tail EXCEPT ![p] = i]
        /\ at' = [at EXCEPT ![p] = IF i < Len(lh) THEN at[p]
                                  ELSE IF at[p] = "install" THEN "clear" ELSE "cleanup"]
        /\ UNCHANGED <<logb, head, lh>>
    BY <1>10 DEF install_trans
  <2>3. ASSUME NEW j \in 1 .. i PROVE home'[lh[j]] = logb[j]
    <3>1. j \in DOMAIN lh /\ lh[j] \in Blocks BY <2>1
    <3>2. CASE j = i BY <2>1, <2>2, <3>2
    <3>3. CASE j # i
      <4>1. j \in 1 .. tail[p] /\ lh[j] # lh[i] BY <2>1, <3>1, <3>3 DEF Fits
      <4>2. home[lh[j]] = logb[j] BY <2>1, <4>1 DEF Stage
      <4>3. QED BY <2>1, <2>2, <3>1, <4>1, <4>2
    <3>4. QED BY <3>2, <3>3
  <2>4. ASSUME at[p] = "install", NEW j \in i + 1 .. Len(lh) PROVE cache'[lh[j]] = logb[j]
    <3>1. j \in DOMAIN lh /\ lh[j] \in Blocks /\ j \in tail[p] + 1 .. Len(lh) BY <2>1
    <3>2. lh[j] # lh[i] /\ j # i BY <2>1, <3>1 DEF Fits
    <3>3. cache[lh[j]] = logb[j] BY <2>1, <2>4, <3>1 DEF Stage
    <3>4. QED BY <2>1, <2>2, <3>1, <3>2, <3>3
  <2>5. head = lh BY <2>1 DEF Stage
  <2>6. Stage(p)'
    <3>1. CASE i < Len(lh) /\ at[p] = "install"
      BY <2>1, <2>2, <2>3, <2>4, <2>5, <3>1 DEF Stage
    <3>2. CASE i < Len(lh) /\ at[p] = "recover"
      BY <2>1, <2>2, <2>3, <2>5, <3>2 DEF Stage
    <3>3. CASE i = Len(lh) BY <2>1, <2>2, <2>3, <2>5, <3>3 DEF Stage
    <3>4. QED BY <2>1, <3>1, <3>2, <3>3
  <2>7. \A q \in Procs \ {p} : at'[q] \in Idle BY <2>1, <2>2, Alone DEF Idle
  <2>8. \A q \in Procs : Stage(q)' BY <2>6, <2>7 DEF Stage, Idle
  <2>9. Running' => at[p] = "install"
    <3>1. at[p] = "recover" => p = First BY <2>1 DEF CallsInv
    <3>2. at[p] = "recover" => at'[p] \in {"recover", "cleanup"} BY <2>2
    <3>3. QED BY <2>1, <3>1, <3>2 DEF Running
  <2>10. at[p] = "install" => at'[p] \in {"install", "clear"} BY <2>2
  <2>11. QED BY <2>1, <2>2, <2>8, <2>9, <2>10 DEF StageInv, Fits
<1>11. ASSUME NEW p \in Procs, clear(p) PROVE StageInv'
  <2>1. /\ at[p] = "clear" /\ head' = << >> /\ lh' = << >>
        /\ at' = [at EXCEPT ![p] = "committed"]
    BY <1>11 DEF clear
  <2>2. \A q \in Procs \ {p} : at'[q] \in Idle BY <2>1, Alone DEF Idle
  <2>3. \A q \in Procs : Stage(q)' BY <2>1, <2>2 DEF Stage, Idle
  <2>4. QED BY <2>1, <2>3 DEF StageInv, Fits
<1>12. ASSUME NEW p \in Procs, committed(p) PROVE StageInv'
  <2>1. /\ at[p] = "committed" /\ UNCHANGED <<home, logb, head, cache, lh, tail>>
        /\ at' = [Woken EXCEPT ![p] = "user"]
    BY <1>12 DEF committed, diskVars
  <2>2. \A q \in Procs \ {p} : at[q] \in Idle BY <2>1, Alone DEF Idle
  <2>3. \A q \in Procs : at'[q] \in Idle BY <2>1, <2>2 DEF Woken, Idle
  <2>4. Running BY <2>1, Where
  <2>5. head = << >> BY <2>1, <2>2, <2>4 DEF StageInv, Idle
  <2>6. QED BY <2>1, <2>3, <2>5 DEF StageInv, Fits, Stage, Idle
<1>13. CASE read_head
  <2>1. /\ at[First] = "boot" /\ lh' = head /\ UNCHANGED <<home, logb, head, cache, tail>>
        /\ at' = [at EXCEPT ![First] = IF head = << >> THEN "cleanup" ELSE "recover"]
    BY <1>13 DEF read_head, diskVars
  <2>2. tail[First] = 0 /\ Fits(head) BY <2>1 DEF StageInv, Stage
  <2>3. Len(head) \in Nat /\ (head # << >> => 0 < Len(head)) OBVIOUS
  <2>4. Stage(First)' BY <2>1, <2>2, <2>3 DEF Stage
  <2>5. \A q \in Procs \ {First} : at'[q] \in Idle BY <2>1, Alone DEF Idle
  <2>6. \A q \in Procs : Stage(q)' BY <2>4, <2>5 DEF Stage, Idle
  <2>7. ~Running' BY <2>1 DEF Running
  <2>8. QED BY <2>1, <2>2, <2>6, <2>7 DEF StageInv, Fits
<1>14. CASE recovered
  <2>1. head' = << >> /\ lh' = << >> /\ at' = [p \in Procs |-> "user"]
    BY <1>14 DEF recovered
  <2>2. QED BY <2>1 DEF StageInv, Stage, Fits
<1>15. CASE Crash
  <2>1. /\ head' = head /\ lh' = << >> /\ at' = Booting /\ tail' = [p \in Procs |-> 0]
    BY <1>15 DEF Crash, diskVars
  <2>2. \A p \in Procs : Stage(p)' BY <2>1 DEF Stage, Booting
  <2>3. ~Running' BY <2>1 DEF Running, Booting
  <2>4. QED BY <2>1, <2>2, <2>3 DEF StageInv, Fits
<1>16. QED
  BY ONLY <1>2, <1>3, <1>4, <1>5, <1>6, <1>7, <1>8, <1>9, <1>10, <1>11, <1>12, <1>13,
     <1>14, <1>15, BeginShape, Next DEF Next, Commit

-----------------------------------------------------------------------------
(* The blocks waiting to be installed.                                        *)
Waiting == {b \in Blocks : \E i \in DOMAIN lh : lh[i] = b /\ ~Installed(i)}

(* Buffers do not change but for reading a block and recycling a buffer.      *)
SameBuffers ==
  \A b \in Blocks :
    \/ cache'[b] = cache[b]
    \/ cache'[b] = NotCached /\ pin[b] = 0
    \/ cache[b] = NotCached /\ cache'[b] = home[b]

LEMMA BufferFrame ==
  ASSUME LogInv, UNCHANGED <<home, pin, lh>>, SameBuffers, Running' => Running,
         Running => Waiting' = Waiting
  PROVE  BufferInv'
<1> USE DEF LogInv, TypeOK
<1>1. ASSUME NEW b \in Blocks
      PROVE  IF pin'[b] = 0 THEN cache'[b] \in {NotCached, home'[b]} ELSE cache'[b] # NotCached
  BY <1>1 DEF BufferInv, SameBuffers
<1>2. ASSUME Running', NEW b \in Blocks PROVE pin'[b] = 1 <=> b \in Waiting'
  BY <1>2 DEF BufferInv, Waiting
<1>3. QED BY <1>1, <1>2 DEF BufferInv, Waiting

LEMMA BufferStep == ASSUME LogInv, Next PROVE BufferInv'
<1>0. TypeOK /\ CallsInv /\ StageInv /\ BufferInv BY DEF LogInv
<1>1. TypeOK' BY TypeStep
<1> USE <1>0, LogAssumption DEF TypeOK, Goto
<1>2. ASSUME NEW p \in Procs, Start(p) PROVE BufferInv'
  <2>1. UNCHANGED <<home, pin, lh>> /\ SameBuffers
    BY <1>2 DEF Start, diskVars, SameBuffers
  <2>2. /\ Running' => Running
        /\ Waiting' = Waiting
    BY <1>2 DEF Start, diskVars, Running, Waiting, Installed
  <2>3. QED BY <2>1, <2>2, BufferFrame
<1>3. ASSUME NEW p \in Procs, Begins(p) PROVE BufferInv'
  <2>1. UNCHANGED <<home, pin, lh>> /\ SameBuffers BY <1>3 DEF Begins, SameBuffers
  <2>2. /\ Running' => Running
        /\ Waiting' = Waiting
    BY <1>3 DEF Begins, Running, Waiting, Installed
  <2>3. QED BY <2>1, <2>2, BufferFrame
<1>4. ASSUME NEW p \in Procs, NEW b \in Blocks, Read(p, b) PROVE BufferInv'
  <2>1. UNCHANGED <<home, pin, lh>> /\ SameBuffers
    BY <1>4 DEF Read, diskVars, Contents, SameBuffers
  <2>2. /\ Running' => Running
        /\ Waiting' = Waiting
    BY <1>4 DEF Read, diskVars, Running, Waiting, Installed
  <2>3. QED BY <2>1, <2>2, BufferFrame
<1>5. ASSUME NEW b \in Blocks, Recycle(b) PROVE BufferInv'
  <2>1. UNCHANGED <<home, pin, lh>> /\ SameBuffers
    BY <1>5 DEF Recycle, diskVars, SameBuffers
  <2>2. /\ Running' => Running
        /\ Waiting' = Waiting
    BY <1>5 DEF Recycle, diskVars, Running, Waiting, Installed
  <2>3. QED BY <2>1, <2>2, BufferFrame
<1>6. ASSUME NEW p \in Procs, NEW b \in Blocks, NEW d \in Data, log_write(p, b, d)
      PROVE  BufferInv'
  <2>1. /\ at[p] = "in" /\ (Writes(p, b, d) \/ Panics(p))
        /\ UNCHANGED <<home, logb, head, outstanding, committing, tail>>
    BY ONLY <1>6, WriteShape
  <2>2. CASE Panics(p)
    <3>1. UNCHANGED <<home, pin, lh>> /\ SameBuffers
      BY <2>1, <2>2 DEF Panics, SameBuffers
    <3>2. /\ Running' => Running
          /\ Waiting' = Waiting
      BY <2>1, <2>2 DEF Panics, Running, Waiting, Installed
    <3>3. QED BY <3>1, <3>2, BufferFrame
  <2>3. CASE Writes(p, b, d)
    <3>1. pin[b] = 1 <=> b \in Logged(lh) BY <2>1, Unlogged
    <3>2. Running /\ \A i : ~Installed(i)
      BY <2>1, Where DEF CallsInv, Committing, Installed
    <3>3. (\A i : ~Installed(i)') /\ cache' = [cache EXCEPT ![b] = d] /\ home' = home
      BY <2>1, <2>3, <3>2 DEF Writes, Installed
    <3>4. \A x \in Blocks : pin[x] = 1 <=> \E i \in DOMAIN lh : lh[i] = x
      BY <3>2 DEF BufferInv
    <3>5. CASE b \in Logged(lh)
      <4>1. pin' = pin /\ lh' = lh /\ pin[b] = 1 BY <2>3, <3>1, <3>5 DEF Writes
      <4>2. QED BY <3>3, <3>4, <4>1 DEF BufferInv
    <3>6. CASE b \notin Logged(lh)
      <4>1. lh' = Append(lh, b) /\ pin' = [pin EXCEPT ![b] = 1] /\ pin[b] = 0
        BY <2>3, <3>1, <3>6 DEF Writes
      <4>2. ASSUME NEW x \in Blocks PROVE pin'[x] = 1 <=> \E i \in DOMAIN lh' : lh'[i] = x
        <5>1. lh'[Len(lh) + 1] = b /\ DOMAIN lh' = 1 .. Len(lh) + 1
              /\ \A i \in DOMAIN lh : i \in DOMAIN lh' /\ lh'[i] = lh[i]
          BY <4>1
        <5>2. CASE x = b BY <4>1, <5>1, <5>2
        <5>3. CASE x # b BY <3>4, <4>1, <5>1, <5>3
        <5>4. QED BY <5>2, <5>3
      <4>3. \A x \in Blocks : IF pin'[x] = 0 THEN cache'[x] \in {NotCached, home'[x]}
                              ELSE cache'[x] # NotCached
        BY <3>3, <4>1 DEF BufferInv
      <4>4. QED BY <3>3, <4>2, <4>3 DEF BufferInv
    <3>7. QED BY <3>5, <3>6
  <2>4. QED BY <2>1, <2>2, <2>3
<1>7. ASSUME NEW p \in Procs, end_op(p) PROVE BufferInv'
  <2>1. /\ ~committing /\ Running /\ at[p] = "in"
        /\ UNCHANGED <<home, cache, pin, lh>> /\ tail' = [tail EXCEPT ![p] = 0]
    BY <1>7, Where DEF end_op, diskVars
  <2>2. \A i : ~Installed(i) BY <2>1 DEF CallsInv, Committing, Installed
  <2>3. \A q \in Procs : at'[q] \notin {"install", "clear"}
    BY <1>7, <2>1 DEF end_op, Woken, CallsInv, Committing
  <2>4. \A i : ~Installed(i)' BY <2>3 DEF Installed
  <2>5. Waiting' = Waiting BY <2>1, <2>2, <2>4 DEF Waiting
  <2>6. SameBuffers BY <2>1 DEF SameBuffers
  <2>7. QED BY <2>1, <2>5, <2>6, BufferFrame
<1>8. ASSUME NEW p \in Procs, write_log(p) PROVE BufferInv'
  <2> DEFINE b == lh[tail[p] + 1]
  <2>1. b \in Blocks BY <1>8, NextBlock DEF write_log
  <2>2. /\ at[p] = "write_log" /\ cache' = [cache EXCEPT ![b] = Contents(b)]
        /\ at'[p] \in {"write_log", "write_head"} /\ \A q \in Procs \ {p} : at'[q] = at[q]
        /\ UNCHANGED <<home, pin, lh>>
    BY <1>8 DEF write_log
  <2>3. \A q \in Procs : at[q] \notin {"install", "clear"} /\ at'[q] \notin {"install", "clear"}
    BY <2>2, Alone DEF Idle
  <2>4. \A i : ~Installed(i) /\ ~Installed(i)' BY <2>3 DEF Installed
  <2>5. Running BY <2>2, Where
  <2>6. cache'[b] = cache[b] \/ (cache[b] = NotCached /\ cache'[b] = home[b])
    BY <2>1, <2>2 DEF Contents
  <2>7. SameBuffers BY <2>1, <2>2, <2>6 DEF SameBuffers
  <2>8. Waiting' = Waiting BY <2>2, <2>4 DEF Waiting
  <2>9. QED BY <2>2, <2>5, <2>7, <2>8, BufferFrame
<1>9. ASSUME NEW p \in Procs, write_head(p) PROVE BufferInv'
  <2>1. /\ at[p] = "write_head" /\ tail' = [tail EXCEPT ![p] = 0]
        /\ at' = [at EXCEPT ![p] = "install"] /\ UNCHANGED <<home, cache, pin, lh>>
    BY <1>9 DEF write_head
  <2>2. \A q \in Procs \ {p} : at[q] \in Idle /\ at'[q] \in Idle BY <2>1, Alone DEF Idle
  <2>3. \A i \in DOMAIN lh : ~Installed(i) /\ ~Installed(i)'
    <3>1. \A i : ~Installed(i) BY <2>1, <2>2 DEF Installed, Idle
    <3>2. at'[p] = "install" /\ tail'[p] = 0 BY <2>1
    <3>3. ASSUME NEW i \in DOMAIN lh PROVE ~Installed(i)'
      <4>1. ~(i <= 0) OBVIOUS
      <4>2. QED BY <2>2, <3>2, <4>1 DEF Installed, Idle
    <3>4. QED BY <3>1, <3>3
  <2>4. Running BY <2>1, Where
  <2>5. Waiting' = Waiting /\ SameBuffers BY <2>1, <2>3 DEF Waiting, SameBuffers
  <2>6. QED BY <2>1, <2>4, <2>5, BufferFrame
<1>10. ASSUME NEW p \in Procs, install_trans(p) PROVE BufferInv'
  <2> DEFINE i == tail[p] + 1
             b == lh[i]
  <2>1. /\ i \in DOMAIN lh /\ i \in LogData /\ b \in Blocks /\ Fits(lh)
        /\ at[p] = "install" => pin[b] = 1
        /\ at[p] \in {"install", "recover"}
    BY <1>10, NextBlock DEF install_trans, StageInv
  <2>2. /\ home' = [home EXCEPT ![b] = logb[i]] /\ cache' = [cache EXCEPT ![b] = logb[i]]
        /\ tail' = [tail EXCEPT ![p] = i] /\ lh' = lh
        /\ at' = [at EXCEPT ![p] = IF i < Len(lh) THEN at[p]
                                  ELSE IF at[p] = "install" THEN "clear" ELSE "cleanup"]
        /\ pin' = IF at[p] = "install" THEN [pin EXCEPT ![b] = @ - 1] ELSE pin
    BY <1>10 DEF install_trans
  <2>3. CASE at[p] = "recover"
    <3>1. p = First /\ ~Running BY <2>3 DEF CallsInv, Running
    <3>2. ~Running' BY <2>2, <2>3, <3>1 DEF Running
    <3>3. pin' = pin /\ \A x \in Blocks : pin[x] = 0 BY <2>2, <2>3, <3>1 DEF CallsInv
    <3>4. \A x \in Blocks : cache'[x] \in {NotCached, home'[x]}
      BY <2>1, <2>2, <3>3 DEF BufferInv
    <3>5. QED BY <3>2, <3>3, <3>4 DEF BufferInv
  <2>4. CASE at[p] = "install"
    <3>1. pin' = [pin EXCEPT ![b] = 0] /\ Running
      <4>1. Running BY <2>4, Where
      <4>2. pin[b] = 1 /\ pin' = [pin EXCEPT ![b] = @ - 1] BY <2>1, <2>2, <2>4
      <4>3. QED BY <4>1, <4>2
    <3>2. \A q \in Procs \ {p} : at[q] \in Idle /\ at'[q] \in Idle BY <2>2, <2>4, Alone DEF Idle
    <3>3. ASSUME NEW j \in DOMAIN lh
          PROVE  /\ Installed(j) <=> j <= tail[p]
                 /\ Installed(j)' <=> j <= i
      <4>1. Installed(j) <=> j <= tail[p] BY <2>4, <3>2 DEF Installed, Idle
      <4>2. CASE i < Len(lh)
        <5>1. at'[p] = "install" /\ tail'[p] = i BY <2>2, <2>4, <4>2
        <5>2. QED BY <3>2, <4>1, <5>1 DEF Installed, Idle
      <4>3. CASE i = Len(lh)
        <5>1. at'[p] = "clear" BY <2>2, <2>4, <4>3
        <5>2. QED BY <4>1, <4>3, <5>1 DEF Installed
      <4>4. QED BY <2>1, <4>2, <4>3
    <3>4. ASSUME NEW x \in Blocks
          PROVE  pin'[x] = 1 <=> \E j \in DOMAIN lh' : lh'[j] = x /\ ~Installed(j)'
      <4>1. CASE x = b BY <2>1, <2>2, <3>1, <3>3, <4>1 DEF Fits
      <4>2. CASE x # b
        <5>1. pin[x] = 1 <=> \E j \in DOMAIN lh : lh[j] = x /\ ~(j <= tail[p])
          BY <3>1, <3>3 DEF BufferInv
        <5>2. \A j \in DOMAIN lh : lh[j] = x => (j <= tail[p] <=> j <= i) BY <2>1, <4>2
        <5>3. QED BY <2>2, <3>1, <3>3, <4>2, <5>1, <5>2
      <4>3. QED BY <4>1, <4>2
    <3>5. \A x \in Blocks : IF pin'[x] = 0 THEN cache'[x] \in {NotCached, home'[x]}
                            ELSE cache'[x] # NotCached
      BY <2>1, <2>2, <3>1 DEF BufferInv
    <3>6. QED BY <3>4, <3>5 DEF BufferInv
  <2>5. QED BY <2>1, <2>3, <2>4
<1>11. ASSUME NEW p \in Procs, clear(p) PROVE BufferInv'
  <2>1. /\ at[p] = "clear" /\ lh' = << >> /\ UNCHANGED <<home, cache, pin>>
    BY <1>11 DEF clear
  <2>2. Running /\ \A i : Installed(i) BY <2>1, Where DEF Installed
  <2>3. \A b \in Blocks : pin[b] = 0 BY <2>2 DEF BufferInv
  <2>4. QED BY <2>1, <2>3 DEF BufferInv
<1>12. ASSUME NEW p \in Procs, committed(p) PROVE BufferInv'
  <2>1. lh = << >> /\ UNCHANGED <<home, cache, pin, lh>> /\ Running
    BY <1>12, Where DEF committed, diskVars, StageInv, Stage
  <2>2. Waiting = {} /\ Waiting' = {} /\ SameBuffers BY <2>1 DEF Waiting, SameBuffers
  <2>3. QED BY <2>1, <2>2, BufferFrame
<1>13. CASE read_head
  <2>1. ~Running /\ ~Running' /\ UNCHANGED <<home, cache, pin>>
    BY <1>13 DEF read_head, diskVars, Running
  <2>2. QED BY <2>1 DEF BufferInv
<1>14. CASE recovered
  <2>1. ~Running /\ lh' = << >> /\ UNCHANGED <<home, cache, pin>>
    BY <1>14 DEF recovered, Running
  <2>2. QED BY <2>1 DEF BufferInv, CallsInv
<1>15. CASE Crash
  <2>1. ~Running' /\ cache' = NoBuffers /\ pin' = Unpinned
    BY <1>15 DEF Crash, Running, Booting
  <2>2. QED BY <2>1 DEF BufferInv, NoBuffers, Unpinned
<1>16. QED
  BY ONLY <1>2, <1>3, <1>4, <1>5, <1>6, <1>7, <1>8, <1>9, <1>10, <1>11, <1>12, <1>13,
     <1>14, <1>15, BeginShape, Next DEF Next, Commit

-----------------------------------------------------------------------------
LEMMA LogInvInit == Init => LogInv
<1> SUFFICES ASSUME Init PROVE LogInv OBVIOUS
<1> USE LogAssumption DEF Init, Booting
<1>1. TypeOK
  <2>1. /\ cache \in [Blocks -> Data \cup {NotCached}] /\ pin \in [Blocks -> {0, 1}]
        /\ at \in [Procs -> Places]
    BY DEF NoBuffers, Unpinned, Places
  <2>2. tail \in [Procs -> Nat] /\ written \in [Procs -> SUBSET Blocks] OBVIOUS
  <2>3. head \in Seq(Blocks) /\ lh \in Seq(Blocks) OBVIOUS
  <2>4. QED BY <2>1, <2>2, <2>3 DEF TypeOK
<1>2. Inside = {} /\ ~Running BY DEF Inside, Running
<1>3. CallsInv BY <1>2, FS_EmptySet DEF CallsInv, Committing, Unpinned
<1>4. StageInv BY <1>2 DEF StageInv, Stage, Fits
<1>5. BufferInv BY <1>2 DEF BufferInv, NoBuffers, Unpinned
<1>6. QED BY <1>1, <1>3, <1>4, <1>5 DEF LogInv

LEMMA LogInvInductive == LogInv /\ [Next]_vars => LogInv'
<1> SUFFICES ASSUME LogInv, [Next]_vars PROVE LogInv' OBVIOUS
<1>1. CASE Next BY <1>1, TypeStep, CallsStep, StageStep, BufferStep DEF LogInv
<1>2. CASE UNCHANGED vars
  BY <1>2 DEF vars, LogInv, TypeOK, CallsInv, Inside, Running, StageInv, Stage, Fits,
              BufferInv, Installed
<1>3. QED BY <1>1, <1>2

(* The stages of a commit and of recovery, the pins and the buffers fit       *)
(* together whatever the file system calls write and whenever the power       *)
(* fails.                                                                     *)
THEOREM LogInvAlways == Spec => []LogInv
BY LogInvInit, LogInvInductive, PTL DEF Spec

(* Every variable of log.c keeps its type; above all, a buffer is never       *)
(* pinned twice nor unpinned below zero.                                      *)
THEOREM LogTypeCorrect == Spec => []TypeOK
<1>1. LogInv => TypeOK BY DEF LogInv
<1>2. QED BY <1>1, LogInvAlways, PTL

(* With no call and no commit under way a crash would lose nothing: what the  *)
(* buffers hold is on the disk, at its home location, and the log is empty.   *)
THEOREM NothingToLoseAlways == Spec => []NothingToLose
<1>1. ASSUME LogInv, Running, outstanding = 0, ~committing
      PROVE  head = << >> /\ \A b \in Blocks : Contents(b) = home[b]
  <2>1. lh = << >> BY <1>1 DEF LogInv, TypeOK, CallsInv
  <2>2. head = << >> BY <1>1 DEF LogInv, CallsInv, StageInv, Committing
  <2>3. \A b \in Blocks : pin[b] = 0 BY <1>1, <2>1 DEF LogInv, TypeOK, BufferInv
  <2>4. \A b \in Blocks : Contents(b) = home[b] BY <1>1, <2>3 DEF LogInv, BufferInv, Contents
  <2>5. QED BY <2>2, <2>4
<1>2. LogInv => NothingToLose BY <1>1 DEF NothingToLose
<1>3. QED BY <1>2, LogInvAlways, PTL

-----------------------------------------------------------------------------
(* Log implements AtomicDisk.  What recovery makes of a disk:                 *)
LEMMA ReplayAt ==
  ASSUME NEW s \in Seq(Blocks), Fits(s), NEW l \in [LogData -> Data], NEW h \in [Blocks -> Data]
  PROVE  /\ Replay(s, l, h) \in [Blocks -> Data]
         /\ \A i \in DOMAIN s : Replay(s, l, h)[s[i]] = l[i]
         /\ \A b \in Blocks : b \notin Logged(s) => Replay(s, l, h)[b] = h[b]
<1> USE LogAssumption DEF Logged
<1>1. ASSUME NEW i \in DOMAIN s
      PROVE  /\ (CHOOSE j \in DOMAIN s : s[j] = s[i]) = i
             /\ i \in LogData /\ s[i] \in Blocks
  <2>1. i \in LogData /\ s[i] \in Blocks BY DEF Fits, LogData
  <2>2. \A j \in DOMAIN s : s[j] = s[i] => j = i BY DEF Fits
  <2>3. QED BY <2>1, <2>2
<1>2. ASSUME NEW i \in DOMAIN s PROVE Replay(s, l, h)[s[i]] = l[i]
  BY <1>1 DEF Replay
<1>3. \A b \in Blocks : b \notin Logged(s) => Replay(s, l, h)[b] = h[b] BY DEF Replay
<1>4. ASSUME NEW b \in Blocks PROVE Replay(s, l, h)[b] \in Data
  <2>1. CASE b \in Logged(s)
    <3>1. PICK i \in DOMAIN s : s[i] = b BY <2>1
    <3>2. QED BY <1>1, <1>2, <3>1
  <2>2. CASE b \notin Logged(s) BY <1>3, <2>2
  <2>3. QED BY <2>1, <2>2
<1>5. Replay(s, l, h) \in [Blocks -> Data] BY <1>4 DEF Replay
<1>6. QED BY <1>2, <1>3, <1>5

(* Two disks with the same header recover alike if the blocks that count      *)
(* agree.                                                                     *)
LEMMA ReplaySame ==
  ASSUME NEW s \in Seq(Blocks), Fits(s),
         NEW l \in [LogData -> Data], NEW h \in [Blocks -> Data],
         NEW m \in [LogData -> Data], NEW g \in [Blocks -> Data],
         \A i \in DOMAIN s : l[i] = m[i],
         \A b \in Blocks : b \notin Logged(s) => h[b] = g[b]
  PROVE  Replay(s, l, h) = Replay(s, m, g)
<1>1. ASSUME NEW b \in Blocks PROVE Replay(s, l, h)[b] = Replay(s, m, g)[b]
  <2>1. CASE b \in Logged(s)
    <3>1. PICK i \in DOMAIN s : s[i] = b BY <2>1 DEF Logged
    <3>2. QED BY <3>1, ReplayAt
  <2>2. CASE b \notin Logged(s) BY <2>2, ReplayAt
  <2>3. QED BY <2>1, <2>2
<1>2. QED BY <1>1, ReplayAt DEF Replay

(* An empty log changes nothing, and one that is installed may be replayed.   *)
LEMMA ReplayEmpty ==
  ASSUME NEW l, NEW h \in [Blocks -> Data] PROVE Replay(<< >>, l, h) = h
<1>1. Logged(<< >>) = {} BY DEF Logged
<1>2. Replay(<< >>, l, h) = [b \in Blocks |-> h[b]] BY <1>1 DEF Replay
<1>3. QED BY <1>2

LEMMA ReplayInstalled ==
  ASSUME NEW s \in Seq(Blocks), Fits(s), NEW l \in [LogData -> Data], NEW h \in [Blocks -> Data],
         \A i \in DOMAIN s : h[s[i]] = l[i]
  PROVE  Replay(s, l, h) = h
<1>1. ASSUME NEW b \in Blocks PROVE Replay(s, l, h)[b] = h[b]
  <2>1. CASE b \in Logged(s)
    <3>1. PICK i \in DOMAIN s : s[i] = b BY <2>1 DEF Logged
    <3>2. QED BY <3>1, ReplayAt
  <2>2. CASE b \notin Logged(s) BY <2>2, ReplayAt
  <2>3. QED BY <2>1, <2>2
<1>2. QED BY <1>1, ReplayAt

(* A step that moves nothing the file system can see.                         *)
LEMMA Stutter ==
  ASSUME UNCHANGED <<Recovered, Inside>>, Running' = Running,
         \A b \in Blocks : Contents(b)' = Contents(b)
  PROVE  [Disk!Next]_<<Recovered, Current, Inside>>
<1>1. [b \in Blocks |-> Contents(b)]' = [b \in Blocks |-> Contents(b)] OBVIOUS
<1>2. Current' = Current BY <1>1 DEF Current
<1>3. QED BY <1>2

LEMMA CallSimulation ==
  ASSUME LogInv, NEW p \in Procs,
         \/ Start(p) \/ Begins(p) \/ end_op(p)
         \/ \E b \in Blocks : Read(p, b) \/ \E d \in Data : log_write(p, b, d)
  PROVE  [Disk!Next]_<<Recovered, Current, Inside>>
<1>0. TypeOK /\ CallsInv BY DEF LogInv
<1>1. UNCHANGED <<home, logb, head>>
  BY WriteShape DEF Start, Begins, end_op, Read, diskVars
<1>2. Recovered' = Recovered BY <1>1 DEF Recovered
<1>3. Running /\ Running'
  BY WriteShape, LogAssumption
     DEF TypeOK, LogInv, CallsInv, Start, Begins, end_op, Read, Running, Goto, Woken, Panics, Writes
<1> USE <1>0, <1>1, <1>2, <1>3
<1>4. ASSUME cache' = cache
      PROVE  Current' = Current /\ \A b \in Blocks : Contents(b)' = Contents(b)
  BY <1>4 DEF Current, Contents
<1>5. CASE Start(p)
  <2>1. Inside' = Inside BY <1>5 DEF Start, Goto, Inside, TypeOK
  <2>2. QED BY <1>4, <1>5, <2>1, Stutter DEF Start
<1>6. CASE Begins(p)
  <2>1. CASE at' = [at EXCEPT ![p] = "asleep"]
    <3>1. Inside' = Inside BY <1>6, <2>1 DEF Begins, Inside, TypeOK
    <3>2. QED BY <1>4, <1>6, <3>1, Stutter DEF Begins
  <2>2. CASE at' = [at EXCEPT ![p] = "in"]
    <3>1. p \notin Inside /\ Inside' = Inside \cup {p}
      BY <1>6, <2>2 DEF Begins, Inside, TypeOK
    <3>2. Disk!Begin(p) BY <1>4, <1>6, <3>1 DEF Begins, Disk!Begin
    <3>3. QED BY <3>2 DEF Disk!Next
  <2>3. QED BY <1>6, <2>1, <2>2 DEF Begins
<1>7. CASE end_op(p)
  <2>1. p \in Inside /\ Inside' = Inside \ {p} /\ cache' = cache
    BY <1>7 DEF end_op, Inside, TypeOK, Goto, Woken
  <2>2. Disk!End(p) BY <1>4, <2>1 DEF Disk!End
  <2>3. QED BY <2>2 DEF Disk!Next
<1>8. ASSUME NEW b \in Blocks, Read(p, b) PROVE [Disk!Next]_<<Recovered, Current, Inside>>
  <2>1. Inside' = Inside BY <1>8 DEF Read, Inside
  <2>2. ASSUME NEW x \in Blocks PROVE Contents(x)' = Contents(x)
    BY <1>8 DEF Read, Contents, TypeOK
  <2>3. QED BY <2>1, <2>2, Stutter
<1>9. ASSUME NEW b \in Blocks, NEW d \in Data, log_write(p, b, d)
      PROVE  [Disk!Next]_<<Recovered, Current, Inside>>
  <2>1. at[p] = "in" /\ (Writes(p, b, d) \/ Panics(p)) BY ONLY <1>9, WriteShape
  <2>2. p \in Inside BY <2>1 DEF Inside
  <2>3. CASE Panics(p)
    <3>1. Inside' = Inside \ {p} BY <2>1, <2>3 DEF Panics, Inside, TypeOK
    <3>2. Disk!End(p) BY <1>4, <2>2, <2>3, <3>1 DEF Panics, Disk!End
    <3>3. QED BY <3>2 DEF Disk!Next
  <2>4. CASE Writes(p, b, d)
    <3>1. at' = at /\ cache' = [cache EXCEPT ![b] = d] BY <2>4 DEF Writes
    <3>2. Inside' = Inside BY <3>1 DEF Inside
    <3>3. \A x \in Blocks : Contents(x)' = IF x = b THEN d ELSE Contents(x)
      BY <3>1, LogAssumption DEF Contents, TypeOK
    <3>4. Current' = [Current EXCEPT ![b] = d] BY <3>3 DEF Current
    <3>5. Disk!Write(p, b, d) BY <2>2, <3>2, <3>4 DEF Disk!Write
    <3>6. QED BY <3>5 DEF Disk!Next
  <2>5. QED BY <2>1, <2>3, <2>4
<1>10. QED BY <1>5, <1>6, <1>7, <1>8, <1>9

LEMMA CommitSimulation ==
  ASSUME LogInv, TypeOK', NEW p \in Procs, Commit(p)
  PROVE  [Disk!Next]_<<Recovered, Current, Inside>>
<1>0. TypeOK /\ CallsInv /\ StageInv /\ BufferInv /\ Fits(head) BY DEF LogInv, StageInv
<1> USE <1>0, LogAssumption
<1>1. CASE write_log(p)
  <2> DEFINE b == lh[tail[p] + 1]
  <2>1. b \in Blocks /\ Running BY <1>1, NextBlock, Where DEF write_log
  <2>2. /\ at[p] = "write_log" /\ cache' = [cache EXCEPT ![b] = Contents(b)]
        /\ at' = [at EXCEPT ![p] = IF tail[p] + 1 < Len(lh) THEN "write_log" ELSE "write_head"]
        /\ home' = home /\ head' = head
    BY <1>1 DEF write_log, Goto
  <2>3. Inside' = Inside /\ Running' BY <2>1, <2>2 DEF Inside, Running, TypeOK
  <2>4. ASSUME NEW x \in Blocks PROVE Contents(x)' = Contents(x)
    BY <2>1, <2>2 DEF Contents, TypeOK
  <2>5. head = << >>
    <3>1. \A q \in Procs : at[q] \notin {"install", "clear"} BY <2>2, Alone DEF Idle
    <3>2. QED BY <2>1, <3>1 DEF StageInv
  <2>6. Recovered' = Recovered
    <3>1. home \in [Blocks -> Data] BY DEF TypeOK
    <3>2. Recovered = Replay(<< >>, logb, home) /\ Recovered' = Replay(<< >>, logb', home)
      BY <2>2, <2>5 DEF Recovered
    <3>3. QED BY <3>1, <3>2, ReplayEmpty
  <2>7. QED BY <2>1, <2>3, <2>4, <2>6, Stutter
<1>2. CASE write_head(p)
  <2>1. /\ at[p] = "write_head" /\ head' = lh /\ at' = [at EXCEPT ![p] = "install"]
        /\ UNCHANGED <<home, logb, cache>>
    BY <1>2 DEF write_head, Goto
  <2>2. Running /\ Running' BY <2>1, Where DEF Running, TypeOK
  <2>3. Inside = {} /\ Inside' = {}
    <3>1. committing BY <2>1 DEF CallsInv, Committing
    <3>2. Inside = {} BY <3>1, Where
    <3>3. QED BY <2>1, <3>2 DEF Inside, TypeOK
  <2>4. Current' = Current /\ Current = [b \in Blocks |-> Contents(b)]
    BY <2>1, <2>2 DEF Current, Contents
  <2>5. \A b \in Blocks : pin[b] = 1 <=> b \in Logged(lh)
    <3>1. \A q \in Procs : at[q] \notin {"install", "clear"} BY <2>1, Alone DEF Idle
    <3>2. \A i : ~Installed(i) BY <3>1 DEF Installed
    <3>3. QED BY <2>2, <3>2 DEF BufferInv, Logged
  <2>a. /\ lh \in Seq(Blocks) /\ Fits(lh)
        /\ logb \in [LogData -> Data] /\ home \in [Blocks -> Data]
    BY DEF StageInv, TypeOK
  <2>6. ASSUME NEW b \in Blocks PROVE Replay(lh, logb, home)[b] = Contents(b)
    <3>1. CASE b \in Logged(lh)
      <4>1. PICK i \in DOMAIN lh : lh[i] = b BY <3>1 DEF Logged
      <4>2. Replay(lh, logb, home)[b] = logb[i] BY <2>a, <4>1, ReplayAt
      <4>3. logb[i] = cache[b] BY <2>1, <4>1 DEF StageInv, Stage
      <4>4. cache[b] # NotCached BY <2>5, <3>1 DEF BufferInv
      <4>5. QED BY <4>2, <4>3, <4>4 DEF Contents
    <3>2. CASE b \notin Logged(lh)
      <4>1. Replay(lh, logb, home)[b] = home[b] BY <2>a, <3>2, ReplayAt
      <4>2. pin[b] = 0 BY <2>5, <3>2 DEF TypeOK
      <4>3. QED BY <4>1, <4>2 DEF BufferInv, Contents
    <3>3. QED BY <3>1, <3>2
  <2>7. Recovered' = Current
    <3>1. Recovered' = Replay(lh, logb, home) BY <2>1 DEF Recovered
    <3>2. QED BY <2>4, <2>6, <3>1 DEF Replay
  <2>8. Disk!Commit BY <2>3, <2>4, <2>7 DEF Disk!Commit
  <2>9. QED BY <2>8 DEF Disk!Next
<1>3. CASE install_trans(p)
  <2> DEFINE i == tail[p] + 1
             b == lh[i]
  <2>1. /\ i \in DOMAIN lh /\ b \in Blocks /\ at[p] \in {"install", "recover"}
        /\ head = lh /\ (at[p] = "install" => cache[b] = logb[i]) /\ i \in LogData
    <3>1. at[p] \in {"install", "recover"} BY <1>3 DEF install_trans
    <3>2. i \in DOMAIN lh /\ b \in Blocks /\ i \in LogData BY <3>1, NextBlock
    <3>3. Stage(p) BY DEF StageInv
    <3>4. i \in tail[p] + 1 .. Len(lh) BY <3>2 DEF TypeOK
    <3>5. QED BY <3>1, <3>2, <3>3, <3>4 DEF Stage
  <2>2. /\ home' = [home EXCEPT ![b] = logb[i]] /\ cache' = [cache EXCEPT ![b] = logb[i]]
        /\ at' = [at EXCEPT ![p] = IF i < Len(lh) THEN at[p]
                                  ELSE IF at[p] = "install" THEN "clear" ELSE "cleanup"]
        /\ UNCHANGED <<logb, head>>
    BY <1>3 DEF install_trans, Goto
  <2>3. Recovered' = Recovered
    <3>1. b \in Logged(head) BY <2>1 DEF Logged
    <3>2. \A x \in Blocks : x \notin Logged(head) => home'[x] = home[x]
      BY <2>1, <2>2, <3>1 DEF TypeOK
    <3>3. /\ head \in Seq(Blocks) /\ logb \in [LogData -> Data]
          /\ home \in [Blocks -> Data] /\ home' \in [Blocks -> Data]
      BY DEF TypeOK
    <3>4. Replay(head, logb, home) = Replay(head, logb, home') BY <3>2, <3>3, ReplaySame
    <3>5. QED BY <2>2, <3>4 DEF Recovered
  <2>4. Inside' = Inside BY <2>1, <2>2 DEF Inside, TypeOK
  <2>5. CASE at[p] = "install"
    <3>1. Running /\ Running' BY <2>2, <2>5, Where DEF Running, TypeOK
    <3>2. ASSUME NEW x \in Blocks PROVE Contents(x)' = Contents(x)
      <4>1. cache[b] = logb[i] /\ logb[i] \in Data BY <2>1, <2>5 DEF TypeOK
      <4>2. CASE x = b
        <5>1. cache'[x] = cache[x] /\ cache[x] # NotCached BY <2>2, <4>1, <4>2 DEF TypeOK
        <5>2. QED BY <5>1 DEF Contents
      <4>3. CASE x # b
        <5>1. cache'[x] = cache[x] /\ home'[x] = home[x] BY <2>2, <4>3 DEF TypeOK
        <5>2. QED BY <5>1 DEF Contents
      <4>4. QED BY <4>2, <4>3
    <3>3. QED BY <2>3, <2>4, <3>1, <3>2, Stutter
  <2>6. CASE at[p] = "recover"
    <3>1. ~Running /\ ~Running' BY <2>2, <2>6 DEF Running, TypeOK, CallsInv
    <3>2. Current' = Current BY <2>3, <3>1 DEF Current
    <3>3. QED BY <2>3, <2>4, <3>2
  <2>7. QED BY <2>1, <2>5, <2>6
<1>4. CASE clear(p)
  <2>1. /\ at[p] = "clear" /\ head' = << >> /\ at' = [at EXCEPT ![p] = "committed"]
        /\ UNCHANGED <<home, logb, cache>>
    BY <1>4 DEF clear, Goto
  <2>2. Running /\ Running' /\ Inside' = Inside BY <2>1, Where DEF Running, TypeOK, Inside
  <2>3. \A b \in Blocks : Contents(b)' = Contents(b) BY <2>1 DEF Contents
  <2>4. head = lh /\ \A i \in DOMAIN lh : home[lh[i]] = logb[i] BY <2>1 DEF StageInv, Stage
  <2>5. Recovered = home BY <2>4, ReplayInstalled DEF Recovered, TypeOK
  <2>6. Recovered' = home
    <3>1. Replay(<< >>, logb, home) = home BY ReplayEmpty DEF TypeOK
    <3>2. QED BY <2>1, <3>1 DEF Recovered
  <2>7. QED BY <2>2, <2>3, <2>5, <2>6, Stutter
<1>5. CASE committed(p)
  <2>1. /\ at[p] = "committed" /\ at' = [Woken EXCEPT ![p] = "user"]
        /\ UNCHANGED <<home, logb, head, cache>>
    BY <1>5 DEF committed, diskVars
  <2>2. Running /\ Running' /\ Inside' = Inside
    BY <2>1, Where DEF Running, TypeOK, Inside, Woken
  <2>3. Recovered' = Recovered /\ \A b \in Blocks : Contents(b)' = Contents(b)
    BY <2>1 DEF Contents, Recovered
  <2>4. QED BY <2>2, <2>3, Stutter
<1>6. QED BY <1>1, <1>2, <1>3, <1>4, <1>5 DEF Commit

LEMMA LogSimulation ==
  ASSUME LogInv, TypeOK', Next PROVE [Disk!Next]_<<Recovered, Current, Inside>>
<1>0. TypeOK /\ CallsInv /\ StageInv /\ BufferInv /\ Fits(head) BY DEF LogInv, StageInv
<1> USE LogAssumption
<1>1. ASSUME NEW p \in Procs,
             \/ Start(p) \/ begin_op(p) \/ end_op(p)
             \/ \E b \in Blocks : Read(p, b) \/ \E d \in Data : log_write(p, b, d)
      PROVE  [Disk!Next]_<<Recovered, Current, Inside>>
  BY ONLY <1>1, LogInv, BeginShape, CallSimulation
<1>2. ASSUME NEW p \in Procs, Commit(p) PROVE [Disk!Next]_<<Recovered, Current, Inside>>
  BY <1>2, CommitSimulation
<1>3. ASSUME NEW b \in Blocks, Recycle(b) PROVE [Disk!Next]_<<Recovered, Current, Inside>>
  <2>1. /\ pin[b] = 0 /\ cache' = [cache EXCEPT ![b] = NotCached]
        /\ UNCHANGED <<home, logb, head, at>>
    BY <1>3 DEF Recycle, diskVars
  <2>2. UNCHANGED <<Recovered, Inside>> /\ Running' = Running
    BY <2>1 DEF Recovered, Inside, Running
  <2>3. cache[b] \in {NotCached, home[b]} BY <1>0, <2>1 DEF BufferInv
  <2>4. ASSUME NEW x \in Blocks PROVE Contents(x)' = Contents(x)
    BY <1>0, <2>1, <2>3 DEF Contents, TypeOK
  <2>5. QED BY <2>2, <2>4, Stutter
<1>4. CASE read_head
  <2>1. /\ at[First] = "boot" /\ UNCHANGED <<home, logb, head>>
        /\ at' = [at EXCEPT ![First] = IF head = << >> THEN "cleanup" ELSE "recover"]
    BY <1>4 DEF read_head, diskVars, Goto
  <2>2. ~Running /\ ~Running' /\ Inside' = Inside
    BY <1>0, <2>1 DEF Running, Inside, TypeOK
  <2>3. Recovered' = Recovered BY <2>1 DEF Recovered
  <2>4. Current' = Current BY <2>2, <2>3 DEF Current
  <2>5. QED BY <2>2, <2>3, <2>4
<1>5. CASE recovered
  <2>1. /\ at[First] = "cleanup" /\ head' = << >> /\ at' = [p \in Procs |-> "user"]
        /\ UNCHANGED <<home, logb, cache>>
    BY <1>5 DEF recovered
  <2>2. ~Running /\ Running' BY <2>1 DEF Running
  <2>3. Inside = {} /\ Inside' = {} BY <1>0, <2>1, <2>2 DEF CallsInv, Inside
  <2>4. head = lh /\ \A i \in DOMAIN lh : home[lh[i]] = logb[i]
    BY <1>0, <2>1 DEF StageInv, Stage
  <2>5. Recovered = home BY <1>0, <2>4, ReplayInstalled DEF Recovered, TypeOK
  <2>6. Recovered' = home
    <3>1. Replay(<< >>, logb, home) = home BY <1>0, ReplayEmpty DEF TypeOK
    <3>2. QED BY <2>1, <3>1 DEF Recovered
  <2>7. \A b \in Blocks : Contents(b)' = home[b]
    BY <1>0, <2>1, <2>2 DEF CallsInv, BufferInv, Contents
  <2>8. Current = home BY <2>2, <2>5 DEF Current
  <2>9. Current' = home
    <3>1. Current' = [b \in Blocks |-> Contents(b)'] BY <2>2 DEF Current
    <3>2. QED BY <1>0, <2>7, <3>1 DEF TypeOK
  <2>10. QED BY <2>3, <2>5, <2>6, <2>8, <2>9
<1>6. CASE Crash
  <2>1. UNCHANGED <<home, logb, head>> /\ at' = Booting BY <1>6 DEF Crash, diskVars
  <2>2. ~Running' /\ Inside' = {} BY <2>1 DEF Running, Inside, Booting
  <2>3. Recovered' = Recovered BY <2>1 DEF Recovered
  <2>4. Current' = Recovered BY <2>2, <2>3 DEF Current
  <2>5. Disk!Crash BY <2>2, <2>3, <2>4 DEF Disk!Crash
  <2>6. QED BY <2>5 DEF Disk!Next
<1>7. QED BY ONLY <1>1, <1>2, <1>3, <1>4, <1>5, <1>6, Next DEF Next

(* File system calls are atomic with respect to crashes: log.c implements     *)
(* AtomicDisk.                                                                *)
THEOREM CrashAtomicAlways == Spec => CrashAtomic
<1>1. Init => Disk!Init
  <2> SUFFICES ASSUME Init PROVE Disk!Init OBVIOUS
  <2>1. TypeOK /\ head = << >> BY LogInvInit DEF LogInv, Init
  <2>2. home \in [Blocks -> Data] BY <2>1 DEF TypeOK
  <2>3. Recovered = home BY <2>1, <2>2, ReplayEmpty DEF Recovered
  <2>4. ~Running /\ Inside = {} BY LogAssumption DEF Init, Booting, Running, Inside
  <2>5. QED BY <2>1, <2>3, <2>4 DEF Disk!Init, Current, TypeOK
<1>2. LogInv /\ LogInv' /\ [Next]_vars => [Disk!Next]_(Disk!vars)
  <2> SUFFICES ASSUME LogInv, LogInv', [Next]_vars
               PROVE  [Disk!Next]_<<Recovered, Current, Inside>>
    BY DEF Disk!vars
  <2>1. CASE Next BY <2>1, LogSimulation DEF LogInv
  <2>2. CASE UNCHANGED vars
    BY <2>2 DEF vars, Recovered, Current, Contents, Running, Inside
  <2>3. QED BY <2>1, <2>2
<1>3. QED BY <1>1, <1>2, LogInvAlways, PTL DEF Spec, CrashAtomic, Disk!Spec

-----------------------------------------------------------------------------
(* The space of the log.  A call that writes at most MAXOPBLOCKS - 1 blocks   *)
(* never panics in a log of more than MAXOPBLOCKS blocks: what is in the log  *)
(* and what the calls in progress may still add is LOGSIZE - 2 blocks at most,*)
(* one less than log_write() asks for, and it asks also when it absorbs.      *)
RoomForCalls ==
  OpBlocks < MAXOPBLOCKS /\ MAXOPBLOCKS < LOGSIZE /\ LOGSIZE <= NLog

(* What the calls in progress have written, each on its own account.          *)
Wrote == {x \in Procs \X Blocks : x[2] \in written[x[1]]}

CallsCounted ==
  \A p \in Procs :
    /\ at[p] # "in" => written[p] = {}
    /\ written[p] \subseteq Logged(lh)
    /\ IsFiniteSet(written[p]) /\ Cardinality(written[p]) <= OpBlocks

RoomInv ==
  /\ NoPanic /\ CallsCounted
  /\ ~Running => outstanding = 0
  /\ outstanding > 0 =>
       Len(lh) + outstanding * OpBlocks - Cardinality(Wrote) <= LOGSIZE - 2

LEMMA TimesMonotone ==
  ASSUME NEW k \in Nat, NEW a \in Nat, NEW b \in Nat, a <= b PROVE k * a <= k * b
OBVIOUS

(* Every call adds at most OpBlocks blocks.                                   *)
LEMMA WroteBound ==
  ASSUME TypeOK, CallsInv, CallsCounted
  PROVE  /\ IsFiniteSet(Wrote) /\ Cardinality(Wrote) \in Nat
         /\ Cardinality(Wrote) <= outstanding * OpBlocks
<1>1. /\ IsFiniteSet(Inside) /\ Cardinality(Inside) \in Nat /\ outstanding \in Nat
      /\ Cardinality(Inside) <= outstanding /\ OpBlocks \in Nat
  <2>1. Inside \in SUBSET Procs BY DEF Inside
  <2>2. QED BY <2>1, FS_Subset, FS_CardinalityType, LogAssumption DEF CallsInv, TypeOK
<1> DEFINE Slots == 1 .. OpBlocks
<1>2. IsFiniteSet(Slots) /\ Cardinality(Slots) = OpBlocks
  <2>1. IsFiniteSet(Slots) /\ Cardinality(Slots) = IF 1 > OpBlocks THEN 0 ELSE OpBlocks - 1 + 1
    <3>1. 1 \in Int /\ OpBlocks \in Int BY <1>1
    <3>2. QED BY <3>1, FS_Interval, Zenon
  <2>2. QED BY <1>1, <2>1
<1>3. IsFiniteSet(Inside \X Slots) /\ Cardinality(Inside \X Slots) = Cardinality(Inside) * OpBlocks
  BY <1>1, <1>2, FS_Product
<1>4. ASSUME NEW p \in Procs PROVE \E f : f \in Injection(written[p], Slots)
  <2>1. IsFiniteSet(written[p]) /\ Cardinality(written[p]) <= OpBlocks BY DEF CallsCounted
  <2> DEFINE n == Cardinality(written[p])
  <2>2. n \in Nat BY <2>1, FS_CardinalityType
  <2>3. IsFiniteSet(1 .. n) /\ Cardinality(1 .. n) = n BY <2>2, FS_Interval
  <2>4. ExistsBijection(written[p], 1 .. n) BY <2>1, <2>3, FS_SameCardinalityBij
  <2>5. PICK f : f \in Bijection(written[p], 1 .. n) BY <2>4 DEF ExistsBijection
  <2>6. 1 .. n \subseteq Slots BY <1>1, <2>1, <2>2
  <2>7. f \in Injection(written[p], Slots)
    BY <2>5, <2>6 DEF Bijection, Injection, Surjection, IsInjective
  <2>8. QED BY <2>7
<1> DEFINE Pos(p) == CHOOSE f : f \in Injection(written[p], Slots)
           g == [x \in Wrote |-> <<x[1], Pos(x[1])[x[2]]>>]
<1>5. \A p \in Procs : Pos(p) \in Injection(written[p], Slots) BY <1>4
<1>6. ASSUME NEW x \in Wrote
      PROVE  /\ x[1] \in Procs /\ x[2] \in Blocks /\ x = <<x[1], x[2]>>
             /\ x[2] \in written[x[1]] /\ x[1] \in Inside
  BY DEF Wrote, CallsCounted, Inside
<1> HIDE DEF Pos, Slots
<1>7. ASSUME NEW x \in Wrote PROVE g[x] \in Inside \X Slots
  BY <1>5, <1>6 DEF Injection, IsInjective
<1>8. ASSUME NEW x \in Wrote, NEW y \in Wrote, g[x] = g[y] PROVE x = y
  <2>1. x[1] = y[1] /\ Pos(x[1])[x[2]] = Pos(y[1])[y[2]] BY <1>8
  <2>2. x[2] \in written[x[1]] /\ y[2] \in written[x[1]] /\ x[1] \in Procs BY <1>6, <2>1
  <2>3. x[2] = y[2] BY <1>5, <2>1, <2>2 DEF Injection, IsInjective
  <2>4. x = <<x[1], x[2]>> /\ y = <<y[1], y[2]>> BY <1>6
  <2>5. QED BY <2>1, <2>3, <2>4
<1>9. g \in Injection(Wrote, Inside \X Slots) BY <1>7, <1>8 DEF Injection, IsInjective
<1> HIDE DEF g
<1>10. IsFiniteSet(Wrote) /\ Cardinality(Wrote) <= Cardinality(Inside) * OpBlocks
  BY <1>3, <1>9, FS_Injection
<1>11. Cardinality(Wrote) \in Nat BY <1>10, FS_CardinalityType
<1>12. Cardinality(Inside) * OpBlocks <= outstanding * OpBlocks
  <2>1. OpBlocks * Cardinality(Inside) <= OpBlocks * outstanding BY <1>1, TimesMonotone
  <2>2. QED BY <1>1, <2>1
<1>13. Cardinality(Inside) * OpBlocks \in Nat /\ outstanding * OpBlocks \in Nat BY <1>1
<1> HIDE DEF Slots
<1>14. QED BY <1>10, <1>11, <1>12, <1>13

(* Steps that neither begin, extend nor end a call.                           *)
LEMMA RoomFrame ==
  ASSUME LogInv, RoomInv, outstanding' = outstanding, written' = written,
         lh' = lh \/ outstanding = 0,
         \A q \in Procs : at'[q] # "panic" /\ (at'[q] = "in" <=> at[q] = "in"),
         ~Running' => ~Running \/ outstanding = 0
  PROVE  RoomInv'
<1> USE DEF RoomInv, LogInv
<1>1. NoPanic' BY DEF NoPanic
<1>2. CallsCounted'
  <2>1. ASSUME NEW p \in Procs
        PROVE  /\ at'[p] # "in" => written'[p] = {}
               /\ written'[p] \subseteq Logged(lh)'
               /\ IsFiniteSet(written'[p]) /\ Cardinality(written'[p]) <= OpBlocks
    <3>1. outstanding = 0 => at[p] # "in" BY Where
    <3>2. lh' = lh => Logged(lh)' = Logged(lh) BY DEF Logged
    <3>3. QED BY <3>1, <3>2 DEF CallsCounted
  <2>2. QED BY <2>1 DEF CallsCounted
<1>3. Wrote' = Wrote BY DEF Wrote
<1>4. outstanding \in Nat BY DEF TypeOK
<1>5. (outstanding > 0)' => lh' = lh BY <1>4
<1>6. (outstanding > 0 =>
         Len(lh) + outstanding * OpBlocks - Cardinality(Wrote) <= LOGSIZE - 2)'
  BY <1>3, <1>5
<1>7. (~Running => outstanding = 0)' OBVIOUS
<1>8. QED BY <1>1, <1>2, <1>6, <1>7

(* begin_op() admits a call that the log has room for.                        *)
LEMMA RoomBegin ==
  ASSUME LogInv, RoomInv, RoomForCalls, NEW p \in Procs, begin_op(p) PROVE RoomInv'
<1> USE DEF RoomInv, LogInv
<1>1. /\ at[p] = "begin" /\ UNCHANGED <<lh, written>> /\ Begins(p)
  BY BeginShape DEF begin_op
<1>2. Running BY <1>1, Where
<1>3. at \in [Procs -> Places] BY DEF TypeOK
<1>4. CASE at' = [at EXCEPT ![p] = "asleep"] /\ outstanding' = outstanding
  <2>1. \A q \in Procs : at'[q] # "panic" /\ (at'[q] = "in" <=> at[q] = "in")
    BY <1>1, <1>3, <1>4 DEF NoPanic
  <2>2. Running' BY <1>2, <1>3, <1>4 DEF Running
  <2>3. QED BY ONLY LogInv, RoomInv, <1>1, <1>4, <2>1, <2>2, RoomFrame
<1>5. CASE at' = [at EXCEPT ![p] = "in"] /\ outstanding' = outstanding + 1
  <2>1. ~committing /\ Len(lh) + (outstanding + 1) * MAXOPBLOCKS <= LOGSIZE
    <3>1. at'[p] = "in" BY <1>3, <1>5
    <3>2. ~(committing \/ Len(lh) + (outstanding + 1) * MAXOPBLOCKS > LOGSIZE)
      <4>1. SUFFICES ASSUME committing \/ Len(lh) + (outstanding + 1) * MAXOPBLOCKS > LOGSIZE
                     PROVE  FALSE
        OBVIOUS
      <4>2. at' = [at EXCEPT ![p] = "asleep"] BY <4>1, Zenon DEF begin_op, Goto
      <4>3. QED BY <1>3, <3>1, <4>2
    <3>3. /\ Len(lh) \in Nat /\ (outstanding + 1) * MAXOPBLOCKS \in Nat /\ LOGSIZE \in Nat
      <4>1. outstanding \in Nat /\ MAXOPBLOCKS \in Nat /\ LOGSIZE \in Nat
        BY LogAssumption DEF TypeOK
      <4>2. QED BY <4>1 DEF TypeOK
    <3>4. QED BY <3>2, <3>3
  <2>2. NoPanic' BY <1>3, <1>5 DEF NoPanic
  <2>3. CallsCounted' BY <1>1, <1>3, <1>5 DEF CallsCounted, Logged
  <2>4. Running' BY <1>2, <1>3, <1>5 DEF Running
  <2>5. Wrote' = Wrote BY <1>1 DEF Wrote
  <2>6. /\ Cardinality(Wrote) \in Nat /\ Len(lh) \in Nat /\ outstanding \in Nat
        /\ OpBlocks \in Nat /\ MAXOPBLOCKS \in Nat /\ LOGSIZE \in Nat
        /\ OpBlocks + 1 <= MAXOPBLOCKS /\ MAXOPBLOCKS + 1 <= LOGSIZE
    BY WroteBound, LogAssumption DEF TypeOK, RoomForCalls
  <2>7. Len(lh) + (outstanding + 1) * OpBlocks - Cardinality(Wrote) <= LOGSIZE - 2
    <3>1. CASE outstanding = 0
      <4>1. lh = << >> BY <1>2, <2>1, <3>1 DEF CallsInv
      <4>2. Len(lh) = 0 BY <4>1
      <4>3. (outstanding + 1) * OpBlocks = OpBlocks BY <2>6, <3>1
      <4>4. QED BY <2>6, <4>2, <4>3
    <3>2. CASE outstanding # 0
      <4>1. (outstanding + 1) * (OpBlocks + 1) <= (outstanding + 1) * MAXOPBLOCKS
        BY <2>6, TimesMonotone
      <4>2. (outstanding + 1) * (OpBlocks + 1) = (outstanding + 1) * OpBlocks + outstanding + 1
        BY <2>6
      <4>3. outstanding >= 1 BY <2>6, <3>2
      <4>4. (outstanding + 1) * OpBlocks \in Nat /\ (outstanding + 1) * MAXOPBLOCKS \in Nat
        BY <2>6
      <4>5. QED BY <2>1, <2>6, <4>1, <4>2, <4>3, <4>4
    <3>3. QED BY <3>1, <3>2
  <2>8. QED BY <1>1, <1>5, <2>2, <2>3, <2>4, <2>5, <2>7
<1>6. QED BY <1>1, <1>4, <1>5 DEF Begins

(* log_write() finds room, and takes it from the share of its call.           *)
LEMMA RoomWrite ==
  ASSUME LogInv, RoomInv, RoomForCalls, NEW p \in Procs, NEW b \in Blocks, NEW d \in Data,
         log_write(p, b, d)
  PROVE  RoomInv'
<1> USE DEF RoomInv, LogInv
<1>1. /\ at[p] = "in" /\ UNCHANGED outstanding /\ (Writes(p, b, d) \/ Panics(p))
      /\ Cardinality(written[p] \cup {b}) <= OpBlocks
  BY WriteShape DEF log_write
<1>2. /\ Cardinality(Wrote) \in Nat /\ Len(lh) \in Nat /\ outstanding \in Nat
      /\ OpBlocks \in Nat /\ MAXOPBLOCKS \in Nat /\ LOGSIZE \in Nat /\ NLog \in Nat
      /\ OpBlocks + 1 <= MAXOPBLOCKS /\ MAXOPBLOCKS + 1 <= LOGSIZE /\ LOGSIZE <= NLog
      /\ IsFiniteSet(Wrote) /\ Cardinality(Wrote) <= outstanding * OpBlocks
      /\ outstanding * OpBlocks \in Nat
  BY WroteBound, LogAssumption DEF TypeOK, RoomForCalls
<1>3. outstanding >= 1 BY <1>1, Where
<1>4. Len(lh) <= LOGSIZE - 2 BY <1>2, <1>3
<1>5. Writes(p, b, d)
  <2>1. ~(Len(lh) >= LOGSIZE \/ Len(lh) >= NLog - 1 \/ outstanding < 1) BY <1>2, <1>3, <1>4
  <2>2. at' = at BY <2>1, Zenon DEF log_write
  <2>3. ~Panics(p) BY <1>1, <2>2 DEF Panics, TypeOK
  <2>4. QED BY <1>1, <2>3
<1>6. /\ at' = at /\ written' = [written EXCEPT ![p] = @ \cup {b}] BY <1>5 DEF Writes
<1>7. NoPanic' /\ (~Running => outstanding = 0)' BY <1>1, <1>6 DEF NoPanic, Running
<1>8. written \in [Procs -> SUBSET Blocks] /\ lh \in Seq(Blocks) BY DEF TypeOK
<1>9. CallsCounted'
  <2>1. IsFiniteSet(written[p] \cup {b}) BY FS_AddElement DEF CallsCounted
  <2>2. Logged(lh) \cup {b} = Logged(lh')
    <3>1. CASE b \in Logged(lh) BY <1>5, <3>1 DEF Writes
    <3>2. CASE b \notin Logged(lh)
      <4>1. lh' = Append(lh, b) BY <1>5, <3>2 DEF Writes
      <4>2. /\ DOMAIN lh' = DOMAIN lh \cup {Len(lh) + 1} /\ lh'[Len(lh) + 1] = b
            /\ \A i \in DOMAIN lh : lh'[i] = lh[i]
        BY <1>8, <4>1
      <4>3. QED BY <4>2 DEF Logged
    <3>3. QED BY <3>1, <3>2
  <2>3. ASSUME NEW q \in Procs
        PROVE  /\ at'[q] # "in" => written'[q] = {}
               /\ written'[q] \subseteq Logged(lh')
               /\ IsFiniteSet(written'[q]) /\ Cardinality(written'[q]) <= OpBlocks
    <3>1. CASE q = p
      <4>1. written'[q] = written[p] \cup {b} BY <1>6, <1>8, <3>1
      <4>2. written[p] \subseteq Logged(lh) BY DEF CallsCounted
      <4>3. QED BY <1>1, <1>6, <2>1, <2>2, <3>1, <4>1, <4>2
    <3>2. CASE q # p
      <4>1. written'[q] = written[q] /\ at'[q] = at[q] BY <1>6, <1>8, <3>2
      <4>2. QED BY <2>2, <4>1 DEF CallsCounted
    <3>3. QED BY <3>1, <3>2
  <2>4. QED BY <2>3 DEF CallsCounted, Logged
<1>10. Wrote' = Wrote \cup {<<p, b>>}
  <2>1. \A q \in Procs : written'[q] = IF q = p THEN written[q] \cup {b} ELSE written[q]
    BY <1>6, <1>8
  <2>2. ASSUME NEW x \in Procs \X Blocks
        PROVE  x[2] \in written'[x[1]] <=> x[2] \in written[x[1]] \/ x = <<p, b>>
    <3>1. x[1] \in Procs /\ (x = <<p, b>> <=> x[1] = p /\ x[2] = b) OBVIOUS
    <3>2. QED BY <2>1, <3>1
  <2>3. <<p, b>> \in Procs \X Blocks OBVIOUS
  <2>4. QED BY <2>2, <2>3 DEF Wrote
<1>11. /\ IsFiniteSet(Wrote')
       /\ <<p, b>> \in Wrote => Cardinality(Wrote') = Cardinality(Wrote)
       /\ <<p, b>> \notin Wrote => Cardinality(Wrote') = Cardinality(Wrote) + 1
  BY <1>2, <1>10, FS_AddElement
<1>12. Len(lh') - Cardinality(Wrote') <= Len(lh) - Cardinality(Wrote)
  <2>1. CASE b \in Logged(lh)
    <3>1. lh' = lh BY <1>5, <2>1 DEF Writes
    <3>2. QED BY <1>2, <1>11, <3>1
  <2>2. CASE b \notin Logged(lh)
    <3>1. lh' = Append(lh, b) BY <1>5, <2>2 DEF Writes
    <3>2. Len(lh') = Len(lh) + 1 BY <1>8, <3>1
    <3>3. <<p, b>> \notin Wrote BY <2>2 DEF Wrote, CallsCounted
    <3>4. QED BY <1>2, <1>11, <3>2, <3>3
  <2>3. QED BY <2>1, <2>2
<1>13. Len(lh') \in Nat /\ Cardinality(Wrote') \in Nat
  <2>1. Next BY DEF Next
  <2>2. lh' \in Seq(Blocks) BY <2>1, TypeStep DEF TypeOK
  <2>3. QED BY <1>11, <2>2, FS_CardinalityType
<1>14. Len(lh') + outstanding' * OpBlocks - Cardinality(Wrote') <= LOGSIZE - 2
  BY <1>1, <1>2, <1>3, <1>12, <1>13
<1>15. QED BY <1>7, <1>9, <1>14

(* end_op() gives up the space its call did not use, and never finds a commit *)
(* in progress.                                                               *)
LEMMA RoomEnd ==
  ASSUME LogInv, RoomInv, RoomForCalls, NEW p \in Procs, end_op(p) PROVE RoomInv'
<1> USE DEF RoomInv, LogInv
<1>1. /\ at[p] = "in" /\ outstanding >= 1 /\ ~committing /\ Running
      /\ outstanding' = outstanding - 1 /\ lh' = lh
      /\ written' = [written EXCEPT ![p] = {}]
  BY Where DEF end_op
<1>2. at \in [Procs -> Places] /\ written \in [Procs -> SUBSET Blocks] BY DEF TypeOK
<1>3. ASSUME NEW q \in Procs
      PROVE  /\ q # p => at'[q] = at[q] \/ (at[q] = "asleep" /\ at'[q] = "begin")
             /\ at'[p] \in {"committed", "write_log", "user"}
  BY <1>1, <1>2 DEF end_op, Goto, Woken
<1>4. NoPanic' BY <1>2, <1>3 DEF NoPanic
<1>5. Running' BY <1>1, <1>3, LogAssumption DEF Running
<1>6. CallsCounted'
  <2>1. ASSUME NEW q \in Procs
        PROVE  /\ at'[q] # "in" => written'[q] = {}
               /\ written'[q] \subseteq Logged(lh)'
               /\ IsFiniteSet(written'[q]) /\ Cardinality(written'[q]) <= OpBlocks
    <3>1. Logged(lh)' = Logged(lh) BY <1>1 DEF Logged
    <3>2. CASE q = p
      <4>1. written'[q] = {} BY <1>1, <1>2, <3>2
      <4>2. IsFiniteSet({}) /\ Cardinality({}) = 0 BY FS_EmptySet
      <4>3. OpBlocks \in Nat BY LogAssumption
      <4>4. QED BY <4>1, <4>2, <4>3
    <3>3. CASE q # p
      <4>1. written'[q] = written[q] BY <1>1, <1>2, <3>3
      <4>2. at'[q] # "in" => at[q] # "in" BY <1>3, <3>3
      <4>3. QED BY <3>1, <4>1, <4>2 DEF CallsCounted
    <3>4. QED BY <3>2, <3>3
  <2>2. QED BY <2>1 DEF CallsCounted
<1> DEFINE Own == {p} \X written[p]
<1>7. /\ IsFiniteSet(Wrote) /\ Cardinality(Wrote) \in Nat /\ Len(lh) \in Nat
      /\ outstanding \in Nat /\ OpBlocks \in Nat /\ LOGSIZE \in Nat
  BY WroteBound, LogAssumption DEF TypeOK
<1>8. /\ IsFiniteSet(written[p]) /\ Cardinality(written[p]) <= OpBlocks
      /\ Cardinality(written[p]) \in Nat
  BY FS_CardinalityType DEF CallsCounted
<1>9. Cardinality(Own) = Cardinality(written[p])
  <2>1. IsFiniteSet({p}) /\ Cardinality({p}) = 1 BY FS_Singleton
  <2>2. Cardinality(Own) = 1 * Cardinality(written[p]) BY <1>8, <2>1, FS_Product
  <2>3. QED BY <1>8, <2>2
<1>10. Own \subseteq Wrote BY <1>2 DEF Wrote
<1>11. Wrote' = Wrote \ Own
  <2>1. \A q \in Procs : written'[q] = IF q = p THEN {} ELSE written[q] BY <1>1, <1>2
  <2>2. ASSUME NEW x \in Procs \X Blocks
        PROVE  x[2] \in written'[x[1]] <=> x[2] \in written[x[1]] /\ x \notin Own
    <3>1. x[1] \in Procs /\ x = <<x[1], x[2]>> OBVIOUS
    <3>2. x \in Own <=> x[1] = p /\ x[2] \in written[p] BY <3>1
    <3>3. QED BY <2>1, <3>1, <3>2
  <2>3. QED BY <2>2 DEF Wrote
<1>12. Cardinality(Wrote') = Cardinality(Wrote) - Cardinality(written[p])
  <2>1. Wrote \cap Own = Own BY <1>10
  <2>2. Cardinality(Wrote \ Own) = Cardinality(Wrote) - Cardinality(Wrote \cap Own)
    BY <1>7, FS_Difference
  <2>3. QED BY <1>9, <1>11, <2>1, <2>2
<1>13. outstanding * OpBlocks - OpBlocks = (outstanding - 1) * OpBlocks
       /\ outstanding * OpBlocks \in Nat
  BY <1>7
<1>14. Len(lh) + (outstanding - 1) * OpBlocks - Cardinality(Wrote') <= LOGSIZE - 2
  BY <1>1, <1>7, <1>8, <1>12, <1>13
<1>15. QED BY <1>1, <1>4, <1>5, <1>6, <1>14

LEMMA RoomStep == ASSUME LogInv, RoomInv, RoomForCalls, Next PROVE RoomInv'
<1>1. TypeOK /\ CallsInv /\ StageInv /\ NoPanic /\ (~Running => outstanding = 0)
      /\ at \in [Procs -> Places]
  BY DEF LogInv, RoomInv, TypeOK
<1> DEFINE Others == \A q \in Procs : at'[q] # "panic" /\ (at'[q] = "in" <=> at[q] = "in")
<1>2. ASSUME NEW p \in Procs, Start(p) PROVE RoomInv'
  <2>1. /\ at[p] = "user" /\ at' = [at EXCEPT ![p] = "begin"]
        /\ UNCHANGED <<lh, outstanding, written>>
    BY <1>2 DEF Start, Goto
  <2>2. Others BY <1>1, <2>1 DEF NoPanic
  <2>3. Running' = Running BY <1>1, <2>1 DEF Running
  <2>4. QED BY ONLY LogInv, RoomInv, <2>1, <2>2, <2>3, RoomFrame
<1>3. ASSUME NEW p \in Procs, Commit(p) PROVE RoomInv'
  <2>1. /\ UNCHANGED <<outstanding, written>>
        /\ lh' = lh \/ at[p] = "clear"
        /\ at[p] \in {"write_log", "write_head", "install", "recover", "clear", "committed"}
    BY <1>3 DEF Commit, write_log, write_head, install_trans, clear, committed
  <2>2. Others
    <3>1. CASE committed(p) BY <1>1, <3>1 DEF committed, Woken, NoPanic
    <3>2. CASE write_log(p) BY <1>1, <3>2 DEF write_log, Goto, NoPanic
    <3>3. CASE write_head(p) BY <1>1, <3>3 DEF write_head, Goto, NoPanic
    <3>4. CASE install_trans(p) BY <1>1, <3>4 DEF install_trans, Goto, NoPanic
    <3>5. CASE clear(p) BY <1>1, <3>5 DEF clear, Goto, NoPanic
    <3>6. QED BY <1>3, <3>1, <3>2, <3>3, <3>4, <3>5 DEF Commit
  <2>3. outstanding = 0
    <3>1. CASE at[p] = "recover"
      <4>1. ~Running BY <1>1, <3>1 DEF CallsInv, Running
      <4>2. QED BY <1>1, <4>1
    <3>2. CASE at[p] # "recover"
      <4>1. committing BY <1>1, <2>1, <3>2 DEF CallsInv, Committing
      <4>2. QED BY <1>1, <4>1 DEF CallsInv
    <3>3. QED BY <3>1, <3>2
  <2>4. QED BY ONLY LogInv, RoomInv, <2>1, <2>2, <2>3, RoomFrame
<1>4. ASSUME NEW p \in Procs, NEW b \in Blocks, Read(p, b) PROVE RoomInv'
  <2>1. UNCHANGED <<at, lh, outstanding, written>> BY <1>4 DEF Read
  <2>2. Others /\ Running' = Running BY <1>1, <2>1 DEF NoPanic, Running
  <2>3. QED BY ONLY LogInv, RoomInv, <2>1, <2>2, RoomFrame
<1>5. ASSUME NEW b \in Blocks, Recycle(b) PROVE RoomInv'
  <2>1. UNCHANGED <<at, lh, outstanding, written>> BY <1>5 DEF Recycle
  <2>2. Others /\ Running' = Running BY <1>1, <2>1 DEF NoPanic, Running
  <2>3. QED BY ONLY LogInv, RoomInv, <2>1, <2>2, RoomFrame
<1>6. CASE read_head
  <2>1. /\ at[First] = "boot" /\ UNCHANGED <<outstanding, written>>
        /\ at' = [at EXCEPT ![First] = IF head = << >> THEN "cleanup" ELSE "recover"]
    BY <1>6 DEF read_head, Goto
  <2>2. outstanding = 0 BY <1>1, <2>1 DEF Running
  <2>3. Others BY <1>1, <2>1 DEF NoPanic
  <2>4. QED BY ONLY LogInv, RoomInv, <2>1, <2>2, <2>3, RoomFrame
<1>7. CASE recovered
  <2>1. /\ at[First] = "cleanup" /\ UNCHANGED <<outstanding, written>>
        /\ at' = [p \in Procs |-> "user"]
    BY <1>7 DEF recovered
  <2>2. outstanding = 0 BY <1>1, <2>1 DEF Running
  <2>3. \A q \in Procs : at[q] # "in" BY <1>1, <2>2, Where
  <2>4. Others BY <2>1, <2>3
  <2>5. QED BY ONLY LogInv, RoomInv, <2>1, <2>2, <2>4, RoomFrame
<1>8. CASE Crash
  <2>1. /\ at' = Booting /\ outstanding' = 0 /\ written' = [p \in Procs |-> {}]
    BY <1>8 DEF Crash
  <2>2. IsFiniteSet({}) /\ Cardinality({}) = 0 BY FS_EmptySet
  <2>3. OpBlocks \in Nat BY LogAssumption
  <2>4. NoPanic' BY <2>1 DEF NoPanic, Booting
  <2>5. CallsCounted' BY <2>1, <2>2, <2>3 DEF CallsCounted
  <2>6. QED BY <2>1, <2>4, <2>5 DEF RoomInv
<1>9. QED
  BY ONLY LogInv, RoomInv, RoomForCalls, <1>2, <1>3, <1>4, <1>5, <1>6, <1>7, <1>8,
     RoomBegin, RoomWrite, RoomEnd, Next DEF Next

(* begin_op() reserves enough: log_write() never panics with "too big a       *)
(* transaction" nor "log_write outside of trans", end_op() never with         *)
(* "log.committing", if every call writes fewer than MAXOPBLOCKS blocks.      *)
THEOREM NoPanicAlways == ASSUME RoomForCalls PROVE Spec => []NoPanic
<1>1. Init => RoomInv
  <2>1. IsFiniteSet({}) /\ Cardinality({}) = 0 /\ OpBlocks \in Nat
    BY FS_EmptySet, LogAssumption
  <2>2. QED BY <2>1 DEF Init, RoomInv, NoPanic, CallsCounted, Booting, Running
<1>2. LogInv /\ RoomInv /\ [Next]_vars => RoomInv'
  <2>1. ASSUME LogInv, RoomInv, Next PROVE RoomInv' BY <2>1, RoomStep
  <2>2. ASSUME RoomInv, UNCHANGED vars PROVE RoomInv'
    <3>1. Wrote' = Wrote /\ Logged(lh)' = Logged(lh) /\ Running' = Running
      BY <2>2 DEF vars, Wrote, Logged, Running
    <3>2. QED BY <2>2, <3>1 DEF vars, RoomInv, NoPanic, CallsCounted
  <2>3. QED BY <2>1, <2>2
<1>3. RoomInv => NoPanic BY DEF RoomInv
<1>4. QED BY <1>1, <1>2, <1>3, LogInvAlways, PTL DEF Spec
=============================================================================
