----------------------------- MODULE TxOrdering -----------------------------
(***************************************************************************)
(* The transmit-ordering chain of phch_common::worker_end.                 *)
(*                                                                         *)
(* PHY workers run subframes concurrently; each ends with worker_end(tti), *)
(* which must put its subframe on the radio only after the previous one.  *)
(* The order is kept by a ring of nof_mutex pthread mutexes used as        *)
(* binary semaphores: worker_end(tti) locks tx_mutex[tti % nof_mutex]      *)
(* (unless it is the very first transmission), transmits, and unlocks      *)
(* tx_mutex[(tti+1) % nof_mutex], a mutex some other thread locked.  The   *)
(* mutexes are created unlocked (pthread_mutex_init), and glibc's default  *)
(* mutex lets any thread unlock it, also when it is not locked.           *)
(*                                                                         *)
(* The sync thread hands out ttis 0, 1, 2, ... without end, wrapping at    *)
(* the tti period (10240 in the code).  A worker holds one tti at a time,  *)
(* so the state of the subframes in flight is indexed by their tti and the *)
(* stream is modelled without a bound, wrap included.                      *)
(***************************************************************************)
EXTENDS Integers, Sequences, FiniteSets

CONSTANTS
  Workers,       \* PHY worker threads
  NofMutex,      \* phch_common::nof_mutex (set_nof_mutex)
  TtiPeriod      \* tti counter period (10240 in the code)

ASSUME NofMutex >= 1 /\ TtiPeriod >= 1

Ttis == 0 .. TtiPeriod - 1
NoTti == -1

Prev(t) == (t + TtiPeriod - 1) % TtiPeriod

VARIABLES
  next,            \* next tti the sync thread hands to a free worker
  wtti,            \* per worker: the tti it is processing
  wpc,             \* per worker: where it is ("idle" when free)
  txEnable,        \* per worker: signal_ready, whether it has a signal
  seenFirst,       \* per worker: the value of is_first_tx it read
  isFirstTx,       \* phch_common::is_first_tx
  isFirstOfBurst,  \* phch_common::is_first_of_burst
  locked,          \* tx_mutex[m] is held
  lastTx,          \* history: tti of the last radio_h->set_tti call
  radioOp,         \* history: what that call sent: "signal", "zeros", "end", "none"
  continuousTx     \* radio_h->is_continuous_tx(), fixed by the radio configuration

vars == <<next, wtti, wpc, txEnable, seenFirst, isFirstTx, isFirstOfBurst,
          locked, lastTx, radioOp, continuousTx>>

Mutexes == 0 .. NofMutex - 1

Init ==
  /\ next = 0
  /\ wtti = [w \in Workers |-> 0]
  /\ wpc = [w \in Workers |-> "idle"]
  /\ txEnable = [w \in Workers |-> FALSE]
  /\ seenFirst = [w \in Workers |-> FALSE]
  /\ isFirstTx = TRUE
  /\ isFirstOfBurst = TRUE
  /\ locked = [m \in Mutexes |-> FALSE]
  /\ lastTx = NoTti
  /\ radioOp = "none"
  /\ continuousTx \in BOOLEAN

(* Mutant: the tti counter not wrapped at the period.                     *)
DispatchNoWrap(w) ==
  /\ wpc[w] = "idle"
  /\ wtti' = [wtti EXCEPT ![w] = next]
  /\ wpc' = [wpc EXCEPT ![w] = "work"]
  /\ next' = next + 1
  /\ UNCHANGED <<txEnable, seenFirst, isFirstTx, isFirstOfBurst, locked, lastTx, radioOp, continuousTx>>

(* The sync thread hands tti next to an idle worker (thread_pool).        *)
Dispatch(w) ==
  /\ wpc[w] = "idle"
  /\ wtti' = [wtti EXCEPT ![w] = next]
  /\ wpc' = [wpc EXCEPT ![w] = "work"]
  /\ next' = (next + 1) % TtiPeriod
  /\ UNCHANGED <<txEnable, seenFirst, isFirstTx, isFirstOfBurst, locked, lastTx, radioOp, continuousTx>>

(* work_imp up to worker_end: the subframe is processed and either has a  *)
(* signal to send (signal_ready) or not.                                   *)
Work(w) ==
  /\ wpc[w] = "work"
  /\ \E ready \in BOOLEAN : txEnable' = [txEnable EXCEPT ![w] = ready]
  /\ wpc' = [wpc EXCEPT ![w] = "first"]
  /\ UNCHANGED <<next, wtti, seenFirst, isFirstTx, isFirstOfBurst, locked, lastTx, radioOp, continuousTx>>

(* worker_end: `if (is_first_tx)` - the test of the shared flag.           *)
ReadFirst(w) ==
  /\ wpc[w] = "first"
  /\ seenFirst' = [seenFirst EXCEPT ![w] = isFirstTx]
  /\ wpc' = [wpc EXCEPT ![w] = "branch"]
  /\ UNCHANGED <<next, wtti, txEnable, isFirstTx, isFirstOfBurst, locked, lastTx, radioOp, continuousTx>>

(* ... then `is_first_tx = false` and go on, or wait for this tti's mutex. *)
Branch(w) ==
  /\ wpc[w] = "branch"
  /\ IF seenFirst[w]
     THEN /\ isFirstTx' = FALSE
          /\ wpc' = [wpc EXCEPT ![w] = "tx"]
     ELSE /\ wpc' = [wpc EXCEPT ![w] = "lock"]
          /\ UNCHANGED isFirstTx
  /\ seenFirst' = [seenFirst EXCEPT ![w] = FALSE]
  /\ UNCHANGED <<next, wtti, txEnable, isFirstOfBurst, locked, lastTx, radioOp, continuousTx>>

(* pthread_mutex_lock(&tx_mutex[tti % nof_mutex]): blocks while held.    *)
Lock(w) ==
  LET m == wtti[w] % NofMutex IN
  /\ wpc[w] = "lock"
  /\ ~locked[m]
  /\ locked' = [locked EXCEPT ![m] = TRUE]
  /\ wpc' = [wpc EXCEPT ![w] = "tx"]
  /\ UNCHANGED <<next, wtti, txEnable, seenFirst, isFirstTx, isFirstOfBurst, lastTx, radioOp, continuousTx>>

(* radio_h->set_tti(tti), then the subframe's signal; or, without one,    *)
(* zeros in continuous mode or the end of burst, each only inside a burst. *)
Transmit(w) ==
  LET op == CASE txEnable[w]                     -> "signal"
              [] ~isFirstOfBurst /\ continuousTx  -> "zeros"
              [] ~isFirstOfBurst                  -> "end"
              [] OTHER                            -> "none"
  IN
  /\ wpc[w] = "tx"
  /\ lastTx' = wtti[w]
  /\ radioOp' = op
  /\ isFirstOfBurst' = CASE op = "signal" -> FALSE
                         [] op = "end"    -> TRUE
                         [] OTHER         -> isFirstOfBurst
  /\ wpc' = [wpc EXCEPT ![w] = "unlock"]
  /\ txEnable' = [txEnable EXCEPT ![w] = FALSE]
  /\ UNCHANGED <<next, wtti, seenFirst, isFirstTx, locked, continuousTx>>

(* Mutant: worker_end returns without the unlock that triggers the next.   *)
UnlockSkipped(w) ==
  /\ wpc[w] = "unlock"
  /\ wpc' = [wpc EXCEPT ![w] = "idle"]
  /\ UNCHANGED <<next, wtti, txEnable, seenFirst, isFirstTx, isFirstOfBurst, locked, lastTx, radioOp, continuousTx>>

(* pthread_mutex_unlock(&tx_mutex[(tti+1) % nof_mutex]): frees it whoever *)
(* holds it, and whether or not it is held.                                *)
Unlock(w) ==
  LET m == (wtti[w] + 1) % NofMutex IN
  /\ wpc[w] = "unlock"
  /\ locked' = [locked EXCEPT ![m] = FALSE]
  /\ wpc' = [wpc EXCEPT ![w] = "idle"]
  /\ UNCHANGED <<next, wtti, txEnable, seenFirst, isFirstTx, isFirstOfBurst, lastTx, radioOp, continuousTx>>

Step(w) == Dispatch(w) \/ Work(w) \/ ReadFirst(w) \/ Branch(w) \/ Lock(w) \/ Transmit(w) \/ Unlock(w)

Next == \E w \in Workers : Step(w)

Fairness == \A w \in Workers : WF_vars(Step(w))

Spec == Init /\ [][Next]_vars /\ Fairness

-----------------------------------------------------------------------------
(* Properties                                                              *)

TypeOK ==
  /\ next \in Ttis
  /\ wtti \in [Workers -> Ttis]
  /\ wpc \in [Workers -> {"idle", "work", "first", "branch", "lock", "tx", "unlock"}]
  /\ isFirstTx \in BOOLEAN /\ isFirstOfBurst \in BOOLEAN
  /\ locked \in [Mutexes -> BOOLEAN]
  /\ lastTx \in Ttis \cup {NoTti}
  /\ radioOp \in {"signal", "zeros", "end", "none"}
  /\ continuousTx \in BOOLEAN

(* Spec 5: "transmit completion for tick n happens-before transmit start   *)
(* for tick n+1".  worker_end reaches the radio for the ttis in order:     *)
(* the first for tti 0, and every later one right after its predecessor.   *)
TxInOrder ==
  [][\A w \in Workers : Transmit(w) =>
        IF lastTx = NoTti THEN wtti[w] = 0 ELSE lastTx = Prev(wtti[w])]_vars

(* The tx_mutex chain never blocks every worker at once: some worker is    *)
(* not waiting in pthread_mutex_lock on a mutex that is held.  When all     *)
(* are, nobody is left to unlock, the sync thread finds no free worker,    *)
(* and the PHY stops.                                                       *)
Blocked(w) == wpc[w] = "lock" /\ locked[wtti[w] % NofMutex]

NoChainDeadlock == ~\A w \in Workers : Blocked(w)

=============================================================================
