------------------------------- MODULE DlHarq -------------------------------
(***************************************************************************)
(* The receive-side MAC HARQ entity of srssl/src/stack/mac/dl_harq.cc:     *)
(* dl_harq_entity routes a PHY grant to one of NPids HARQ processes (or to *)
(* the BCCH process), and each process's dl_tb_process decides "new        *)
(* transmission or retransmission", owns a soft buffer and a payload       *)
(* buffer, and delivers decoded transport blocks to the demux unit.        *)
(*                                                                         *)
(* The PHY workers (phch_worker::work_imp) call new_grant_dl, run the data *)
(* decoder on the process's soft buffer, and call tb_decoded.  The         *)
(* process's pthread mutex is taken in new_grant_dl and released only in   *)
(* tb_decoded, so it spans the whole decode; several workers run this      *)
(* pipeline concurrently, one per subframe tick.                           *)
(*                                                                         *)
(* Only transport block 0 is modelled: the sidelink grant enables TB 0     *)
(* only (phch_worker.cc, tb_en[1] = false, n_bytes[1] = 0).                *)
(***************************************************************************)
EXTENDS Integers, FiniteSets, Sequences

CONSTANTS
  Workers,        \* the PHY worker threads
  NPids,          \* SRSLTE_MAX_HARQ_PROC
  BufCap,         \* payload buffers the demux unit can hand out
  ResetDupTimeout,\* RESET_DUPLICATE_TIMEOUT
  SiWindowStart,  \* dl_harq_entity::si_window_start
  GrantInput,     \* the grants the PHY may present (standalone Spec)
  MaxGrants,      \* bound: grants presented in one behaviour
  MaxResets       \* bound: calls of dl_harq_entity::reset

ASSUME NPids \in Nat \ {0} /\ BufCap \in Nat /\ ResetDupTimeout \in Nat

(* Process indices: 0..NPids-1 are proc[], NPids is bcch_proc.             *)
Bcch  == NPids
Procs == 0 .. NPids
NoProc == -1

(* Payload handles: NULL, the static BCCH buffer, pool buffers 1..BufCap. *)
NULL       == -1
BcchBuffer == 0
Buffers    == 1 .. BufCap

(* Owner of a pool buffer besides a process: the pool, or the demux unit. *)
FreeBuf == -2
AtDemux == -3

(* A received generation: the transport block it carries, its generation  *)
(* and whether the channel left it decodable on its own.                   *)
NoTx == [tb |-> 0, gen |-> 0, good |-> FALSE]

(* bzero(&cur_grant): the grant a process holds after a reset.             *)
(* ue_id % 5 in work_imp: the slots of the per-UE SNR average.           *)
UeSlots == 0 .. 4

ZeroGrant == [kind |-> "None", pid |-> 0, tbs |-> 0, ndiPresent |-> FALSE,
              ndi |-> FALSE, rv |-> 0, slTti |-> 0, slGap |-> 0, tx |-> NoTx]

VARIABLES
  curGrant,   \* dl_tb_process::cur_grant
  isFirstTb,  \* dl_tb_process::is_first_tb
  ack,        \* dl_tb_process::ack
  nRetx,      \* dl_tb_process::n_retx
  isNewTx,    \* dl_tb_process::is_new_transmission
  payload,    \* dl_tb_process::payload_buffer_ptr
  softbuf,    \* soft information combined in dl_tb_process::softbuffer
  lock,       \* holder of dl_tb_process::mutex (a worker or "reset")
  owner,      \* the demux unit's view of each pool buffer
  nofPkts,    \* dl_harq_entity::nof_pkts
  wpc,        \* program counter of each worker
  wgrant,     \* the grant each worker handles
  wproc,      \* the process whose mutex the worker's new_grant_dl took
  wen,        \* tb_action_dl_t: decode enabled
  wack,       \* the worker's decode result (dl_ack[0])
  wtmp,       \* nof_pkts as read by a worker inside tb_decoded
  snrPsschPerUe, \* phch_common::snr_pssch_per_ue: samples folded in, per slot
  wsnr,       \* snr_pssch_per_ue[ue_id] as read by a worker for its EMA
  snrSamples, \* history: SNR samples measured per slot
  rst,        \* next process dl_harq_entity::reset() will reset, or NoProc
  delivered,  \* history: generations delivered to the demux, in order
  ngrants,    \* grants presented so far
  nresets     \* resets started so far

procVars   == <<curGrant, isFirstTb, ack, nRetx, isNewTx, payload, softbuf, lock>>
workerVars == <<wpc, wgrant, wproc, wen, wack, wtmp, wsnr>>
snrVars    == <<snrPsschPerUe, snrSamples>>
vars == <<procVars, owner, nofPkts, workerVars, snrVars, rst, delivered,
          ngrants, nresets>>

Init ==
  /\ curGrant  = [p \in Procs |-> ZeroGrant]
  /\ isFirstTb = [p \in Procs |-> TRUE]
  /\ ack       = [p \in Procs |-> FALSE]
  /\ nRetx     = [p \in Procs |-> 0]
  /\ isNewTx   = [p \in Procs |-> FALSE]
  /\ payload   = [p \in Procs |-> NULL]
  /\ softbuf   = [p \in Procs |-> {}]
  /\ lock      = [p \in Procs |-> NoProc]
  /\ owner     = [b \in Buffers |-> FreeBuf]
  /\ nofPkts   = 0
  /\ wpc       = [w \in Workers |-> "idle"]
  /\ wgrant    = [w \in Workers |-> ZeroGrant]
  /\ wproc     = [w \in Workers |-> NoProc]
  /\ wen       = [w \in Workers |-> FALSE]
  /\ wack      = [w \in Workers |-> FALSE]
  /\ wtmp      = [w \in Workers |-> 0]
  /\ wsnr      = [w \in Workers |-> 0]
  /\ snrPsschPerUe = [u \in UeSlots |-> 0]
  /\ snrSamples    = [u \in UeSlots |-> 0]
  /\ rst       = NoProc
  /\ delivered = <<>>
  /\ ngrants   = 0
  /\ nresets   = 0

-----------------------------------------------------------------------------
(* Routing.  new_grant_dl reduces a sidelink pid modulo NPids; tb_decoded  *)
(* does not, and drops a grant whose pid is out of range.                  *)
NewGrantProc(g) ==
  CASE g.kind = "SL" -> g.pid % NPids
    [] g.kind = "SI" -> Bcch
    [] g.pid < NPids -> g.pid
    [] OTHER         -> NoProc

TbDecodedProc(g) ==
  CASE g.kind = "SI" -> Bcch
    [] g.pid < NPids -> g.pid
    [] OTHER         -> NoProc

IsBcch(p) == p = Bcch

(* RV of a BCCH grant without one: k from the SI window, rv = ceil(1.5k)%4 *)
BcchRv(g) ==
  LET k == IF (g.pid \div 10) % 2 = 0 /\ g.pid % 10 = 5
             THEN (g.pid \div 20) % 4
             ELSE (g.pid - SiWindowStart) % 4
  IN  ((3 * k + 1) \div 2) % 4

(* calc_is_new_transmission (5.3.2.2): the NDI toggled, a BCCH first      *)
(* transmission, or the process's first TB.                               *)
CalcIsNewTransmission(p, g) ==
  \/ g.ndiPresent /\ g.ndi # curGrant[p].ndi
  \/ IsBcch(p) /\ g.rv = 0
  \/ isFirstTb[p]

(* The sidelink rule: the NDI bit itself says "new", it is not toggled.    *)
IsNewTransmission(p, g) ==
  IF g.kind = "SL" THEN g.ndiPresent /\ g.ndi ELSE CalcIsNewTransmission(p, g)

(* A decode succeeds when the combined soft information is all of one     *)
(* transport block and either one generation was good or two combine.     *)
DecodeOk(buf) ==
  /\ buf # {}
  /\ \A x, y \in buf : x.tb = y.tb
  /\ (\E x \in buf : x.good) \/ Cardinality(buf) >= 2

FreeBuffers == {b \in Buffers : owner[b] = FreeBuf}

(* demux::deallocate of a pool buffer; the BCCH buffer is never returned. *)
Release(own, p, b) ==
  IF b # NULL /\ ~IsBcch(p) THEN [own EXCEPT ![b] = FreeBuf] ELSE own

(* pthread_mutex_lock(&mutex) of a process's TB: the caller blocks until  *)
(* nobody holds it.                                                        *)
(* Mutant: the lock does not wait.                                         *)
MutexFreeAlways(p) == TRUE

MutexFree(p) == lock[p] = NoProc

(* The payload buffer new_grant_dl asks the demux for: the static BCCH     *)
(* buffer, or the lowest free pool buffer, lent to p.  Without one the     *)
(* decode stays disabled ("Can't get a buffer": return, mutex held).       *)
(* Mutant: the decode is enabled even without a buffer.                    *)
PayloadRequestNoReturn(p, own) ==
  LET free == {b \in Buffers : own[b] = FreeBuf} IN
  CASE IsBcch(p)  -> [buf |-> BcchBuffer, own |-> own, en |-> TRUE]
    [] free # {}  -> LET b == CHOOSE b \in free : \A c \in free : b <= c
                     IN [buf |-> b, own |-> [own EXCEPT ![b] = p], en |-> TRUE]
    [] OTHER      -> [buf |-> NULL, own |-> own, en |-> TRUE]

PayloadRequest(p, own) ==
  LET free == {b \in Buffers : own[b] = FreeBuf} IN
  CASE IsBcch(p)  -> [buf |-> BcchBuffer, own |-> own, en |-> TRUE]
    [] free # {}  -> LET b == CHOOSE b \in free : \A c \in free : b <= c
                     IN [buf |-> b, own |-> [own EXCEPT ![b] = p], en |-> TRUE]
    [] OTHER      -> [buf |-> NULL, own |-> own, en |-> FALSE]

(* dl_harq_process::new_grant_dl hands the grant to the TB's process only *)
(* when the TB has a non-zero size; otherwise no mutex is taken and the    *)
(* bzero'd action leaves the decode disabled.                              *)
TbEnabled(g) == g.tbs # 0

(* The soft buffer is started afresh (ack cleared, n_retx zeroed) on a new *)
(* transmission, on a TBS that differs from the saved grant's, and on a    *)
(* retransmission that does not follow the saved grant by its time gap.   *)
(* Mutant: a TBS change during a retransmission is not a reset reason.  *)
SoftbufferResetNoTbs(p, g, new) ==
  \/ new
  \/ curGrant[p].slTti + curGrant[p].slGap # g.slTti

SoftbufferReset(p, g, new) ==
  \/ new
  \/ curGrant[p].tbs # g.tbs
  \/ curGrant[p].slTti + curGrant[p].slGap # g.slTti

-----------------------------------------------------------------------------
(* A PHY worker takes a grant for its subframe (decode_pscch_dl).          *)
Receive(w, g) ==
  /\ wpc[w] = "idle"
  /\ ngrants < MaxGrants
  /\ wpc' = [wpc EXCEPT ![w] = "grant"]
  /\ wgrant' = [wgrant EXCEPT ![w] = g]
  /\ ngrants' = ngrants + 1
  /\ UNCHANGED <<procVars, owner, nofPkts, wproc, wen, wack, wtmp, wsnr, snrVars, rst,
                 delivered, nresets>>

(* new_grant_dl when no process is touched: the entity drops an invalid    *)
(* pid, or the process skips a TB of size 0.  No mutex is taken, nothing   *)
(* decoded.                                                                *)
NewGrantDropped(w) ==
  /\ wpc[w] = "grant"
  /\ NewGrantProc(wgrant[w]) = NoProc \/ ~TbEnabled(wgrant[w])
  /\ wpc' = [wpc EXCEPT ![w] = "decode"]
  /\ wproc' = [wproc EXCEPT ![w] = NoProc]
  /\ wen' = [wen EXCEPT ![w] = FALSE]
  /\ UNCHANGED <<procVars, owner, nofPkts, wgrant, wack, wtmp, wsnr, snrVars, rst,
                 delivered, ngrants, nresets>>

(* dl_tb_process::new_grant_dl: lock the mutex (held until tb_decoded),    *)
(* decide new transmission, reset on a new TB, a TBS change or a grant     *)
(* that does not follow the previous one by its time gap, count the        *)
(* transmission, then either request a payload buffer and enable the      *)
(* decode, or discard a duplicate and reset after too many of them.        *)
NewGrant(w) ==
  LET g0    == wgrant[w]
      p     == NewGrantProc(g0)
      g     == IF IsBcch(p) /\ g0.rv = -1 THEN [g0 EXCEPT !.rv = BcchRv(g0)] ELSE g0
      new   == IsNewTransmission(p, g)
      reset == SoftbufferReset(p, g, new)
      ack1  == ~reset /\ ack[p]
      n1    == (IF reset THEN 0 ELSE nRetx[p]) + 1
      own1  == Release(owner, p, payload[p])
      req   == PayloadRequest(p, own1)
      first1 == IF g.kind # "SL" /\ new THEN FALSE ELSE isFirstTb[p]
  IN
  /\ wpc[w] = "grant"
  /\ p # NoProc /\ TbEnabled(g0)
  /\ MutexFree(p)
  /\ lock' = [lock EXCEPT ![p] = w]
  /\ isNewTx' = [isNewTx EXCEPT ![p] = new]
  /\ softbuf' = [softbuf EXCEPT ![p] = IF reset THEN {} ELSE @]
  /\ wproc' = [wproc EXCEPT ![w] = p]
  /\ wpc' = [wpc EXCEPT ![w] = "decode"]
  /\ IF ~ack1
     THEN \* save the grant, (re)allocate the payload buffer, enable decode
          /\ curGrant' = [curGrant EXCEPT ![p] = g]
          /\ isFirstTb' = [isFirstTb EXCEPT ![p] = first1]
          /\ ack' = [ack EXCEPT ![p] = FALSE]
          /\ nRetx' = [nRetx EXCEPT ![p] = n1]
          /\ payload' = [payload EXCEPT ![p] = req.buf]
          /\ owner' = req.own
          /\ wen' = [wen EXCEPT ![w] = req.en]
     ELSE \* duplicate of a decoded TB: discard, reset(false) past the timeout
          /\ wen' = [wen EXCEPT ![w] = FALSE]
          /\ IF n1 > ResetDupTimeout
             THEN /\ curGrant' = [curGrant EXCEPT ![p] = ZeroGrant]
                  /\ isFirstTb' = [isFirstTb EXCEPT ![p] = TRUE]
                  /\ ack' = [ack EXCEPT ![p] = FALSE]
                  /\ nRetx' = [nRetx EXCEPT ![p] = 0]
                  /\ payload' = [payload EXCEPT ![p] = NULL]
                  /\ owner' = own1
             ELSE /\ nRetx' = [nRetx EXCEPT ![p] = n1]
                  /\ isFirstTb' = [isFirstTb EXCEPT ![p] = first1]
                  /\ UNCHANGED <<curGrant, ack, payload, owner>>
  /\ UNCHANGED <<nofPkts, wgrant, wack, wtmp, wsnr, snrVars, rst, delivered, ngrants, nresets>>

(* The PHY decodes into the process's soft buffer when the MAC enabled it  *)
(* (decode_pssch); otherwise dl_ack[0] stays false.                        *)
(* Mutant: the ack set whenever the decoder returned, whatever its result. *)
PsschDecodeAnyRet(buf, g) ==
  IF g.tbs > 0
  THEN [soft |-> buf \cup {g.tx}, ok |-> TRUE]
  ELSE [soft |-> buf, ok |-> FALSE]

(* phch_worker::decode_pssch: the ack starts false; a grant with a        *)
(* positive TBS is combined into the soft buffer and decoded               *)
(* (srslte_pssch_decode_simple), the ack being the decoder's success; a    *)
(* grant with TBS 0 is only logged and leaves the soft buffer alone.       *)
PsschDecode(buf, g) ==
  IF g.tbs > 0
  THEN [soft |-> buf \cup {g.tx}, ok |-> DecodeOk(buf \cup {g.tx})]
  ELSE [soft |-> buf, ok |-> FALSE]

Decode(w) ==
  LET p   == wproc[w]
      res == PsschDecode(softbuf[p], wgrant[w])
  IN
  /\ wpc[w] = "decode"
  /\ wpc' = [wpc EXCEPT ![w] = IF wen[w] THEN "snr" ELSE "tbdec"]
  /\ IF wen[w]
     THEN /\ softbuf' = [softbuf EXCEPT ![p] = res.soft]
          /\ wack' = [wack EXCEPT ![w] = res.ok]
     ELSE /\ wack' = [wack EXCEPT ![w] = FALSE]
          /\ UNCHANGED softbuf
  /\ UNCHANGED <<curGrant, isFirstTb, ack, nRetx, isNewTx, payload, lock,
                 owner, nofPkts, wgrant, wproc, wen, wtmp, wsnr, snrVars, rst, delivered,
                 ngrants, nresets>>

(* The slot of the per-UE SNR average a decode counts for: ue_id is       *)
(* srslte_repo_get_t_SL_k of the worker's tti (outside src) modulo 5; the  *)
(* model takes the grant's tti as that index.                              *)
UeSlot(g) == g.slTti % 5

(* After an enabled decode the worker computes the SNR and folds it into  *)
(* phy->snr_pssch_per_ue[ue_id] (SRSLTE_VEC_EMA), a read-modify-write of   *)
(* phch_common state under no lock but this process's HARQ mutex: first    *)
(* the read ...                                                            *)
PsschSnrRead(w) ==
  LET u == UeSlot(wgrant[w]) IN
  /\ wpc[w] = "snr"
  /\ wsnr' = [wsnr EXCEPT ![w] = snrPsschPerUe[u]]
  /\ snrSamples' = [snrSamples EXCEPT ![u] = @ + 1]
  /\ wpc' = [wpc EXCEPT ![w] = "snrw"]
  /\ UNCHANGED <<procVars, owner, nofPkts, wgrant, wproc, wen, wack, wtmp,
                 snrPsschPerUe, rst, delivered, ngrants, nresets>>

(* ... then the write of the new average, after which tb_decoded follows.  *)
PsschSnrWrite(w) ==
  /\ wpc[w] = "snrw"
  /\ snrPsschPerUe' = [snrPsschPerUe EXCEPT ![UeSlot(wgrant[w])] = wsnr[w] + 1]
  /\ wpc' = [wpc EXCEPT ![w] = "tbdec"]
  /\ UNCHANGED <<procVars, owner, nofPkts, wgrant, wproc, wen, wack, wtmp,
                 wsnr, snrSamples, rst, delivered, ngrants, nresets>>

(* Mutant: the deallocate of a failed decode's buffer is missing.        *)
BufferAfterDecodeNoDealloc(buf, a, p) == owner

(* Where tb_decoded leaves the payload buffer: a decoded sidelink or       *)
(* C-RNTI TB's buffer goes to the demux, a BCCH buffer is not the pool's,  *)
(* and a failed decode's buffer is deallocated.                            *)
BufferAfterDecode(buf, a, p) ==
  CASE a /\ ~IsBcch(p) -> [owner EXCEPT ![buf] = AtDemux]
    [] IsBcch(p)       -> owner
    [] OTHER           -> [owner EXCEPT ![buf] = FreeBuf]

(* dl_harq_entity::tb_decoded and dl_tb_process::tb_decoded: with a        *)
(* payload buffer, record the result; on success hand the buffer to the    *)
(* demux (BCCH, sidelink or C-RNTI path; the latter two also read nof_pkts *)
(* for the retransmission average), on failure deallocate it.  Then the    *)
(* mutex of the process the grant names is unlocked, whoever holds it.     *)
(* A grant with an out-of-range pid is dropped without unlocking.          *)
TbDecoded(w) ==
  LET p   == TbDecodedProc(wgrant[w])
      a   == wack[w]
      cg  == curGrant[p]
      buf == payload[p]
      stats == p # NoProc /\ buf # NULL /\ a /\ ~IsBcch(p)
  IN
  /\ wpc[w] = "tbdec"
  /\ IF p = NoProc
     THEN /\ wpc' = [wpc EXCEPT ![w] = "idle"]
          /\ UNCHANGED <<procVars, owner, delivered, wtmp>>
     ELSE /\ IF buf # NULL
             THEN /\ ack' = [ack EXCEPT ![p] = a]
                  /\ payload' = [payload EXCEPT ![p] = NULL]
                  /\ owner' = BufferAfterDecode(buf, a, p)
                  /\ delivered' = IF a THEN Append(delivered, [tx |-> cg.tx, proc |-> p]) ELSE delivered
             ELSE UNCHANGED <<ack, payload, owner, delivered>>
          /\ wtmp' = [wtmp EXCEPT ![w] = IF stats THEN nofPkts ELSE @]
          /\ lock' = IF stats THEN lock ELSE [lock EXCEPT ![p] = NoProc]
          /\ wpc' = [wpc EXCEPT ![w] =
                       CASE stats -> "stats"
                         [] IsBcch(p) /\ (IF buf # NULL THEN a ELSE ack[p]) -> "bcchreset"
                         [] OTHER -> "idle"]
          /\ UNCHANGED <<curGrant, isFirstTb, nRetx, isNewTx, softbuf>>
  /\ UNCHANGED <<nofPkts, wgrant, wproc, wen, wack, wsnr, snrVars, rst, ngrants, nresets>>

(* average_retx = SRSLTE_VEC_CMA(n_retx, average_retx, nof_pkts++): the    *)
(* write-back of the increment, still inside this process's mutex only,   *)
(* then the unlock at the end of tb_decoded.                               *)
UpdateStats(w) ==
  LET p == TbDecodedProc(wgrant[w]) IN
  /\ wpc[w] = "stats"
  /\ nofPkts' = wtmp[w] + 1
  /\ lock' = [lock EXCEPT ![p] = NoProc]
  /\ wpc' = [wpc EXCEPT ![w] = "idle"]
  /\ UNCHANGED <<curGrant, isFirstTb, ack, nRetx, isNewTx, payload, softbuf,
                 owner, wgrant, wproc, wen, wack, wtmp, wsnr, snrVars, rst, delivered,
                 ngrants, nresets>>

(* dl_tb_process::reset(true): under the mutex, clear the grant and the   *)
(* counters, deallocate the payload buffer and clear the soft buffer.      *)
ResetProc(p) ==
  /\ curGrant' = [curGrant EXCEPT ![p] = ZeroGrant]
  /\ isFirstTb' = [isFirstTb EXCEPT ![p] = TRUE]
  /\ ack' = [ack EXCEPT ![p] = FALSE]
  /\ nRetx' = [nRetx EXCEPT ![p] = 0]
  /\ payload' = [payload EXCEPT ![p] = NULL]
  /\ owner' = Release(owner, p, payload[p])
  /\ softbuf' = [softbuf EXCEPT ![p] = {}]

(* After a successful BCCH decode tb_decoded calls reset(), which locks    *)
(* the mutex again after having released it.                               *)
BcchReset(w) ==
  /\ wpc[w] = "bcchreset"
  /\ MutexFree(Bcch)
  /\ ResetProc(Bcch)
  /\ wpc' = [wpc EXCEPT ![w] = "idle"]
  /\ UNCHANGED <<isNewTx, lock, nofPkts, wgrant, wproc, wen, wack, wtmp, wsnr, snrVars, rst,
                 delivered, ngrants, nresets>>

(* dl_harq_entity::reset (called by the MAC from another thread): reset    *)
(* every process in turn, each under its own mutex, then the BCCH one.     *)
StartReset ==
  /\ rst = NoProc
  /\ nresets < MaxResets
  /\ rst' = 0
  /\ nresets' = nresets + 1
  /\ UNCHANGED <<procVars, owner, nofPkts, workerVars, snrVars, delivered, ngrants>>

(* Mutant: the reset loop runs one process past the BCCH one.           *)
ResetStepPastEnd ==
  /\ rst # NoProc
  /\ MutexFree(rst)
  /\ ResetProc(rst)
  /\ rst' = IF rst = Bcch + 1 THEN NoProc ELSE rst + 1
  /\ UNCHANGED <<isNewTx, lock, nofPkts, workerVars, snrVars, delivered, ngrants, nresets>>

ResetStep ==
  /\ rst # NoProc
  /\ MutexFree(rst)
  /\ ResetProc(rst)
  /\ rst' = IF rst = Bcch THEN NoProc ELSE rst + 1
  /\ UNCHANGED <<isNewTx, lock, nofPkts, workerVars, snrVars, delivered, ngrants, nresets>>

(* The demux unit consumes a delivered PDU and returns its buffer.         *)
DemuxFree(b) ==
  /\ owner[b] = AtDemux
  /\ owner' = [owner EXCEPT ![b] = FreeBuf]
  /\ UNCHANGED <<procVars, nofPkts, workerVars, snrVars, rst, delivered, ngrants, nresets>>

(* All grants handled and nothing in flight: the bounded run is over.      *)
Done ==
  /\ ngrants = MaxGrants
  /\ \A w \in Workers : wpc[w] = "idle"
  /\ rst = NoProc
  /\ UNCHANGED vars

WorkerStep(w) ==
  \/ NewGrantDropped(w) \/ NewGrant(w) \/ Decode(w)
  \/ PsschSnrRead(w) \/ PsschSnrWrite(w) \/ TbDecoded(w)
  \/ UpdateStats(w) \/ BcchReset(w)

Next ==
  \/ \E w \in Workers, g \in GrantInput : Receive(w, g)
  \/ \E w \in Workers : WorkerStep(w)
  \/ StartReset \/ ResetStep
  \/ \E b \in Buffers : DemuxFree(b)
  \/ Done

(* Worker threads and the reset caller are never descheduled forever.     *)
Fairness ==
  /\ \A w \in Workers : WF_vars(WorkerStep(w))
  /\ WF_vars(ResetStep)
  /\ \A b \in Buffers : WF_vars(DemuxFree(b))

Spec == Init /\ [][Next]_vars /\ Fairness

-----------------------------------------------------------------------------
(* Properties                                                              *)

TxRecs == [tb : Nat, gen : Nat, good : BOOLEAN]
Grants == [kind : {"SL", "SI", "C", "None"}, pid : Nat, tbs : Nat,
           ndiPresent : BOOLEAN, ndi : BOOLEAN, rv : Int, slTti : Nat,
           slGap : Nat, tx : TxRecs]

TypeOK ==
  /\ curGrant \in [Procs -> Grants]
  /\ isFirstTb \in [Procs -> BOOLEAN] /\ ack \in [Procs -> BOOLEAN]
  /\ isNewTx \in [Procs -> BOOLEAN]
  /\ nRetx \in [Procs -> Nat]
  /\ payload \in [Procs -> {NULL, BcchBuffer} \cup Buffers]
  /\ \A p \in Procs : \A x \in softbuf[p] : x \in TxRecs
  /\ lock \in [Procs -> Workers \cup {NoProc}]
  /\ owner \in [Buffers -> Procs \cup {FreeBuf, AtDemux}]
  /\ nofPkts \in Nat
  /\ wpc \in [Workers -> {"idle", "grant", "decode", "snr", "snrw", "tbdec",
                          "stats", "bcchreset"}]
  /\ wsnr \in [Workers -> Nat]
  /\ snrPsschPerUe \in [UeSlots -> Nat] /\ snrSamples \in [UeSlots -> Nat]
  /\ wgrant \in [Workers -> Grants]
  /\ wproc \in [Workers -> Procs \cup {NoProc}]
  /\ wen \in [Workers -> BOOLEAN] /\ wack \in [Workers -> BOOLEAN]
  /\ rst \in Procs \cup {NoProc}

(* Between new_grant_dl and the unlock in tb_decoded a worker holds the    *)
(* mutex of the process it is decoding for.  The lock is taken in one call *)
(* and released in another, by process index, so a grant that routes      *)
(* differently in the two calls, or an unlock of a mutex someone else      *)
(* holds, would let two workers combine into one soft buffer at once.      *)
DecodeUnderLock ==
  \A w \in Workers :
    wpc[w] \in {"decode", "snr", "snrw", "tbdec", "stats"} /\ wproc[w] # NoProc
      => lock[wproc[w]] = w

(* Payload-buffer ownership across request_buffer, deallocate, delivery   *)
(* and reset: a pool buffer the demux unit regards as lent to a process is *)
(* exactly that process's payload_buffer_ptr (no leak, no double          *)
(* deallocation, no use after hand-over), and a decode enabled by the MAC  *)
(* writes into a buffer its process owns.                                  *)
BufferOwnership ==
  /\ \A p \in Procs \ {Bcch} :
       payload[p] # NULL => owner[payload[p]] = p
  /\ \A b \in Buffers : owner[b] \in Procs => payload[owner[b]] = b
  /\ \A w \in Workers :
       wpc[w] = "decode" /\ wen[w] => payload[wproc[w]] # NULL

(* Every buffer lent to a HARQ process is eventually back in the demux     *)
(* pool: tb_decoded always follows new_grant_dl and either delivers or     *)
(* deallocates, and reset deallocates.                                      *)
BufferEventuallyReturned ==
  \A b \in Buffers : owner[b] \in Procs ~> owner[b] = FreeBuf

(* The HARQ entity implements the abstract process of HarqProcessSpec     *)
(* under this mapping: the holder of a process is the worker holding its   *)
(* pthread mutex, its soft buffer and the delivery history are the         *)
(* concrete ones.  Across the mutex taken in new_grant_dl and released in  *)
(* tb_decoded (or after the nof_pkts update), the BCCH reset that locks    *)
(* again, the reset loop and buffer exhaustion, every step is a take, a    *)
(* combine, a delivery of a decodable buffer, a release or a clear of a    *)
(* free process, or changes none of these.                                 *)
HP == INSTANCE HarqProcessSpec
        WITH holder <- lock, soft <- softbuf, None <- NoProc,
             Txs <- {g.tx : g \in GrantInput}, Decodable <- DecodeOk

HarqProcessRefinement == HP!Spec

(* The two statistics the PHY workers update outside any shared lock      *)
(* count every sample once no update is half done: nof_pkts (incremented   *)
(* in tb_decoded under the delivering process's mutex, and driving the     *)
(* average_retx metric) counts the transport blocks delivered on the       *)
(* sidelink and C-RNTI paths, and each snr_pssch_per_ue average (updated   *)
(* in work_imp under the decoding process's mutex) has folded in every SNR *)
(* sample measured for its slot.  Workers decoding for different HARQ      *)
(* processes hold different mutexes.                                       *)
NofPktsCountsDeliveries ==
  (\A w \in Workers : wpc[w] # "stats")
    => nofPkts = Len(SelectSeq(delivered, LAMBDA d : d.proc # Bcch))

SnrAverageCountsSamples ==
  (\A w \in Workers : wpc[w] # "snrw") => snrPsschPerUe = snrSamples

SharedStatsCountEverySample ==
  NofPktsCountsDeliveries /\ SnrAverageCountsSamples

(* The TBS of the grants that carry a generation.                         *)
TbsOfTx(x) == {g.tbs : g \in {h \in GrantInput : h.tx = x}}

(* Spec 3 invariant (1): when decode_pssch combines a grant into a soft    *)
(* buffer, every generation already in it was received under a grant of   *)
(* that TBS.  new_grant_dl keeps the buffer on a related retransmission    *)
(* and resets it on a TBS change; reset(false) after the duplicate timeout *)
(* keeps it too, but zeroes the saved grant so the next grant resets.      *)
SoftbufferMatchesTbs ==
  \A w \in Workers :
    wpc[w] = "decode" /\ wen[w] =>
      \A x \in softbuf[wproc[w]] : TbsOfTx(x) = {wgrant[w].tbs}
=============================================================================
