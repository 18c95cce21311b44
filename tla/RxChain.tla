------------------------------ MODULE RxChain ------------------------------
(***************************************************************************)
(* The PHY worker as a whole on the receive side: phch_worker::work_imp    *)
(* runs decode_pscch_dl and the MAC HARQ calls (SidelinkRx, with DlHarq)   *)
(* and only then phch_common::worker_end (TxOrdering).  A worker is handed *)
(* a new tick only when it is idle again, that is after its worker_end, so *)
(* the tx_mutex chain also bounds how far the workers' MAC calls can drift *)
(* apart.  The grants of a TB's two generations, five ticks apart, must    *)
(* reach dl_harq in order for the second to be taken as a retransmission. *)
(*                                                                         *)
(* It starts where phch_common::init leaves the PHY: is_first_tx set and  *)
(* every tx_mutex unlocked.  From there the ring can settle with the wrong *)
(* mutex free (the txorder_order trace) and stays so; a worker can then    *)
(* run tick after tick alone while another has not reached new_grant_dl.  *)
(*                                                                         *)
(* Tick t of the receive chain is tti t - 1 of the ordering chain; the tti *)
(* period is longer than the run, so the counter does not wrap here        *)
(* (txorder_wrap and rx_wrap_double are about the wraps).                  *)
(***************************************************************************)
EXTENDS Integers, Sequences, FiniteSets

CONSTANTS
  Workers, NPids, BufCap, ResetDupTimeout, PoolLen, Nodes, Quality, MaxTick,
  NofMutex     \* phch_common::nof_mutex

VARIABLES
  \* receive chain and MAC (SidelinkRx, DlHarq)
  curGrant, isFirstTb, ack, nRetx, isNewTx, payload, softbuf, lock, owner,
  nofPkts, wpc, wgrant, wproc, wen, wack, wtmp, wsnr, snrPsschPerUe,
  snrSamples, rst, delivered, ngrants, nresets, tick, txGen, txTb, rcvd,
  \* worker_end chain (TxOrdering); cpc is its per-worker program counter
  next, wtti, cpc, txEnable, seenFirst, isFirstTx, isFirstOfBurst, locked,
  lastTx, radioOp, continuousTx

R == INSTANCE SidelinkRx
D == INSTANCE DlHarq WITH SiWindowStart <- 0, GrantInput <- {},
                          MaxGrants <- MaxTick + 1, MaxResets <- 0
T == INSTANCE TxOrdering WITH wpc <- cpc, TtiPeriod <- MaxTick + 1

harqVars  == <<curGrant, isFirstTb, ack, nRetx, isNewTx, payload, softbuf,
               lock, owner, nofPkts, wpc, wgrant, wproc, wen, wack, wtmp, wsnr,
               snrPsschPerUe, snrSamples, rst, delivered, ngrants, nresets>>
senderVars == <<tick, txGen, txTb, rcvd>>
rxVars    == <<harqVars, senderVars>>
chainVars == <<next, wtti, cpc, txEnable, seenFirst, isFirstTx, isFirstOfBurst,
               locked, lastTx, radioOp, continuousTx>>
vars == <<rxVars, chainVars>>

Init ==
  /\ R!Init
  /\ T!Init

(* The sync thread hands the next tick to an idle worker, which searches  *)
(* the PSCCH and, with an SCI, starts the MAC calls.                       *)
Dispatch(w) == T!Dispatch(w) /\ R!TickOn(w)

(* new_grant_dl, decode_pssch, the SNR update and tb_decoded.              *)
MacStep(w) == D!WorkerStep(w) /\ UNCHANGED <<senderVars, chainVars>>

(* The rest of work_imp, once the MAC calls are over: signal_ready is set  *)
(* by the transmit path or not.                                            *)
Work(w) == wpc[w] = "idle" /\ T!Work(w) /\ UNCHANGED rxVars

(* worker_end: the is_first_tx test, the lock, the radio call, the unlock. *)
EndStep(w) ==
  /\ \/ T!ReadFirst(w) \/ T!Branch(w) \/ T!Lock(w)
     \/ T!Transmit(w) \/ T!Unlock(w)
  /\ UNCHANGED rxVars

Done ==
  /\ tick > MaxTick
  /\ \A w \in Workers : cpc[w] = "idle"
  /\ UNCHANGED vars

Next ==
  \/ \E w \in Workers : Dispatch(w) \/ MacStep(w) \/ Work(w) \/ EndStep(w)
  \/ \E b \in D!Buffers : D!DemuxFree(b) /\ UNCHANGED <<senderVars, chainVars>>
  \/ Done

(* Weak fairness per worker step, as in DlHarq and TxOrdering; the sync    *)
(* thread hands out a tick every millisecond once a worker is free.        *)
Fairness ==
  /\ \A w \in Workers : WF_vars(MacStep(w)) /\ WF_vars(Work(w)) /\ WF_vars(EndStep(w))
  /\ \A b \in D!Buffers : WF_vars(D!DemuxFree(b) /\ UNCHANGED <<senderVars, chainVars>>)
  /\ WF_vars(\E w \in Workers : Dispatch(w))

Spec == Init /\ [][Next]_vars /\ Fairness

-----------------------------------------------------------------------------
(* Properties                                                              *)

TypeOK == R!TypeOK /\ T!TypeOK

(* No double delivery (spec 8) with several workers: each TB reaches the  *)
(* demux at most once.  It needs the first generation's grant to reach    *)
(* dl_harq before the second's, which only the worker_end chain could     *)
(* ensure, by keeping a worker from taking a new tick before the ticks    *)
(* ahead of it have passed worker_end.                                     *)
NoDoubleDelivery == R!NoDoubleDelivery
=============================================================================
