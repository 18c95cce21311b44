------------------------------ MODULE MCDlHarq ------------------------------
(***************************************************************************)
(* Model-checking instance of DlHarq: two PHY workers, two HARQ processes  *)
(* plus the BCCH process, one payload buffer (so exhaustion happens), and  *)
(* grants covering the sidelink, C-RNTI and SI-RNTI paths.                 *)
(***************************************************************************)
EXTENDS DlHarq, TLC

WorkerSymmetry == Permutations(Workers)

Tx(t, g, ok) == [tb |-> t, gen |-> g, good |-> ok]

SlGrant(pid, tbs, tti, t, gen, ok) ==
  [kind |-> "SL", pid |-> pid, tbs |-> tbs, ndiPresent |-> FALSE, ndi |-> FALSE,
   rv |-> 0, slTti |-> tti, slGap |-> 5, tx |-> Tx(t, gen, ok)]

MCGrantInput ==
  { \* a sidelink TB on pid 0 in two generations, the first weak
    SlGrant(0, 1, 1, 1, 0, FALSE),
    SlGrant(0, 1, 6, 1, 1, FALSE),
    \* the same retransmission slot with another TBS (a different MCS)
    SlGrant(0, 2, 6, 1, 1, TRUE),
    \* another sidelink TB, on pid 1, decodable alone
    SlGrant(1, 2, 2, 2, 0, TRUE),
    \* a C-RNTI grant with a new NDI for pid 0, and one with a bad pid
    [kind |-> "C", pid |-> 0, tbs |-> 2, ndiPresent |-> TRUE, ndi |-> TRUE,
     rv |-> 0, slTti |-> 0, slGap |-> 0, tx |-> Tx(3, 0, TRUE)],
    [kind |-> "C", pid |-> 2, tbs |-> 2, ndiPresent |-> TRUE, ndi |-> TRUE,
     rv |-> 0, slTti |-> 0, slGap |-> 0, tx |-> Tx(5, 0, TRUE)],
    \* SIB1 without an RV
    [kind |-> "SI", pid |-> 5, tbs |-> 1, ndiPresent |-> FALSE, ndi |-> FALSE,
     rv |-> -1, slTti |-> 0, slGap |-> 0, tx |-> Tx(4, 0, TRUE)] }

(* Sidelink traffic only, as the sidelink work_imp presents it: two TBs    *)
(* from different transmitters, each decodable alone, five subframes       *)
(* apart, so they land on different HARQ processes and the same slot of    *)
(* the per-UE SNR average.                                                 *)
MCSlGrantInput ==
  { SlGrant(1, 2, 2, 2, 0, TRUE),
    SlGrant(0, 1, 7, 6, 0, TRUE) }
=============================================================================
