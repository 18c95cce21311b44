---------------------------- MODULE HarqProcessSpec ----------------------------
(***************************************************************************)
(* What a receive HARQ process promises (spec 4.5 and 5), independent of   *)
(* how dl_harq.cc decides between a new transmission and a retransmission: *)
(*                                                                         *)
(*  - a worker handles a grant for a process only while it holds that      *)
(*    process's lock, and one worker at a time holds it;                  *)
(*  - while it holds the lock it may start the soft buffer afresh, combine *)
(*    one received generation into it, and deliver;                        *)
(*  - a delivery is a generation of the transport block the soft buffer    *)
(*    holds, and only when that buffer decodes;                            *)
(*  - a reset clears the soft buffer of a process nobody holds.            *)
(*                                                                         *)
(* The decode criterion is the external FEC primitive's (spec 6): a        *)
(* parameter of this module.                                               *)
(***************************************************************************)
EXTENDS Sequences

CONSTANTS
  Workers,        \* the PHY worker threads
  Procs,          \* the HARQ processes
  Txs,            \* the generations the PHY may receive
  None,           \* no worker holds the process
  Decodable(_)    \* the soft-buffer contents the decoder accepts

VARIABLES
  holder,     \* the worker holding each process, or None
  soft,       \* the generations combined in each process's soft buffer
  delivered   \* the generations handed to the demux, with their process

vars == <<holder, soft, delivered>>

Init ==
  /\ holder = [p \in Procs |-> None]
  /\ soft = [p \in Procs |-> {}]
  /\ delivered = <<>>

(* new_grant_dl: take the lock; the soft buffer is kept or started afresh. *)
Take(w, p) ==
  /\ holder[p] = None
  /\ holder' = [holder EXCEPT ![p] = w]
  /\ \/ UNCHANGED soft
     \/ soft' = [soft EXCEPT ![p] = {}]
  /\ UNCHANGED delivered

(* The decoder combines a received generation into the held soft buffer.   *)
Combine(w, p) ==
  /\ holder[p] = w
  /\ \E x \in Txs : soft' = [soft EXCEPT ![p] = @ \cup {x}]
  /\ UNCHANGED <<holder, delivered>>

(* tb_decoded with success: hand over a generation of the decoded TB; the  *)
(* lock may be released in the same step or later.                         *)
Deliver(w, p) ==
  /\ holder[p] = w
  /\ Decodable(soft[p])
  /\ \E x \in soft[p] : delivered' = Append(delivered, [tx |-> x, proc |-> p])
  /\ holder' \in {holder, [holder EXCEPT ![p] = None]}
  /\ UNCHANGED soft

(* tb_decoded without a delivery: release the lock.                        *)
Release(w, p) ==
  /\ holder[p] = w
  /\ holder' = [holder EXCEPT ![p] = None]
  /\ UNCHANGED <<soft, delivered>>

(* reset: clear a process nobody holds.                                     *)
Clear(p) ==
  /\ holder[p] = None
  /\ soft' = [soft EXCEPT ![p] = {}]
  /\ UNCHANGED <<holder, delivered>>

Next ==
  \/ \E w \in Workers, p \in Procs :
       Take(w, p) \/ Combine(w, p) \/ Deliver(w, p) \/ Release(w, p)
  \/ \E p \in Procs : Clear(p)

Spec == Init /\ [][Next]_vars
================================================================================
