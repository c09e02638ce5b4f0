----------------------------- MODULE MCCombiner -----------------------------
(***************************************************************************)
(* An instance for TLC of the combiner, and of the ring with one producer  *)
(* and one consumer, who may use the relaxed operations.  A behaviour is   *)
(* one of the combiner or one of the ring, the other part does not move.   *)
(***************************************************************************)
EXTENDS Combiner, TLC

CONSTANTS p1, c1, v1, v2

VARIABLES
    part,                                                   \* the part that moves
    rhead, rtail, rlock, rdata, rpc, rpos, rval, log, recv  \* the ring

Ring == INSTANCE MpmcRing WITH
    Producers <- {p1}, Consumers <- {c1}, Values <- {v1, v2}, Size <- 2, MaxStamp <- 4,
    head <- rhead, tail <- rtail, lock <- rlock, data <- rdata,
    pc <- rpc, pos <- rpos, val <- rval

combinerVars == <<head, tail, lock, data, pc, pos, cur, req, accepted, executed, calls, served>>
ringVars == <<rhead, rtail, rlock, rdata, rpc, rpos, rval, log, recv>>
allVars == <<part, combinerVars, ringVars>>

(* What the nodes and the threads of the ring hold at first matters only   *)
(* to the ring.                                                            *)
InitParts ==
    /\ part \in {"combiner", "ring"} /\ Init /\ Ring!Init
    /\ part = "combiner" => rdata = [i \in 0 .. 1 |-> v1] /\ rval = [t \in {p1, c1} |-> v1]
NextCombiner == part = "combiner" /\ Next /\ UNCHANGED <<part, ringVars>>
NextRing == part = "ring" /\ Ring!Next /\ UNCHANGED <<part, combinerVars>>

(* The fairness of Combiner and of MpmcRing, each if it is what moves.     *)
FairParts ==
    /\ InitParts /\ [][NextCombiner \/ NextRing]_allVars
    /\ \A t \in Callers : WF_allVars(part = "combiner" /\ Step(t) /\ UNCHANGED <<part, ringVars>>)
    /\ \A t \in {p1, c1} : WF_allVars(part = "ring" /\ Ring!Continue(t) /\ UNCHANGED <<part, combinerVars>>)

(* Properties of mm_ring_spmc_enqueue_n, mm_ring_mpsc_dequeue_n and the    *)
(* other operations, see MpmcRing.                                         *)
PairedStampDelivered == Ring!PairedStampDelivered
=============================================================================
