------------------------------ MODULE Adjacency ------------------------------
(***************************************************************************)
(* One router's neighbours and the competition between them for database   *)
(* exchange slots: the neighbour state machine (NeighborFSM.cpp), the      *)
(* queue of neighbours waiting for a slot (g_adj_head/g_adj_tail), the     *)
(* counters kept on their behalf (local_inits, remote_inits, n_dbx_nbrs),  *)
(* the deletion of DOWN neighbours and the part of the interface state     *)
(* machine that decides which adjacencies are wanted.                      *)
(*                                                                         *)
(* The program is single threaded: a packet or a timer runs one handler to *)
(* its end.  Handlers nest (a Hello changes a neighbour's state, which     *)
(* makes the interface elect a Designated Router, which re-evaluates every *)
(* neighbour), so the model keeps the call stack in "calls".  A handler is *)
(* entered only when the stack is empty; each further step runs the event  *)
(* at the top of the stack and pushes the events that one raises.          *)
(***************************************************************************)
EXTENDS Integers, Sequences, FiniteSets

CONSTANTS
    Nbr,        \* the neighbours that may be heard
    Ifc,        \* the router's interfaces
    ifcOf,      \* ifcOf[n]: the interface neighbour n is reached through
    MaxDDs,     \* OSPF::max_dds, the exchanges each side may start at once
    Self,       \* this router, as Designated Router or Backup
    NoAddr      \* address 0: nobody elected

ASSUME ConstantsAssumption ==
    /\ IsFiniteSet(Nbr)
    /\ ifcOf \in [Nbr -> Ifc]
    /\ Nbr \cap Ifc = {}
    /\ MaxDDs \in Nat
    /\ Self \notin Nbr /\ NoAddr \notin Nbr /\ Self # NoAddr

VARIABLES
    nst,            \* Neighbor::n_state, "None" while no such object exists
    remoteInit,     \* Neighbor::remote_init
    adjPend,        \* Neighbor::n_adj_pend
    reqs,           \* Neighbor::reqlist is not empty
    inactt,         \* Neighbor::inactt is running
    progt,          \* Neighbor::progt is running
    pendq,          \* the list g_adj_head ... g_adj_tail
    localInits,     \* OSPF::local_inits
    remoteInits,    \* OSPF::remote_inits
    dbxNbrs,        \* OSPF::n_dbx_nbrs
    deleteNbrs,     \* OSPF::delete_neighbors
    ifst,           \* Interface::if_state
    dr, bdr,        \* Interface::if_dr, if_bdr
    calls           \* the events in progress, innermost first

nbrVars  == <<nst, remoteInit, adjPend, reqs, inactt, progt>>
slotVars == <<pendq, localInits, remoteInits, dbxNbrs>>
ifcVars  == <<ifst, dr, bdr>>
vars     == <<nbrVars, slotVars, deleteNbrs, ifcVars, calls>>

-----------------------------------------------------------------------------
\* The sets of states the transition table is written with (NeighborFSM.h).
Negotiating == {"ExStart", "Exchange", "Loading"}   \* a slot is held
Exchanging  == {"Exchange", "Loading"}
FLOOD       == Exchanging \cup {"Full"}
ADJFORM     == {"ExStart"} \cup FLOOD
BIDIR       == {"2Way"} \cup ADJFORM
States      == {"Down", "Init"} \cup BIDIR

NbrEvents == {"HelloRcvd", "1WayRcvd", "2WayRcvd", "DDRcvd", "NegDone",
              "ExchangeDone", "LoadingDone", "Eval", "RestartDD", "Kill"}
IfcEvents == {"NChg", "Elect"}

\* A call in progress: the event and the targets it is still to be given to.
\* "Reap" is delete_down_neighbors, "Drain" the loop over the waiting queue.
Events == NbrEvents \cup IfcEvents \cup {"Reap", "Drain"}
Call == [ev : Events, on : SUBSET (Nbr \cup Ifc)]

Raise(e, targets) == <<[ev |-> e, on |-> targets]>>

Idle == calls = <<>>

\* The event on top of the stack is e, and x is among its targets.
Running(e, x) == /\ calls # <<>>
                 /\ Head(calls).ev = e
                 /\ x \in Head(calls).on

\* The stack once the event on top has been given to x and has raised "raised".
Return(x, raised) ==
    LET left == Head(calls).on \ {x}
    IN  calls' = raised \o (IF left = {} THEN <<>> ELSE Raise(Head(calls).ev, left))
                        \o Tail(calls)

NbrsOf(i) == {n \in Nbr : ifcOf[n] = i}

TypeOK ==
    /\ nst \in [Nbr -> States \cup {"None"}]
    /\ remoteInit \in [Nbr -> BOOLEAN]
    /\ adjPend \in [Nbr -> BOOLEAN]
    /\ reqs \in [Nbr -> BOOLEAN]
    /\ inactt \in [Nbr -> BOOLEAN]
    /\ progt \in [Nbr -> BOOLEAN]
    /\ pendq \in Seq(Nbr)
    /\ localInits \in Int /\ remoteInits \in Int /\ dbxNbrs \in Int
    /\ deleteNbrs \in BOOLEAN
    /\ ifst \in [Ifc -> {"Down", "Wait", "Other", "Backup", "DR"}]
    /\ dr \in [Ifc -> Nbr \cup {Self, NoAddr}]
    /\ bdr \in [Ifc -> Nbr \cup {Self, NoAddr}]
    /\ calls \in Seq(Call)

Init ==
    /\ nst = [n \in Nbr |-> "None"]
    /\ remoteInit = [n \in Nbr |-> FALSE]
    /\ adjPend = [n \in Nbr |-> FALSE]
    /\ reqs = [n \in Nbr |-> FALSE]
    /\ inactt = [n \in Nbr |-> FALSE]
    /\ progt = [n \in Nbr |-> FALSE]
    /\ pendq = <<>>
    /\ localInits = 0 /\ remoteInits = 0 /\ dbxNbrs = 0
    /\ deleteNbrs = FALSE
    /\ ifst = [i \in Ifc |-> "Down"]
    /\ dr = [i \in Ifc |-> NoAddr]
    /\ bdr = [i \in Ifc |-> NoAddr]
    /\ calls = <<>>

-----------------------------------------------------------------------------
(* The queue of neighbours waiting for a slot. *)

\* Wrong variants of the definitions are marked "Mutant": each is the slip its
\* comment names, and the run that checks the property at stake must find it.

\* Mutant: the freed entry is emptied but not unlinked.
WithoutUnlinking(q, n) == [k \in DOMAIN q |-> IF q[k] = n THEN NoAddr ELSE q[k]]

\* Mutant: g_adj_head is not moved on when the first entry is unlinked.
WithoutKeepingHead(q, n) == SelectSeq(q, LAMBDA m : m # n \/ m = Head(q))

\* The queue without the neighbour n (DelPendAdj unlinks the first entry it
\* meets; QueueSound says that there is only one).
Without(q, n) ==
    IF \E k \in 1..Len(q) : q[k] = n
    THEN LET k == CHOOSE k \in 1..Len(q) : q[k] = n
         IN  [j \in 1..(Len(q) - 1) |-> IF j < k THEN q[j] ELSE q[j + 1]]
    ELSE q

AddPendAdj(n) ==
    /\ pendq' = IF adjPend[n] THEN pendq ELSE Append(pendq, n)
    /\ adjPend' = [adjPend EXCEPT ![n] = TRUE]

DelPendAdj(n) ==
    /\ pendq' = IF adjPend[n] THEN Without(pendq, n) ELSE pendq
    /\ adjPend' = [adjPend EXCEPT ![n] = FALSE]

adjacency_wanted(n) ==
    \/ ifst[ifcOf[n]] \in {"DR", "Backup"}
    \/ dr[ifcOf[n]] = n
    \/ bdr[ifcOf[n]] = n

-----------------------------------------------------------------------------
(* The pieces the events of the neighbour state machine are made of. *)

\* Mutant: the boundary that concerns the interface is taken one state too high.
TellIfcAboveTwoWay(n, new) ==
    IF (nst[n] \in ADJFORM) # (new \in ADJFORM)
    THEN Raise("NChg", {ifcOf[n]})
    ELSE <<>>

\* nbr_fsm's last lines: 2-Way was reached or lost, the interface is told.
TellIfc(n, new) ==
    IF (nst[n] \in BIDIR) # (new \in BIDIR)
    THEN Raise("NChg", {ifcOf[n]})
    ELSE <<>>

\* Mutant: remote_init is left set when the slot is given back.
exit_dbxchgKeepsFlag(n) ==
    /\ remoteInits' = IF remoteInit[n] THEN remoteInits - 1 ELSE remoteInits
    /\ localInits' = IF remoteInit[n] THEN localInits ELSE localInits - 1
    /\ UNCHANGED remoteInit

exit_dbxchg(n) ==
    /\ remoteInits' = IF remoteInit[n] THEN remoteInits - 1 ELSE remoteInits
    /\ localInits' = IF remoteInit[n] THEN localInits ELSE localInits - 1
    /\ remoteInit' = [remoteInit EXCEPT ![n] = FALSE]

\* Mutant: the progress timer is left running.
GiveUpKeepsTimer(n, new) ==
    /\ nst' = [nst EXCEPT ![n] = new]
    /\ IF nst[n] \in Negotiating
       THEN exit_dbxchg(n)
       ELSE UNCHANGED <<remoteInits, localInits, remoteInit>>
    /\ dbxNbrs' = IF nst[n] \in Exchanging THEN dbxNbrs - 1 ELSE dbxNbrs
    /\ reqs' = [reqs EXCEPT ![n] = FALSE]
    /\ UNCHANGED progt

\* The neighbour drops to 2-Way or below.  A slot held is given back; one held
\* in Exchange or Loading also stops counting as a database exchange.
GiveUp(n, new) ==
    /\ nst' = [nst EXCEPT ![n] = new]
    /\ IF nst[n] \in Negotiating
       THEN exit_dbxchg(n)
       ELSE UNCHANGED <<remoteInits, localInits, remoteInit>>
    /\ dbxNbrs' = IF nst[n] \in Exchanging THEN dbxNbrs - 1 ELSE dbxNbrs
    /\ reqs' = [reqs EXCEPT ![n] = FALSE]
    /\ progt' = [progt EXCEPT ![n] = FALSE]

\* Mutant: start_adjacency leaves the neighbour in the queue.
TakeSlotStillQueued(n, remote) ==
    /\ nst' = [nst EXCEPT ![n] = "ExStart"]
    /\ remoteInits' = IF remote THEN remoteInits + 1 ELSE remoteInits
    /\ localInits' = IF remote THEN localInits ELSE localInits + 1
    /\ remoteInit' = [remoteInit EXCEPT ![n] = remote]
    /\ progt' = [progt EXCEPT ![n] = TRUE]
    /\ UNCHANGED <<reqs, inactt, dbxNbrs, deleteNbrs, pendq, adjPend>>
    /\ Return(n, TellIfc(n, "ExStart"))

\* nba_eval1 and nba_eval2 find a free slot and start_adjacency.
TakeSlot(n, remote) ==
    /\ nst' = [nst EXCEPT ![n] = "ExStart"]
    /\ IF remote
       THEN /\ remoteInits' = remoteInits + 1
            /\ remoteInit' = [remoteInit EXCEPT ![n] = TRUE]
            /\ UNCHANGED localInits
       ELSE /\ localInits' = localInits + 1
            /\ UNCHANGED <<remoteInits, remoteInit>>
    /\ DelPendAdj(n)
    /\ progt' = [progt EXCEPT ![n] = TRUE]
    /\ UNCHANGED <<reqs, inactt, dbxNbrs, deleteNbrs>>
    /\ Return(n, TellIfc(n, "ExStart"))

\* The neighbour stays or becomes 2-Way without a slot.
StayTwoWay(n) ==
    /\ nst' = [nst EXCEPT ![n] = "2Way"]
    /\ UNCHANGED <<remoteInit, reqs, inactt, progt, localInits, remoteInits,
                   dbxNbrs, deleteNbrs>>
    /\ Return(n, TellIfc(n, "2Way"))

nba_eval1(n) ==
    \/ /\ ~adjacency_wanted(n)
       /\ DelPendAdj(n)
       /\ StayTwoWay(n)
    \/ /\ adjacency_wanted(n) /\ localInits < MaxDDs
       /\ TakeSlot(n, FALSE)
    \/ /\ adjacency_wanted(n) /\ localInits >= MaxDDs
       /\ AddPendAdj(n)
       /\ StayTwoWay(n)

nba_eval2(n) ==
    \/ /\ ~adjacency_wanted(n)
       /\ UNCHANGED <<pendq, adjPend>>
       /\ StayTwoWay(n)
    \/ /\ adjacency_wanted(n) /\ remoteInits < MaxDDs
       /\ TakeSlot(n, TRUE)
    \/ /\ adjacency_wanted(n) /\ remoteInits >= MaxDDs
       /\ AddPendAdj(n)
       /\ StayTwoWay(n)

-----------------------------------------------------------------------------
(* One action per event of the neighbour state machine.  An event no row of *)
(* the table covers in the present state changes nothing.                   *)

Ignored(n) == /\ Return(n, <<>>)
              /\ UNCHANGED <<nbrVars, slotVars, deleteNbrs>>

NbrHelloRcvd(n) ==
    /\ Running("HelloRcvd", n)
    /\ \/ /\ nst[n] = "Down"
          /\ nst' = [nst EXCEPT ![n] = "Init"]
          /\ inactt' = [inactt EXCEPT ![n] = TRUE]
          /\ Return(n, <<>>)
          /\ UNCHANGED <<remoteInit, adjPend, reqs, progt, slotVars, deleteNbrs>>
       \/ nst[n] # "Down" /\ Ignored(n)
    /\ UNCHANGED ifcVars

Nbr1WayRcvd(n) ==
    /\ Running("1WayRcvd", n)
    /\ \/ /\ nst[n] \in BIDIR
          /\ GiveUp(n, "Init")
          /\ DelPendAdj(n)
          /\ Return(n, TellIfc(n, "Init"))
          /\ UNCHANGED <<inactt, deleteNbrs>>
       \/ nst[n] \notin BIDIR /\ Ignored(n)
    /\ UNCHANGED ifcVars

Nbr2WayRcvd(n) ==
    /\ Running("2WayRcvd", n)
    /\ \/ nst[n] = "Init" /\ nba_eval1(n)
       \/ nst[n] # "Init" /\ Ignored(n)
    /\ UNCHANGED ifcVars

NbrDDRcvd(n) ==
    /\ Running("DDRcvd", n)
    /\ \/ nst[n] \in {"Init", "2Way"} /\ nba_eval2(n)
       \/ nst[n] \notin {"Init", "2Way"} /\ Ignored(n)
    /\ UNCHANGED ifcVars

NbrNegDone(n) ==
    /\ Running("NegDone", n)
    /\ \/ /\ nst[n] = "ExStart"
          /\ nst' = [nst EXCEPT ![n] = "Exchange"]
          /\ dbxNbrs' = dbxNbrs + 1
          /\ Return(n, <<>>)
          /\ UNCHANGED <<remoteInit, adjPend, reqs, inactt, progt, pendq,
                         localInits, remoteInits, deleteNbrs>>
       \/ nst[n] # "ExStart" /\ Ignored(n)
    /\ UNCHANGED ifcVars

\* nbr_fsm for a transition to Full: the exchange is over and its slot free.
BecomeFull(n) ==
    /\ nst' = [nst EXCEPT ![n] = "Full"]
    /\ dbxNbrs' = dbxNbrs - 1
    /\ progt' = [progt EXCEPT ![n] = FALSE]
    /\ exit_dbxchg(n)
    /\ UNCHANGED <<adjPend, reqs, inactt, pendq, deleteNbrs>>

NbrExchangeDone(n) ==
    /\ Running("ExchangeDone", n)
    /\ \/ /\ nst[n] = "Exchange" /\ ~reqs[n]
          /\ BecomeFull(n)
          /\ Return(n, <<>>)
       \/ /\ nst[n] = "Exchange" /\ reqs[n]
          /\ nst' = [nst EXCEPT ![n] = "Loading"]
          /\ Return(n, <<>>)
          /\ UNCHANGED <<remoteInit, adjPend, reqs, inactt, progt, slotVars,
                         deleteNbrs>>
       \/ nst[n] # "Exchange" /\ Ignored(n)
    /\ UNCHANGED ifcVars

NbrLoadingDone(n) ==
    /\ Running("LoadingDone", n)
    /\ \/ /\ nst[n] = "Loading"
          /\ BecomeFull(n)
          /\ Return(n, <<>>)
       \/ nst[n] # "Loading" /\ Ignored(n)
    /\ UNCHANGED ifcVars

NbrEval(n) ==
    /\ Running("Eval", n)
    /\ \/ nst[n] = "2Way" /\ nba_eval1(n)
       \/ /\ nst[n] \in ADJFORM /\ ~adjacency_wanted(n)
          /\ GiveUp(n, "2Way")
          /\ DelPendAdj(n)
          /\ Return(n, <<>>)
          /\ UNCHANGED <<inactt, deleteNbrs>>
       \/ /\ nst[n] # "2Way"
          /\ nst[n] \notin ADJFORM \/ adjacency_wanted(n)
          /\ Ignored(n)
    /\ UNCHANGED ifcVars

\* Mutant: a failed neighbour is not queued up again.
NbrRestartDDForgets(n) ==
    /\ Running("RestartDD", n)
    /\ \/ /\ nst[n] \in ADJFORM
          /\ GiveUp(n, "2Way")
          /\ DelPendAdj(n)
          /\ Return(n, <<>>)
          /\ UNCHANGED <<inactt, deleteNbrs>>
       \/ nst[n] \notin ADJFORM /\ Ignored(n)
    /\ UNCHANGED ifcVars

\* Mutant: a failed neighbour goes to the head of the queue.
NbrRestartDDFirst(n) ==
    /\ Running("RestartDD", n)
    /\ \/ /\ nst[n] \in ADJFORM
          /\ GiveUp(n, "2Way")
          /\ pendq' = <<n>> \o (IF adjPend[n] THEN Without(pendq, n) ELSE pendq)
          /\ adjPend' = [adjPend EXCEPT ![n] = TRUE]
          /\ Return(n, <<>>)
          /\ UNCHANGED <<inactt, deleteNbrs>>
       \/ nst[n] \notin ADJFORM /\ Ignored(n)
    /\ UNCHANGED ifcVars

\* AdjTmo, SeqNoMism and BadLSReq share one row: clear the lists, fall back to
\* 2-Way and queue up for another attempt.
NbrRestartDD(n) ==
    /\ Running("RestartDD", n)
    /\ \/ /\ nst[n] \in ADJFORM
          /\ GiveUp(n, "2Way")
          /\ pendq' = Append(IF adjPend[n] THEN Without(pendq, n) ELSE pendq, n)
          /\ adjPend' = [adjPend EXCEPT ![n] = TRUE]
          /\ Return(n, <<>>)
          /\ UNCHANGED <<inactt, deleteNbrs>>
       \/ nst[n] \notin ADJFORM /\ Ignored(n)
    /\ UNCHANGED ifcVars

\* KillNbr and Inactive share one row: the neighbour is Down and is deleted by
\* a later tick.
NbrKill(n) ==
    /\ Running("Kill", n)
    /\ GiveUp(n, "Down")
    /\ DelPendAdj(n)
    /\ inactt' = [inactt EXCEPT ![n] = FALSE]
    /\ deleteNbrs' = TRUE
    /\ Return(n, TellIfc(n, "Down"))
    /\ UNCHANGED ifcVars

NbrStep(n) ==
    \/ NbrHelloRcvd(n) \/ Nbr1WayRcvd(n) \/ Nbr2WayRcvd(n) \/ NbrDDRcvd(n)
    \/ NbrNegDone(n) \/ NbrExchangeDone(n) \/ NbrLoadingDone(n)
    \/ NbrEval(n) \/ NbrRestartDD(n) \/ NbrKill(n)

-----------------------------------------------------------------------------
(* The interface events.  Which routers win the election is left open here: *)
(* any two of this router, a 2-Way neighbour and nobody (Election has the   *)
(* algorithm).                                                              *)

ifa_elect(i, d, b) ==
    /\ dr' = [dr EXCEPT ![i] = d]
    /\ bdr' = [bdr EXCEPT ![i] = b]
    /\ ifst' = [ifst EXCEPT ![i] = IF d = Self THEN "DR"
                                   ELSE IF b = Self THEN "Backup" ELSE "Other"]
    /\ Return(i, LET present == {n \in NbrsOf(i) : nst[n] # "None"}
                 IN  IF present = {} THEN <<>> ELSE Raise("Eval", present))

Winners(i) == {n \in NbrsOf(i) : nst[n] \in BIDIR} \cup {Self, NoAddr}

IfcNChg(i) ==
    /\ Running("NChg", i)
    /\ \/ /\ ifst[i] \in {"Other", "Backup", "DR"}
          /\ \E d, b \in Winners(i) : ifa_elect(i, d, b)
       \/ /\ ifst[i] \in {"Down", "Wait"}
          /\ Return(i, <<>>)
          /\ UNCHANGED ifcVars
    /\ UNCHANGED <<nbrVars, slotVars, deleteNbrs>>

\* BackupSeen and the end of the wait timer: only Waiting reacts.
IfcElect(i) ==
    /\ Running("Elect", i)
    /\ \/ /\ ifst[i] = "Wait"
          /\ \E d, b \in Winners(i) : ifa_elect(i, d, b)
       \/ /\ ifst[i] # "Wait"
          /\ Return(i, <<>>)
          /\ UNCHANGED ifcVars
    /\ UNCHANGED <<nbrVars, slotVars, deleteNbrs>>

-----------------------------------------------------------------------------
(* The second half of the one second tick (DBageTimer::action). *)

\* delete_down_neighbors reaches n: a Down neighbour's object is destroyed, and
\* its destructor's KillNbr clears the lists and sets the flag once more.
Reap(n) ==
    /\ Running("Reap", n)
    /\ \/ /\ nst[n] = "Down"
          /\ GiveUp(n, "None")
          /\ DelPendAdj(n)
          /\ inactt' = [inactt EXCEPT ![n] = FALSE]
          /\ deleteNbrs' = TRUE
          /\ Return(n, <<>>)
       \/ nst[n] # "Down" /\ Ignored(n)
    /\ UNCHANGED ifcVars

\* Mutant: the loop over the queue does not look at local_inits.
DrainWithoutLimit ==
    /\ calls # <<>> /\ Head(calls).ev = "Drain"
    /\ \/ /\ pendq # <<>>
          /\ pendq' = Tail(pendq)
          /\ adjPend' = [adjPend EXCEPT ![Head(pendq)] = FALSE]
          /\ calls' = Raise("Eval", {Head(pendq)}) \o calls
       \/ /\ pendq = <<>>
          /\ calls' = Tail(calls)
          /\ UNCHANGED <<pendq, adjPend>>
    /\ UNCHANGED <<nst, remoteInit, reqs, inactt, progt, localInits,
                   remoteInits, dbxNbrs, deleteNbrs, ifcVars>>

\* while (local_inits < max_dds) take the neighbour that waited longest.
Drain ==
    /\ calls # <<>> /\ Head(calls).ev = "Drain"
    /\ \/ /\ localInits < MaxDDs /\ pendq # <<>>
          /\ pendq' = Tail(pendq)
          /\ adjPend' = [adjPend EXCEPT ![Head(pendq)] = FALSE]
          /\ calls' = Raise("Eval", {Head(pendq)}) \o calls
       \/ /\ localInits >= MaxDDs \/ pendq = <<>>
          /\ calls' = Tail(calls)
          /\ UNCHANGED <<pendq, adjPend>>
    /\ UNCHANGED <<nst, remoteInit, reqs, inactt, progt, localInits,
                   remoteInits, dbxNbrs, deleteNbrs, ifcVars>>

\* A step of the handler in progress.
Step == \/ \E n \in Nbr : NbrStep(n) \/ Reap(n)
        \/ \E i \in Ifc : IfcNChg(i) \/ IfcElect(i)
        \/ Drain

-----------------------------------------------------------------------------
(* The handlers: what a packet or a timer starts when nothing is running. *)

Enter(call) == /\ Idle
               /\ calls' = call

\* Interface::recv_hello.  listed: the sender lists this router; priChange: its
\* priority is not the recorded one; change: its ID or its choice of DR or BDR
\* is new; seen: a Waiting interface learns of a BDR (or of a DR without one).
RecvHello(n, listed, priChange, change, seen) ==
    /\ ifst[ifcOf[n]] # "Down"
    /\ seen => ifst[ifcOf[n]] = "Wait"
    /\ ~listed => ~priChange /\ ~change /\ ~seen
    /\ Enter(Raise("HelloRcvd", {n})
             \o (IF listed
                 THEN Raise("2WayRcvd", {n})
                      \o (IF priChange THEN Raise("Eval", {n}) ELSE <<>>)
                      \o (IF seen THEN Raise("Elect", {ifcOf[n]})
                          ELSE IF priChange \/ change
                               THEN Raise("NChg", {ifcOf[n]}) ELSE <<>>)
                 ELSE Raise("1WayRcvd", {n})
                      \o (IF nst[n] \in {"None", "Down"}
                          THEN Raise("Eval", {n}) ELSE <<>>)))
    /\ nst' = [nst EXCEPT ![n] = IF @ = "None" THEN "Down" ELSE @]
    /\ UNCHANGED <<remoteInit, adjPend, reqs, inactt, progt, slotVars,
                   deleteNbrs, ifcVars>>

Unchanged == UNCHANGED <<nbrVars, slotVars, deleteNbrs, ifcVars>>

\* recv_dd in the states up to ExStart.
RecvFirstDD(n) ==
    /\ nst[n] \in {"Init", "2Way"}
    /\ Enter(Raise("DDRcvd", {n}))
    /\ Unchanged

RecvNegotiation(n) ==
    /\ nst[n] = "ExStart"
    /\ Enter(Raise("NegDone", {n}))
    /\ Unchanged

\* process_dd lists something this router must request.
RecvNews(n) ==
    /\ Idle
    /\ nst[n] = "Exchange" /\ ~reqs[n]
    /\ reqs' = [reqs EXCEPT ![n] = TRUE]
    /\ UNCHANGED <<nst, remoteInit, adjPend, inactt, progt, slotVars,
                   deleteNbrs, ifcVars, calls>>

\* recv_dd or send_dd: both sides have described their whole database.
AllDescribed(n) ==
    /\ nst[n] = "Exchange"
    /\ Enter(Raise("ExchangeDone", {n}))
    /\ Unchanged

\* ospf_rmreq: the last requested LSA has arrived.
LastRequestServed(n) ==
    /\ Idle
    /\ nst[n] \in Exchanging /\ reqs[n]
    /\ reqs' = [reqs EXCEPT ![n] = FALSE]
    /\ calls' = IF nst[n] = "Loading" THEN Raise("LoadingDone", {n}) ELSE <<>>
    /\ UNCHANGED <<nst, remoteInit, adjPend, inactt, progt, slotVars,
                   deleteNbrs, ifcVars>>

\* A DD that does not fit, or a request or an update that shows disagreement.
RecvMismatch(n) ==
    /\ nst[n] \in FLOOD
    /\ Enter(Raise("RestartDD", {n}))
    /\ Unchanged

\* ProgressTimer::action
AdjTmo(n) ==
    /\ Idle
    /\ progt[n]
    /\ progt' = [progt EXCEPT ![n] = FALSE]
    /\ calls' = Raise("RestartDD", {n})
    /\ UNCHANGED <<nst, remoteInit, adjPend, reqs, inactt, slotVars,
                   deleteNbrs, ifcVars>>

\* InactTimer::action
Inactive(n) ==
    /\ Idle
    /\ inactt[n]
    /\ inactt' = [inactt EXCEPT ![n] = FALSE]
    /\ calls' = Raise("Kill", {n})
    /\ UNCHANGED <<nst, remoteInit, adjPend, reqs, progt, slotVars,
                   deleteNbrs, ifcVars>>

\* WaitTimer::action
WaitOver(i) ==
    /\ ifst[i] = "Wait"
    /\ Enter(Raise("Elect", {i}))
    /\ Unchanged

\* ifc_fsm(IFE_UP) and ifa_start: an interface of priority 0 never waits.
IfUp(i) ==
    /\ Idle
    /\ ifst[i] = "Down"
    /\ \E s \in {"Wait", "Other"} : ifst' = [ifst EXCEPT ![i] = s]
    /\ UNCHANGED <<nbrVars, slotVars, deleteNbrs, dr, bdr, calls>>

\* ifc_fsm(IFE_DOWN) and ifa_reset: every neighbour is killed.
IfDown(i) ==
    /\ ifst[i] # "Down"
    /\ LET present == {n \in NbrsOf(i) : nst[n] # "None"}
       IN  Enter(IF present = {} THEN <<>> ELSE Raise("Kill", present))
    /\ ifst' = [ifst EXCEPT ![i] = "Down"]
    /\ dr' = [dr EXCEPT ![i] = NoAddr]
    /\ bdr' = [bdr EXCEPT ![i] = NoAddr]
    /\ UNCHANGED <<nbrVars, slotVars, deleteNbrs>>

\* DBageTimer::action, the ageing of the database apart.
Tick ==
    LET present == {n \in Nbr : nst[n] # "None"}
    IN  /\ Enter((IF deleteNbrs /\ present # {} THEN Raise("Reap", present) ELSE <<>>)
                 \o Raise("Drain", {}))
        /\ deleteNbrs' = FALSE
        /\ UNCHANGED <<nbrVars, slotVars, ifcVars>>

Hello(n) == \E listed, priChange, change, seen \in BOOLEAN :
                RecvHello(n, listed, priChange, change, seen)

Next ==
    \/ Step
    \/ \E n \in Nbr :
          \/ Hello(n) \/ RecvFirstDD(n) \/ RecvNegotiation(n) \/ RecvNews(n)
          \/ AllDescribed(n) \/ LastRequestServed(n) \/ RecvMismatch(n)
          \/ AdjTmo(n) \/ Inactive(n)
    \/ \E i \in Ifc : WaitOver(i) \/ IfUp(i) \/ IfDown(i)
    \/ Tick

Spec == Init /\ [][Next]_vars

-----------------------------------------------------------------------------
(* Properties. *)

Holders(remote) == {n \in Nbr : nst[n] \in Negotiating /\ remoteInit[n] = remote}

\* The counters agree on every path with the neighbours they count.  local_inits
\* and remote_inits are the numbers of those that hold a slot of that kind: no
\* slot leaks and none is given out twice.  n_dbx_nbrs counts those in Exchange
\* or Loading: exactly when it is 0 may MaxAge LSAs leave the database
\* (free_maxage_lsas).
SlotsCounted ==
    /\ localInits = Cardinality(Holders(FALSE))
    /\ remoteInits = Cardinality(Holders(TRUE))
    /\ localInits <= MaxDDs
    /\ remoteInits <= MaxDDs
    /\ dbxNbrs = Cardinality({n \in Nbr : nst[n] \in Exchanging})

InQueue(n) == \E k \in DOMAIN pendq : pendq[k] = n

\* The waiting queue holds each neighbour at most once, exactly those whose
\* n_adj_pend flag is set, and each of them is alive and 2-Way: GetNextAdj
\* never returns a freed neighbour.
QueueSound ==
    /\ \A j, k \in DOMAIN pendq : pendq[j] = pendq[k] => j = k
    /\ \A n \in Nbr : adjPend[n] <=> InQueue(n)
    /\ \A n \in Nbr : adjPend[n] => nst[n] = "2Way"

\* When no handler is running, every 2-Way neighbour this router wants an
\* adjacency with is waiting for its turn: nobody is forgotten, whatever
\* elections, timeouts, mismatches and resets did to it before.
WantedIsQueued ==
    Idle => \A n \in Nbr : nst[n] = "2Way" /\ adjacency_wanted(n) => adjPend[n]

\* An adjacency being built is guarded by the progress timer, and only that, so
\* a slot cannot be held for ever by a silent neighbour; a neighbour heard of and
\* not yet Down, one revived before it was deleted too, by its inactivity timer.
\* Loading means that something is still requested, and no request outlives
\* Exchange and Loading.
StatesGuarded ==
    Idle => \A n \in Nbr : /\ progt[n] <=> nst[n] \in Negotiating
                           /\ inactt[n] <=> nst[n] \notin {"None", "Down"}
                           /\ nst[n] = "Loading" => reqs[n]
                           /\ reqs[n] => nst[n] \in Exchanging

\* No event in progress is addressed to a neighbour that was freed meanwhile.
NoDanglingCall ==
    \A k \in DOMAIN calls : \A n \in calls[k].on \cap Nbr : nst[n] # "None"

\* The election, reached from inside a neighbour event, re-evaluates every
\* neighbour; no evaluation moves a neighbour across 2-Way, so none starts
\* another election inside the one that is iterating over the neighbour list.
EvalRaisesNothing ==
    [][\A n \in Nbr : Running("Eval", n) => Len(calls') <= Len(calls)]_vars

\* A handler once entered comes to its end.
HandlersTerminate == (~Idle) ~> Idle

-----------------------------------------------------------------------------
(* Fairness.  The main loop always finishes the handler it is in and always  *)
(* comes back to the timer queue, where the one second tick is an interval   *)
(* timer that is never stopped.  Strong fairness of Tick because every other *)
(* handler disables it for as long as it runs.                               *)
FairSpec == Spec /\ WF_vars(Step) /\ SF_vars(Tick)

\* Routers stop coming, going and changing what they say in their Hellos.  (An
\* election, even one with an unchanged result, may hand the free slot to a
\* neighbour that is not at the head of the queue: a run of TLC without this
\* condition shows one waiting for ever behind changing Hellos.)
Settled ==
    <>[][/\ {n \in Nbr : nst'[n] \in BIDIR} = {n \in Nbr : nst[n] \in BIDIR}
         /\ UNCHANGED ifcVars
         /\ \A n \in Nbr, p, c, s \in BOOLEAN :
               p \/ c \/ s => ~RecvHello(n, TRUE, p, c, s)]_vars

\* A progress timer does not run for ever: the exchange ends or it fires.
SlotsComeFree == \A n \in Nbr : []<>(~progt[n])

\* Then whoever waits in the queue is served: the tick hands free slots out in
\* the order of arrival, and a neighbour that failed goes back to the tail.
PendingServed ==
    Settled /\ SlotsComeFree =>
        \A n \in Nbr : [](adjPend[n] => <>(~adjPend[n]))

=============================================================================
