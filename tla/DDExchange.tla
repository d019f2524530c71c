------------------------------ MODULE DDExchange ------------------------------
(***************************************************************************)
(* The database exchange between two routers on one link: Database          *)
(* Description packets (ospfDD.cpp), requests (ospfRequest.cpp), updates and *)
(* acknowledgements as far as they concern the exchange (ospfUpdate.cpp,     *)
(* ospfAck.cpp), over a link that loses and duplicates packets.              *)
(*                                                                         *)
(* Each router's Neighbor object is a record m, and each function of the    *)
(* program that changes it an operator from the old record to the new one;  *)
(* m.out collects the packets it sends.  An LSA stands for one instance, so *)
(* a database either has it or has not.  Slots are always free here: the    *)
(* competition for them is in Adjacency.                                    *)
(***************************************************************************)
EXTENDS Integers, Sequences, FiniteSets

CONSTANTS
    Master, Slave,  \* the routers; Master has the larger router ID
    Lsa,            \* LSA instances, in the order of the database
    Own,            \* Own[r]: the LSAs r has at the start
    Opts,           \* what the uninitialised byte of a DD may hold; usually 0
    MaxHdrs,        \* headers a DD has room for
    MaxReqs,        \* references a request has room for
    SeqMod,         \* n_ddseq counts modulo this number (2^32 in the program)
    Cap,            \* packets under way in one direction
    MaxOdd          \* bound of odd and late together

Router == {Master, Slave}

ASSUME ExchangeAssumption ==
    /\ Master # Slave
    /\ Lsa \subseteq Int /\ IsFiniteSet(Lsa)
    /\ Own \in [Router -> SUBSET Lsa \ {{}}]
    /\ 0 \in Opts
    /\ MaxHdrs \in Nat \ {0} /\ MaxReqs \in Nat \ {0}
    /\ SeqMod \in Nat \ {0, 1}
    /\ Cap \in Nat \ {0} /\ MaxOdd \in Nat

VARIABLES
    rt,     \* rt[r]: r's Neighbor object for the other router, and its database
    chan,   \* chan[r]: the packets on their way to r
    odd,    \* DDs so far whose byte was not 0
    late,   \* steps that were out of time so far
    works   \* from now on the link loses nothing

vars == <<rt, chan, odd, late, works>>

peer(r) == IF r = Master THEN Slave ELSE Master

Seqs == 0..(SeqMod - 1)

DDs == [kind : {"dd"}, init : BOOLEAN, more : BOOLEAN, ms : BOOLEAN,
        seq : Seqs, opts : Opts, hdrs : SUBSET Lsa]
Lists == [kind : {"req", "upd", "ack"}, lsas : SUBSET Lsa]
NoPkt == [kind |-> "none"]

Flooding == {"Exchange", "Loading", "Full"}     \* NBS_FLOOD

Neighbors ==
    [st : {"2Way", "ExStart"} \cup Flooding,    \* n_state
     seq : Seqs,                                \* n_ddseq
     opts : Opts,                               \* n_opts
     more : BOOLEAN,                            \* n_imms & DD_MORE
     pkt : DDs \cup {NoPkt},                    \* n_ddpkt
     ddlist : SUBSET Lsa, reqs : SUBSET Lsa,    \* ddlist, reqlist
     goal : Nat,                                \* req_goal
     sent : BOOLEAN,                            \* database_sent
     ddt : BOOLEAN, holdt : BOOLEAN, lsrt : BOOLEAN,    \* running timers
     rxmt : SUBSET Lsa,                         \* retrans and its sister lists
     db : SUBSET Lsa,                           \* the link state database
     missed : SUBSET Lsa,                       \* not in the last snapshot
     out : Seq(DDs \cup Lists)]                 \* sent by the step in progress

TypeOK ==
    /\ rt \in [Router -> Neighbors]
    /\ chan \in [Router -> Seq(DDs \cup Lists)]
    /\ odd \in Nat /\ late \in Nat /\ odd + late <= MaxOdd + 1 /\ works \in BOOLEAN
    /\ \A r \in Router : rt[r].out = <<>> /\ Len(chan[r]) <= Cap

\* n_ddseq and n_imms are not initialised by Neighbor's constructor.
Init ==
    /\ \E s \in [Router -> Seqs], b \in BOOLEAN :
          rt = [r \in Router |->
                  [st |-> "2Way", seq |-> s[r], opts |-> 0, more |-> b,
                   pkt |-> NoPkt, ddlist |-> {}, reqs |-> {}, goal |-> 0,
                   sent |-> FALSE, ddt |-> FALSE, holdt |-> FALSE,
                   lsrt |-> FALSE, rxmt |-> {}, db |-> Own[r],
                   missed |-> {}, out |-> <<>>]]
    /\ chan = [r \in Router |-> <<>>]
    /\ odd = 0 /\ late = 0
    /\ works = FALSE

-----------------------------------------------------------------------------
(* Sending. *)

Send(m, p) == [m EXCEPT !.out = Append(@, p)]

\* The first k LSAs of a list that is in the order of the database.
First(S, k) == {x \in S : Cardinality({y \in S : y <= x}) <= k}

exchangedone(m) == [m EXCEPT !.st = IF m.reqs = {} THEN "Full" ELSE "Loading"]

\* send_dd in ExStart.
FirstDD(m, o) ==
    LET p == [kind |-> "dd", init |-> TRUE, more |-> TRUE, ms |-> TRUE,
              seq |-> m.seq, opts |-> o, hdrs |-> {}]
    IN  Send([m EXCEPT !.pkt = p, !.sent = FALSE, !.ddt = TRUE], p)

\* send_dd in Exchange.  The slave may thereby have said and heard everything.
NextDD(r, m, o) ==
    LET hdrs == First(m.ddlist, MaxHdrs)
        left == m.ddlist \ hdrs
        p == [kind |-> "dd", init |-> FALSE, more |-> left # {},
              ms |-> r = Master, seq |-> m.seq, opts |-> o, hdrs |-> hdrs]
        s == Send([m EXCEPT !.pkt = p, !.ddlist = left,
                            !.sent = @ \/ left = {},
                            !.ddt = @ \/ r = Master], p)
    IN  IF r = Slave /\ s.sent /\ ~m.more
        THEN [exchangedone(s) EXCEPT !.holdt = TRUE]
        ELSE s

send_req(m) ==
    LET asked == First(m.reqs, MaxReqs)
    IN  IF m.reqs = {} THEN m
        ELSE Send([m EXCEPT !.goal = Cardinality(m.reqs \ asked)],
                  [kind |-> "req", lsas |-> asked])

-----------------------------------------------------------------------------
(* The state changes the exchange is made of. *)

\* AdjTmo, SeqNoMism and BadLSReq: nba_clr_lists, then wait for another turn.
Restart(m) ==
    [m EXCEPT !.st = "2Way", !.pkt = NoPkt, !.ddlist = {}, !.reqs = {},
              !.rxmt = {}, !.sent = FALSE, !.ddt = FALSE, !.holdt = FALSE,
              !.lsrt = FALSE]

\* nba_eval1 or nba_eval2 with a free slot: start_adjacency.
Start(m, o) ==
    FirstDD([m EXCEPT !.st = "ExStart", !.seq = (@ + 1) % SeqMod], o)

\* AddTypesToList walks the ordered list of the table from the root of its
\* tree, wherever the balancing left that root: lesser LSAs are not listed.
Snapshot(db, root) == {x \in db : x >= root}

\* The LSAs that can be the root of a balanced tree of (at most five) LSAs.
Roots(db) ==
    {x \in db : LET below == Cardinality({y \in db : y < x})
                    above == Cardinality({y \in db : y > x})
                IN  below <= 2 * above + 1 /\ above <= 2 * below + 1}

negdone(m, d, root) ==
    LET listed == Snapshot(m.db, root)
    IN  [m EXCEPT !.st = "Exchange", !.opts = d.opts, !.ddlist = listed,
                  !.missed = m.db \ listed]

process_dd(m, hdrs) ==
    LET new == hdrs \ m.db
    IN  [m EXCEPT !.reqs = @ \cup new,
                  !.lsrt = @ \/ (m.reqs = {} /\ new # {})]

\* The end of recv_dd: a DD that is the next one expected.
AcceptDD(r, m, d, o) ==
    LET heard == send_req(process_dd([m EXCEPT !.more = d.more, !.pkt = NoPkt,
                                               !.ddt = FALSE], d.hdrs))
        next == [heard EXCEPT !.seq = IF r = Master THEN (@ + 1) % SeqMod
                                      ELSE d.seq]
    IN  IF r = Master /\ next.sent /\ ~d.more THEN exchangedone(next)
        ELSE IF next.reqs = {} THEN NextDD(r, next, o) ELSE next

\* Mutant: the last request served does not send the next DD.
rmreqSilent(r, m, got, o) ==
    LET s == [m EXCEPT !.reqs = @ \ got]
        done == [s EXCEPT !.lsrt = FALSE]
    IN  IF m.reqs = {} \/ s.reqs # {} THEN s
        ELSE IF m.st = "Loading" THEN [done EXCEPT !.st = "Full"]
        ELSE done

\* ospf_rmreq for requests that arrived: with the last one the exchange goes on.
rmreq(r, m, got, o) ==
    LET s == [m EXCEPT !.reqs = @ \ got]
        done == [s EXCEPT !.lsrt = FALSE]
    IN  IF m.reqs = {} \/ s.reqs # {} THEN s
        ELSE IF m.st = "Loading" THEN [done EXCEPT !.st = "Full"]
        ELSE NextDD(r, done, o)

\* Mutant: a slave that has forgotten its last DD ignores the master's.
retrans_ddMute(m) == IF m.pkt # NoPkt THEN Send(m, m.pkt) ELSE m

retrans_dd(m) ==
    IF m.pkt # NoPkt THEN Send(m, m.pkt)
    ELSE IF m.st = "Full" THEN Restart(m) ELSE m

-----------------------------------------------------------------------------
(* Receiving. *)

\* The sender's idea of who is master is the receiver's.
Agrees(r, d) == ~d.ms <=> r = Master

\* In ExStart: the packet that ends the negotiation.
EndsNegotiation(r, m, d) ==
    /\ Agrees(r, d)
    /\ IF r = Master THEN ~d.init /\ d.seq = m.seq
                     ELSE d.init /\ d.more /\ d.hdrs = {}

Fits(r, m, d) == Agrees(r, d) /\ ~d.init /\ d.opts = m.opts

IsNext(r, m, d) == d.seq = IF r = Master THEN m.seq ELSE (m.seq + 1) % SeqMod

\* The peer's last packet again: the slave repeats its answer to it.
IsRepeated(r, m, d) == d.seq = IF r = Master THEN (m.seq - 1) % SeqMod ELSE m.seq

recv_dd(r, old, d, root, o) ==
    LET m == IF old.st = "2Way" THEN Start(old, o) ELSE old
    IN  IF m.st = "ExStart"
        THEN IF EndsNegotiation(r, m, d)
             THEN AcceptDD(r, negdone(m, d, root), d, o) ELSE m
        ELSE IF ~Fits(r, m, d) THEN Restart(m)
        ELSE IF m.st = "Exchange" /\ IsNext(r, m, d) THEN AcceptDD(r, m, d, o)
        ELSE IF IsRepeated(r, m, d)
             THEN IF r = Slave THEN retrans_dd(m) ELSE m
        ELSE Restart(m)

recv_req(m, asked) ==
    IF asked \subseteq m.db THEN Send(m, [kind |-> "upd", lsas |-> asked])
    ELSE Restart(m)

\* recv_update: new LSAs enter the database and end the requests for them; a
\* known one is an implied acknowledgement, or is acknowledged; a known one
\* that is requested nevertheless means that the exchange went wrong.
recv_update(r, m, lsas, o) ==
    LET new == lsas \ m.db
        wrong == lsas \cap m.db \cap m.reqs
        got == rmreq(r, [m EXCEPT !.db = @ \cup lsas, !.rxmt = @ \ lsas], new, o)
        acks == lsas \ m.rxmt
        acked == IF acks = {} THEN got
                 ELSE Send(got, [kind |-> "ack", lsas |-> acks])
    IN  IF wrong # {} THEN Restart(m)
        ELSE IF acked.reqs # {} /\ Cardinality(acked.reqs) <= acked.goal
             THEN send_req(acked) ELSE acked

\* Mutant: new LSAs are kept from a neighbour that is not Full yet.
floodToFull(r, m, x, o) ==
    LET known == [m EXCEPT !.db = @ \cup {x}]
    IN  IF m.st \notin Flooding THEN known
        ELSE IF x \in m.reqs THEN rmreq(r, known, {x}, o)
        ELSE IF m.st = "Full" THEN [known EXCEPT !.rxmt = @ \cup {x}] ELSE known

\* Mutant: an LSA that comes from elsewhere stays requested.
floodKeepsRequest(r, m, x, o) ==
    LET known == [m EXCEPT !.db = @ \cup {x}]
    IN  IF m.st \notin Flooding THEN known
        ELSE [known EXCEPT !.rxmt = @ \cup {x}]

\* LSA::flood, as far as this neighbour is concerned, for an LSA that came from
\* elsewhere: put on the retransmission list unless the neighbour described it.
flood(r, m, x, o) ==
    LET known == [m EXCEPT !.db = @ \cup {x}]
    IN  IF m.st \notin Flooding THEN known
        ELSE IF x \in m.reqs THEN rmreq(r, known, {x}, o)
        ELSE [known EXCEPT !.rxmt = @ \cup {x}]

receive(r, m, p, root, o) ==
    CASE p.kind = "dd" -> recv_dd(r, m, p, root, o)
      [] p.kind # "dd" /\ m.st \notin Flooding -> m
      [] p.kind = "req" /\ m.st \in Flooding -> recv_req(m, p.lsas)
      [] p.kind = "upd" /\ m.st \in Flooding -> recv_update(r, m, p.lsas, o)
      [] p.kind = "ack" /\ m.st \in Flooding ->
            [m EXCEPT !.rxmt = @ \ (p.lsas \cap m.db)]

-----------------------------------------------------------------------------
(* The steps of the two routers and of the link. *)

\* The program's timers run for seconds (the tick one, if_rxmt five by default),
\* a round trip on one link takes milliseconds.  A timer that expires while
\* something is under way is out of time, as is a packet that arrives twice.
Quiet == \A r \in Router : chan[r] = <<>>

InTime(b) == /\ b \/ odd + late < MaxOdd
             /\ late' = IF b THEN late ELSE late + 1

\* r's record becomes m; of what it sent, the link takes what it has room for.
Become(r, m, inbox) ==
    /\ rt' = [rt EXCEPT ![r] = [m EXCEPT !.out = <<>>]]
    /\ LET line == chan[peer(r)] \o m.out
       IN  chan' = [chan EXCEPT ![r] = inbox,
                                ![peer(r)] = SubSeq(line, 1, IF Len(line) <= Cap
                                                             THEN Len(line) ELSE Cap)]

\* The step that makes m puts o into the byte of the DD it builds.
Byte(o, m) ==
    /\ \/ o = 0
       \/ odd + late < MaxOdd /\ \E i \in DOMAIN m.out : m.out[i].kind = "dd"
    /\ odd' = IF o = 0 THEN odd ELSE odd + 1

Handle(r, inbox) ==
    /\ chan[r] # <<>>
    /\ \E root \in Roots(rt[r].db), o \in Opts :
          LET m == receive(r, rt[r], Head(chan[r]), root, o)
          IN  Byte(o, m) /\ Become(r, m, inbox)

Receive(r) == /\ Handle(r, Tail(chan[r]))
              /\ UNCHANGED <<late, works>>

Duplicate(r) == /\ Handle(r, chan[r])
                /\ InTime(FALSE)
                /\ UNCHANGED works

Lose(r) == /\ ~works
           /\ chan[r] # <<>>
           /\ chan' = [chan EXCEPT ![r] = Tail(@)]
           /\ UNCHANGED <<rt, odd, late, works>>

Timeout(r, m) == /\ Become(r, m, chan[r])
                 /\ InTime(Quiet)
                 /\ UNCHANGED works

\* The tick gives a waiting neighbour its turn.
Tick(r) == /\ rt[r].st = "2Way"
           /\ \E o \in Opts : LET m == Start(rt[r], o)
                              IN  Byte(o, m) /\ Timeout(r, m)

DDTimer(r) == rt[r].ddt /\ Timeout(r, retrans_dd(rt[r])) /\ UNCHANGED odd

LSRTimer(r) == rt[r].lsrt /\ Timeout(r, send_req(rt[r])) /\ UNCHANGED odd

\* LSATimer::action, as far as it sends again what was not acknowledged.
LSATimer(r) ==
    /\ rt[r].rxmt # {}
    /\ Timeout(r, Send(rt[r], [kind |-> "upd", lsas |-> rt[r].rxmt]))
    /\ UNCHANGED odd

HoldTimer(r) ==
    /\ rt[r].holdt
    /\ Timeout(r, [rt[r] EXCEPT !.holdt = FALSE, !.pkt = NoPkt])
    /\ UNCHANGED odd

\* The progress timer; Adjacency has when it runs (StatesGuarded).
ProgressTimer(r) ==
    /\ rt[r].st \in {"ExStart", "Exchange", "Loading"}
    /\ Timeout(r, Restart(rt[r]))
    /\ UNCHANGED odd

Learn(r) == \E x \in Lsa \ rt[r].db, o \in Opts :
                LET m == flood(r, rt[r], x, o)
                IN  /\ Byte(o, m) /\ Become(r, m, chan[r])
                    /\ UNCHANGED <<late, works>>

Retransmission(r) == Tick(r) \/ DDTimer(r) \/ LSRTimer(r) \/ LSATimer(r)

Link(r) == Receive(r) \/ Duplicate(r) \/ Lose(r)

Next == \E r \in Router :
            \/ Link(r) \/ Retransmission(r)
            \/ HoldTimer(r) \/ ProgressTimer(r) \/ Learn(r)

Spec == Init /\ [][Next]_vars

\* The link may stop losing packets.  A router handles what arrives, and timers
\* that are due fire: with strong fairness, as every packet under way disables
\* them for a while.
Repair == ~works /\ works' = TRUE /\ UNCHANGED <<rt, chan, odd, late>>

FairSpec ==
    /\ Init /\ [][Next \/ Repair]_vars
    /\ \A r \in Router :
          /\ WF_vars(Receive(r))
          /\ SF_vars(Quiet /\ Tick(r))
          /\ SF_vars(Quiet /\ DDTimer(r))
          /\ SF_vars(Quiet /\ LSRTimer(r))
          /\ SF_vars(Quiet /\ LSATimer(r))

-----------------------------------------------------------------------------
(* Properties. *)

Full(r) == rt[r].st = "Full"

\* An LSA is requested only while it is missing, whichever way it arrives
\* meanwhile: recv_update's BADLSREQ for a request that a known LSA answers
\* never strikes.
RequestsMissing == \A r \in Router : rt[r].reqs \cap rt[r].db = {}

\* The exchange never waits for a packet that nobody will send again: who
\* negotiates, and the master who has sent a DD, repeats it until the answer;
\* the master owes the next DD only while it requests, and then repeats that,
\* as anybody does exactly while requests are open.
Driven ==
    /\ TypeOK
    /\ \A r \in Router : rt[r].lsrt <=> rt[r].reqs # {}
    /\ \A r \in Router : rt[r].st = "ExStart" => rt[r].ddt /\ rt[r].pkt # NoPkt
    /\ rt[Master].st = "Exchange" =>
          IF rt[Master].reqs = {} THEN rt[Master].ddt /\ rt[Master].pkt # NoPkt
                                  ELSE rt[Master].lsrt

\* As long as all is in time, nothing is lost between two fully adjacent
\* routers: what one has and the other has not is on its retransmission list,
\* or was left out of its snapshot.
Synchronized ==
    late = 0 /\ (\A r \in Router : Full(r)) =>
        \A r \in Router :
            rt[r].db \ rt[peer(r)].db \subseteq rt[r].rxmt \cup rt[r].missed

\* From some time on the link loses nothing, no router gives an exchange up for
\* lack of progress, and none forgets its last DD.
Undisturbed ==
    <>works /\ <>[][\A r \in Router : ~ProgressTimer(r) /\ ~HoldTimer(r)]_vars

\* Then both routers become Full and stay it, wherever the losses and restarts
\* before have left the exchange, and in the end no LSA waits for an
\* acknowledgement.
Converges ==
    Undisturbed => <>[](\A r \in Router : Full(r) /\ rt[r].rxmt = {})

=============================================================================
