-------------------------- MODULE DDExchangeProofs --------------------------
(***************************************************************************)
(* Theorems about DDExchange, for any LSAs, packet sizes, bounds of the link  *)
(* and number of steps out of time: only what is missing is requested, and    *)
(* whoever owes a packet has what makes it send one again.                  *)
(*                                                                         *)
(* Each function of the program is an operator on a Neighbor record, and has   *)
(* a lemma that says what it makes of a record in order.                     *)
(***************************************************************************)
EXTENDS DDExchange, FiniteSetTheorems, TLAPS

Pkts == DDs \cup Lists

\* What is true of a record also in the middle of a handler.
Consistent(m) ==
    /\ m \in Neighbors
    /\ m.reqs \cap m.db = {}
    /\ m.lsrt <=> m.reqs # {}
    /\ m.st \notin Flooding => m.reqs = {}
    /\ m.holdt => m.st \in {"Loading", "Full"}

\* Whoever is to send the next packet has a timer that will, and the packet.
Driving(r, m) ==
    /\ m.st = "ExStart" => m.ddt /\ m.pkt # NoPkt
    /\ r = Master /\ m.st = "Exchange" /\ m.reqs = {} => m.ddt /\ m.pkt # NoPkt

Good(r, m) == Consistent(m) /\ Driving(r, m)

\* The same but for what has been sent and how much of the requests.
Alike(s, m) ==
    /\ s.st = m.st /\ s.seq = m.seq /\ s.opts = m.opts /\ s.more = m.more
    /\ s.pkt = m.pkt /\ s.ddlist = m.ddlist /\ s.reqs = m.reqs /\ s.sent = m.sent
    /\ s.ddt = m.ddt /\ s.holdt = m.holdt /\ s.lsrt = m.lsrt /\ s.rxmt = m.rxmt
    /\ s.db = m.db /\ s.missed = m.missed

LEMMA AlikeIs ==
    ASSUME NEW m, NEW s \in Neighbors, Alike(s, m), Consistent(m), NEW r
    PROVE  Consistent(s) /\ (Driving(r, m) => Driving(r, s))
BY DEF Alike, Consistent, Driving

-----------------------------------------------------------------------------
(* Numbers, packets and sending. *)

LEMMA SeqIs == ASSUME NEW n \in Int PROVE n % SeqMod \in Seqs
<1>1. SeqMod \in Nat \ {0}
  BY ExchangeAssumption
<1>. QED
  BY <1>1 DEF Seqs

LEMMA DDIs ==
    ASSUME NEW d \in DDs PROVE d # NoPkt /\ d.hdrs \subseteq Lsa /\ d \in Pkts
<1>1. d.kind = "dd" /\ d.hdrs \in SUBSET Lsa
  BY DEF DDs
<1>2. NoPkt.kind = "none"
  BY DEF NoPkt
<1>. QED
  BY <1>1, <1>2 DEF Pkts

LEMMA SendIs ==
    ASSUME NEW m \in Neighbors, NEW p \in Pkts
    PROVE  Send(m, p) \in Neighbors /\ Alike(Send(m, p), m)
<1>. DEFINE q == Append(m.out, p)
            s == Send(m, p)
<1>1. q \in Seq(DDs \cup Lists)
  <2>1. m.out \in Seq(DDs \cup Lists)
    BY DEF Neighbors
  <2>. QED
    BY <2>1 DEF Pkts
<1>2. s = [m EXCEPT !.out = q]
  BY DEF Send
<1>. HIDE DEF q, s
<1>3. s \in Neighbors /\ Alike(s, m)
  BY <1>1, <1>2 DEF Neighbors, Alike
<1>. QED
  BY <1>3 DEF s

LEMMA RequestIs ==
    ASSUME NEW m \in Neighbors
    PROVE  send_req(m) \in Neighbors /\ Alike(send_req(m), m)
<1>. DEFINE asked == First(m.reqs, MaxReqs)
            n == Cardinality(m.reqs \ asked)
            s == [m EXCEPT !.goal = n]
            p == [kind |-> "req", lsas |-> asked]
<1>1. asked \subseteq m.reqs /\ m.reqs \subseteq Lsa
  BY DEF First, Neighbors
<1>2. n \in Nat
  <2>1. IsFiniteSet(m.reqs \ asked)
    BY <1>1, ExchangeAssumption, FS_Subset
  <2>. QED
    BY <2>1, FS_CardinalityType
<1>3. p \in Pkts
  BY <1>1 DEF Pkts, Lists
<1>4. send_req(m) = IF m.reqs = {} THEN m ELSE Send(s, p)
  BY DEF send_req
<1>. HIDE DEF asked, n
<1>5. s \in Neighbors /\ Alike(s, m)
  BY <1>2 DEF Neighbors, Alike
<1>. HIDE DEF s, p
<1>6. Send(s, p) \in Neighbors /\ Alike(Send(s, p), s)
  BY <1>3, <1>5, SendIs
<1>. QED
  BY <1>4, <1>5, <1>6 DEF Alike

\* send_dd in ExStart, on the way there from 2-Way.
LEMMA StartIs ==
    ASSUME NEW m, Consistent(m), m.st = "2Way", NEW o \in Opts, NEW r
    PROVE  Good(r, Start(m, o)) /\ Start(m, o).st = "ExStart"
<1>. DEFINE n == (m.seq + 1) % SeqMod
            a == [m EXCEPT !.st = "ExStart", !.seq = n]
            p == [kind |-> "dd", init |-> TRUE, more |-> TRUE, ms |-> TRUE,
                  seq |-> n, opts |-> o, hdrs |-> {}]
            b == [a EXCEPT !.pkt = p, !.sent = FALSE, !.ddt = TRUE]
<1>1. m \in Neighbors /\ m.seq \in Int
  BY DEF Consistent, Neighbors, Seqs
<1>2. n \in Seqs
  BY <1>1, SeqIs
<1>. HIDE DEF n
<1>3. p \in DDs
  BY <1>2 DEF DDs
<1>4. /\ a \in Neighbors /\ a.st = "ExStart" /\ a.seq = n /\ a.reqs = m.reqs /\ a.db = m.db
      /\ a.lsrt = m.lsrt /\ a.holdt = m.holdt
  BY <1>1, <1>2 DEF Neighbors
<1>5. Start(m, o) = Send(b, p)
  <2>1. Start(m, o) = FirstDD(a, o)
    BY DEF Start, n
  <2>. QED
    BY <1>4, <2>1 DEF FirstDD
<1>. HIDE DEF a, p
<1>6. /\ b \in Neighbors /\ b.st = a.st /\ b.reqs = a.reqs /\ b.db = a.db /\ b.lsrt = a.lsrt
      /\ b.holdt = a.holdt /\ b.ddt = TRUE /\ b.pkt = p
  BY <1>3, <1>4 DEF Neighbors
<1>. HIDE DEF b
<1>7. p # NoPkt /\ p \in Pkts
  BY <1>3, DDIs
<1>8. Send(b, p) \in Neighbors /\ Alike(Send(b, p), b)
  BY <1>6, <1>7, SendIs
<1>9. Good(r, b) /\ b.st = "ExStart"
  BY <1>4, <1>6, <1>7 DEF Good, Consistent, Driving, Flooding
<1>. QED
  BY <1>5, <1>8, <1>9, AlikeIs DEF Good, Alike

LEMMA DoneIs ==
    ASSUME NEW m, Consistent(m), m.st \in Flooding, NEW r
    PROVE  LET s == exchangedone(m)
           IN  Good(r, s) /\ s.st \in {"Loading", "Full"} /\ s.db = m.db /\ s.pkt = m.pkt
<1>. DEFINE st == IF m.reqs = {} THEN "Full" ELSE "Loading"
            s == exchangedone(m)
<1>1. m \in Neighbors /\ st \in {"Loading", "Full"}
  BY DEF Consistent
<1>2. s = [m EXCEPT !.st = st]
  BY DEF exchangedone
<1>. HIDE DEF s, st
<1>3. /\ s \in Neighbors /\ s.st = st /\ s.reqs = m.reqs /\ s.db = m.db /\ s.lsrt = m.lsrt
      /\ s.holdt = m.holdt /\ s.pkt = m.pkt
  BY <1>1, <1>2 DEF Neighbors, Flooding
<1>. QED
  BY <1>1, <1>3 DEF Good, Consistent, Driving, Flooding, s

\* send_dd in Exchange: the master has a packet to repeat now.
LEMMA NextIs ==
    ASSUME NEW r, NEW m, Consistent(m), m.st \in Flooding, NEW o \in Opts
    PROVE  LET s == NextDD(r, m, o)
           IN  Good(r, s) /\ s.st \in Flooding /\ s.db = m.db
<1>. DEFINE hdrs == First(m.ddlist, MaxHdrs)
            left == m.ddlist \ hdrs
            more == left # {}
            ms == r = Master
            p == [kind |-> "dd", init |-> FALSE, more |-> more, ms |-> ms,
                  seq |-> m.seq, opts |-> o, hdrs |-> hdrs]
            sent == m.sent \/ left = {}
            ddt == m.ddt \/ r = Master
            a == [m EXCEPT !.pkt = p, !.ddlist = left, !.sent = sent, !.ddt = ddt]
            s == Send(a, p)
            t == exchangedone(s)
            u == [t EXCEPT !.holdt = TRUE]
<1>1. /\ m \in Neighbors /\ m.seq \in Seqs /\ m.ddlist \in SUBSET Lsa
      /\ m.sent \in BOOLEAN /\ m.ddt \in BOOLEAN
  BY DEF Consistent, Neighbors
<1>2. hdrs \in SUBSET Lsa /\ left \in SUBSET Lsa
  BY <1>1 DEF First
<1>3. more \in BOOLEAN /\ ms \in BOOLEAN /\ sent \in BOOLEAN /\ ddt \in BOOLEAN
  BY <1>1
<1>4. r = Master => ddt
  OBVIOUS
<1>5. NextDD(r, m, o) = IF r = Slave /\ s.sent /\ ~m.more THEN u ELSE s
  BY DEF NextDD
<1>. HIDE DEF hdrs, left, more, ms, sent, ddt
<1>6. p \in DDs
  BY <1>1, <1>2, <1>3 DEF DDs
<1>7. p # NoPkt /\ p \in Pkts
  BY <1>6, DDIs
<1>. HIDE DEF p
<1>8. /\ a \in Neighbors /\ a.st = m.st /\ a.reqs = m.reqs /\ a.db = m.db /\ a.lsrt = m.lsrt
      /\ a.holdt = m.holdt /\ a.ddt = ddt /\ a.pkt = p
  BY <1>1, <1>2, <1>3, <1>6 DEF Neighbors
<1>. HIDE DEF a
<1>9. Good(r, a)
  BY <1>4, <1>7, <1>8 DEF Good, Consistent, Driving, Flooding
<1>10. s \in Neighbors /\ Alike(s, a)
  BY <1>7, <1>8, SendIs
<1>. HIDE DEF s
<1>11. Good(r, s) /\ s.st \in Flooding /\ s.db = m.db
  BY <1>8, <1>9, <1>10, AlikeIs DEF Good, Alike
<1>12. ASSUME r = Slave PROVE Good(r, u) /\ u.st \in Flooding /\ u.db = m.db
  <2>1. Good(r, t) /\ t.st \in {"Loading", "Full"} /\ t.db = m.db
    BY <1>11, DoneIs DEF Good
  <2>. HIDE DEF t
  <2>2. /\ u \in Neighbors /\ u.st = t.st /\ u.reqs = t.reqs /\ u.db = t.db
        /\ u.lsrt = t.lsrt /\ u.holdt = TRUE
    BY <2>1 DEF Good, Consistent, Neighbors
  <2>. HIDE DEF u
  <2>. QED
    BY <2>1, <2>2 DEF Good, Consistent, Driving, Flooding
<1>. QED
  BY <1>5, <1>11, <1>12

LEMMA RestartIs ==
    ASSUME NEW m \in Neighbors, NEW r
    PROVE  Good(r, Restart(m)) /\ Restart(m).db = m.db
<1>. DEFINE s == Restart(m)
<1>1. s = [m EXCEPT !.st = "2Way", !.pkt = NoPkt, !.ddlist = {}, !.reqs = {},
                    !.rxmt = {}, !.sent = FALSE, !.ddt = FALSE, !.holdt = FALSE,
                    !.lsrt = FALSE]
  BY DEF Restart
<1>. HIDE DEF s
<1>2. /\ s \in Neighbors /\ s.st = "2Way" /\ s.reqs = {} /\ s.lsrt = FALSE /\ s.holdt = FALSE
      /\ s.db = m.db
  BY <1>1 DEF Neighbors
<1>. QED
  BY <1>2 DEF Good, Consistent, Driving, s

-----------------------------------------------------------------------------
(* Descriptions that are received. *)

LEMMA ProcessIs ==
    ASSUME NEW m, Consistent(m), m.st \in Flooding, NEW hdrs \in SUBSET Lsa
    PROVE  LET s == process_dd(m, hdrs)
           IN  Consistent(s) /\ s.st = m.st /\ s.db = m.db
<1>. DEFINE new == hdrs \ m.db
            reqs == m.reqs \cup new
            lsrt == m.lsrt \/ (m.reqs = {} /\ new # {})
            s == process_dd(m, hdrs)
<1>1. m \in Neighbors /\ m.reqs \in SUBSET Lsa /\ m.lsrt \in BOOLEAN
  BY DEF Consistent, Neighbors
<1>2. reqs \in SUBSET Lsa /\ lsrt \in BOOLEAN
  BY <1>1
<1>3. s = [m EXCEPT !.reqs = reqs, !.lsrt = lsrt]
  BY DEF process_dd
<1>4. reqs \cap m.db = {} /\ (lsrt <=> reqs # {})
  BY DEF Consistent
<1>. HIDE DEF s, reqs, lsrt
<1>5. /\ s \in Neighbors /\ s.st = m.st /\ s.db = m.db /\ s.holdt = m.holdt
      /\ s.reqs = reqs /\ s.lsrt = lsrt
  BY <1>1, <1>2, <1>3 DEF Neighbors
<1>. QED
  BY <1>4, <1>5 DEF Consistent, s

LEMMA NegotiatedIs ==
    ASSUME NEW m, Consistent(m), m.st = "ExStart", NEW d \in DDs, NEW root
    PROVE  LET s == negdone(m, d, root)
           IN  Consistent(s) /\ s.st = "Exchange" /\ s.db = m.db
<1>. DEFINE listed == Snapshot(m.db, root)
            rest == m.db \ listed
            opts == d.opts
            s == negdone(m, d, root)
<1>1. m \in Neighbors /\ m.db \in SUBSET Lsa
  BY DEF Consistent, Neighbors
<1>2. listed \in SUBSET Lsa /\ rest \in SUBSET Lsa /\ opts \in Opts
  BY <1>1 DEF Snapshot, DDs
<1>3. s = [m EXCEPT !.st = "Exchange", !.opts = opts, !.ddlist = listed, !.missed = rest]
  BY DEF negdone
<1>. HIDE DEF s, listed, rest, opts
<1>4. /\ s \in Neighbors /\ s.st = "Exchange" /\ s.db = m.db /\ s.holdt = m.holdt
      /\ s.reqs = m.reqs /\ s.lsrt = m.lsrt
  BY <1>1, <1>2, <1>3 DEF Neighbors, Flooding
<1>. QED
  BY <1>4 DEF Consistent, Flooding, s

\* After the description that was expected: the next one, or the requests first.
LEMMA AcceptIs ==
    ASSUME NEW r, NEW m, Consistent(m), m.st = "Exchange", NEW d \in DDs, NEW o \in Opts
    PROVE  Good(r, AcceptDD(r, m, d, o)) /\ AcceptDD(r, m, d, o).db = m.db
<1>. DEFINE a == [m EXCEPT !.more = d.more, !.pkt = NoPkt, !.ddt = FALSE]
            b == process_dd(a, d.hdrs)
            heard == send_req(b)
            n == IF r = Master THEN (heard.seq + 1) % SeqMod ELSE d.seq
            next == [heard EXCEPT !.seq = n]
<1>1. m \in Neighbors /\ d.more \in BOOLEAN /\ d.seq \in Seqs /\ d.hdrs \in SUBSET Lsa
  BY DEF Consistent, DDs
<1>2. /\ a \in Neighbors /\ a.st = m.st /\ a.reqs = m.reqs /\ a.db = m.db /\ a.lsrt = m.lsrt
      /\ a.holdt = m.holdt
  BY <1>1 DEF Neighbors
<1>3. AcceptDD(r, m, d, o) =
         IF r = Master /\ next.sent /\ ~d.more THEN exchangedone(next)
         ELSE IF next.reqs = {} THEN NextDD(r, next, o) ELSE next
  BY DEF AcceptDD
<1>. HIDE DEF a
<1>4. Consistent(a) /\ a.st = "Exchange" /\ a.st \in Flooding
  BY <1>2 DEF Consistent, Flooding
<1>5. Consistent(b) /\ b.st = a.st /\ b.db = a.db
  BY <1>1, <1>4, ProcessIs
<1>. HIDE DEF b
<1>6. heard \in Neighbors /\ Alike(heard, b)
  BY <1>5, RequestIs DEF Consistent
<1>. HIDE DEF heard
<1>7. Consistent(heard)
  BY <1>5, <1>6, AlikeIs
<1>8. n \in Seqs
  <2>1. heard.seq \in Int
    BY <1>6 DEF Neighbors, Seqs
  <2>. QED
    BY <1>1, <2>1, SeqIs
<1>. HIDE DEF n
<1>9. /\ next \in Neighbors /\ next.st = heard.st /\ next.reqs = heard.reqs
      /\ next.db = heard.db /\ next.lsrt = heard.lsrt /\ next.holdt = heard.holdt
  BY <1>6, <1>8 DEF Neighbors
<1>. HIDE DEF next
<1>10. Consistent(next) /\ next.st = "Exchange" /\ next.st \in Flooding /\ next.db = m.db
  BY <1>2, <1>4, <1>5, <1>6, <1>7, <1>9 DEF Consistent, Alike
<1>11. Good(r, exchangedone(next)) /\ exchangedone(next).db = m.db
  BY <1>10, DoneIs
<1>12. Good(r, NextDD(r, next, o)) /\ NextDD(r, next, o).db = m.db
  BY <1>10, NextIs
<1>13. next.reqs # {} => Good(r, next)
  BY <1>10 DEF Good, Driving
<1>. QED
  BY <1>3, <1>10, <1>11, <1>12, <1>13

LEMMA RepeatIs ==
    ASSUME NEW r, NEW m, Good(r, m)
    PROVE  Good(r, retrans_dd(m)) /\ retrans_dd(m).db = m.db
<1>1. m \in Neighbors
  BY DEF Good, Consistent
<1>2. CASE m.pkt # NoPkt
  <2>1. m.pkt \in Pkts
    BY <1>1, <1>2 DEF Neighbors, Pkts
  <2>2. Send(m, m.pkt) \in Neighbors /\ Alike(Send(m, m.pkt), m)
    BY <1>1, <2>1, SendIs
  <2>3. retrans_dd(m) = Send(m, m.pkt)
    BY <1>2 DEF retrans_dd
  <2>. QED
    BY <2>2, <2>3, AlikeIs DEF Good, Alike
<1>3. CASE m.pkt = NoPkt
  <2>1. retrans_dd(m) = Restart(m) \/ retrans_dd(m) = m
    BY <1>3 DEF retrans_dd
  <2>. QED
    BY <1>1, <2>1, RestartIs
<1>. QED
  BY <1>2, <1>3

LEMMA RecvDDIs ==
    ASSUME NEW r, NEW old, Good(r, old), NEW d \in DDs, NEW root, NEW o \in Opts
    PROVE  Good(r, recv_dd(r, old, d, root, o))
<1>. DEFINE m == IF old.st = "2Way" THEN Start(old, o) ELSE old
            a == negdone(m, d, root)
<1>1. Good(r, m)
  BY StartIs DEF Good
<1>2. recv_dd(r, old, d, root, o) =
         IF m.st = "ExStart"
         THEN IF EndsNegotiation(r, m, d) THEN AcceptDD(r, a, d, o) ELSE m
         ELSE IF ~Fits(r, m, d) THEN Restart(m)
         ELSE IF m.st = "Exchange" /\ IsNext(r, m, d) THEN AcceptDD(r, m, d, o)
         ELSE IF IsRepeated(r, m, d) THEN IF r = Slave THEN retrans_dd(m) ELSE m
         ELSE Restart(m)
  BY DEF recv_dd
<1>. HIDE DEF m
<1>3. ASSUME m.st = "ExStart" PROVE Good(r, AcceptDD(r, a, d, o))
  <2>1. Consistent(a) /\ a.st = "Exchange"
    BY <1>1, <1>3, NegotiatedIs DEF Good
  <2>. HIDE DEF a
  <2>. QED
    BY <2>1, AcceptIs
<1>4. Good(r, Restart(m)) /\ Good(r, retrans_dd(m))
  BY <1>1, RestartIs, RepeatIs DEF Good, Consistent
<1>5. m.st = "Exchange" => Good(r, AcceptDD(r, m, d, o))
  BY <1>1, AcceptIs DEF Good
<1>. QED
  BY <1>1, <1>2, <1>3, <1>4, <1>5

-----------------------------------------------------------------------------
(* Requests and updates that are received, and LSAs from elsewhere. *)

\* Before the call, LSAs in got may be requested that the database has already.
LEMMA ServedIs ==
    ASSUME NEW r, NEW m \in Neighbors, NEW got \in SUBSET Lsa, NEW o \in Opts,
           m.st \in Flooding, Driving(r, m),
           (m.reqs \ got) \cap m.db = {}, m.lsrt <=> m.reqs # {},
           m.holdt => m.st \in {"Loading", "Full"}
    PROVE  LET s == rmreq(r, m, got, o)
           IN  Good(r, s) /\ s.st \in Flooding /\ s.db = m.db
<1>. DEFINE left == m.reqs \ got
            s == [m EXCEPT !.reqs = left]
            done == [s EXCEPT !.lsrt = FALSE]
            full == [done EXCEPT !.st = "Full"]
<1>1. left \in SUBSET Lsa
  BY DEF Neighbors
<1>2. rmreq(r, m, got, o) = IF m.reqs = {} \/ s.reqs # {} THEN s
                            ELSE IF m.st = "Loading" THEN full
                            ELSE NextDD(r, done, o)
  BY DEF rmreq
<1>3. left \cap m.db = {} /\ (m.reqs = {} => left = {})
  OBVIOUS
<1>. HIDE DEF left
<1>4. /\ s \in Neighbors /\ s.st = m.st /\ s.db = m.db /\ s.holdt = m.holdt
      /\ s.lsrt = m.lsrt /\ s.reqs = left /\ s.ddt = m.ddt /\ s.pkt = m.pkt
  BY <1>1 DEF Neighbors
<1>. HIDE DEF s
<1>5. /\ done \in Neighbors /\ done.st = s.st /\ done.db = s.db /\ done.holdt = s.holdt
      /\ done.lsrt = FALSE /\ done.reqs = s.reqs
  BY <1>4 DEF Neighbors
<1>. HIDE DEF done
<1>6. /\ full \in Neighbors /\ full.st = "Full" /\ full.db = done.db
      /\ full.holdt = done.holdt /\ full.lsrt = done.lsrt /\ full.reqs = done.reqs
  BY <1>5 DEF Neighbors, Flooding
<1>. HIDE DEF full
<1>7. ASSUME m.reqs = {} \/ s.reqs # {} PROVE Good(r, s)
  BY <1>3, <1>4, <1>7 DEF Good, Consistent, Driving, Flooding
<1>8. ASSUME s.reqs = {} PROVE Consistent(done) /\ done.st \in Flooding /\ done.db = m.db
  BY <1>3, <1>4, <1>5, <1>8 DEF Consistent
<1>9. ASSUME s.reqs = {} PROVE Good(r, NextDD(r, done, o)) /\ NextDD(r, done, o).st \in Flooding
                               /\ NextDD(r, done, o).db = m.db
  BY <1>8, <1>9, NextIs
<1>10. ASSUME s.reqs = {} PROVE Good(r, full) /\ full.st \in Flooding /\ full.db = m.db
  BY <1>4, <1>5, <1>6, <1>10 DEF Good, Consistent, Driving, Flooding
<1>. QED
  BY <1>2, <1>4, <1>7, <1>9, <1>10

LEMMA RecvReqIs ==
    ASSUME NEW r, NEW m, Good(r, m), NEW asked \in SUBSET Lsa
    PROVE  Good(r, recv_req(m, asked))
<1>. DEFINE p == [kind |-> "upd", lsas |-> asked]
<1>1. m \in Neighbors
  BY DEF Good, Consistent
<1>2. p \in Pkts
  BY DEF Pkts, Lists
<1>3. recv_req(m, asked) = Send(m, p) \/ recv_req(m, asked) = Restart(m)
  BY DEF recv_req
<1>. HIDE DEF p
<1>4. Good(r, Send(m, p))
  BY <1>1, <1>2, SendIs, AlikeIs DEF Good
<1>. QED
  BY <1>1, <1>3, <1>4, RestartIs

LEMMA RecvUpdateIs ==
    ASSUME NEW r, NEW m, Good(r, m), m.st \in Flooding, NEW lsas \in SUBSET Lsa, NEW o \in Opts
    PROVE  Good(r, recv_update(r, m, lsas, o))
<1>. DEFINE new == lsas \ m.db
            wrong == lsas \cap m.db \cap m.reqs
            db == m.db \cup lsas
            rxmt == m.rxmt \ lsas
            k == [m EXCEPT !.db = db, !.rxmt = rxmt]
            got == rmreq(r, k, new, o)
            acks == lsas \ m.rxmt
            p == [kind |-> "ack", lsas |-> acks]
            acked == IF acks = {} THEN got ELSE Send(got, p)
<1>1. recv_update(r, m, lsas, o) =
         IF wrong # {} THEN Restart(m)
         ELSE IF acked.reqs # {} /\ Cardinality(acked.reqs) <= acked.goal
              THEN send_req(acked) ELSE acked
  BY DEF recv_update
<1>2. m \in Neighbors /\ m.db \in SUBSET Lsa /\ m.rxmt \in SUBSET Lsa
  BY DEF Good, Consistent, Neighbors
<1>3. db \in SUBSET Lsa /\ rxmt \in SUBSET Lsa /\ new \in SUBSET Lsa /\ p \in Pkts
  BY <1>2 DEF Pkts, Lists
<1>4. (m.reqs \ new) \cap db = {}
  BY DEF Good, Consistent
<1>. HIDE DEF new, wrong, db, rxmt, p
<1>5. /\ k \in Neighbors /\ k.db = db /\ k.st = m.st /\ k.reqs = m.reqs /\ k.lsrt = m.lsrt
      /\ k.holdt = m.holdt /\ k.ddt = m.ddt /\ k.pkt = m.pkt
  BY <1>2, <1>3 DEF Neighbors
<1>. HIDE DEF k
<1>6. Driving(r, k) /\ (k.lsrt <=> k.reqs # {}) /\ (k.holdt => k.st \in {"Loading", "Full"})
  BY <1>5 DEF Good, Consistent, Driving
<1>7. Good(r, got)
  BY <1>3, <1>4, <1>5, <1>6, ServedIs
<1>. HIDE DEF got
<1>8. Good(r, Send(got, p))
  BY <1>3, <1>7, SendIs, AlikeIs DEF Good, Consistent
<1>9. Good(r, acked)
  BY <1>7, <1>8
<1>. HIDE DEF acked
<1>10. Good(r, send_req(acked))
  BY <1>9, RequestIs, AlikeIs DEF Good, Consistent
<1>. QED
  BY <1>1, <1>2, <1>9, <1>10, RestartIs

LEMMA FloodIs ==
    ASSUME NEW r, NEW m, Good(r, m), NEW x \in Lsa \ m.db, NEW o \in Opts
    PROVE  Good(r, flood(r, m, x, o))
<1>. DEFINE db == m.db \cup {x}
            rxmt == m.rxmt \cup {x}
            k == [m EXCEPT !.db = db]
            put == [k EXCEPT !.rxmt = k.rxmt \cup {x}]
<1>1. flood(r, m, x, o) = IF m.st \notin Flooding THEN k
                          ELSE IF x \in m.reqs THEN rmreq(r, k, {x}, o) ELSE put
  BY DEF flood
<1>2. m \in Neighbors /\ db \in SUBSET Lsa /\ {x} \in SUBSET Lsa
  BY DEF Good, Consistent, Neighbors
<1>3. (m.reqs \ {x}) \cap db = {} /\ (x \notin m.reqs => m.reqs \cap db = {})
  BY DEF Good, Consistent
<1>. HIDE DEF db
<1>4. /\ k \in Neighbors /\ k.db = db /\ k.st = m.st /\ k.reqs = m.reqs /\ k.lsrt = m.lsrt
      /\ k.holdt = m.holdt /\ k.ddt = m.ddt /\ k.pkt = m.pkt
  BY <1>2 DEF Neighbors
<1>. HIDE DEF k
<1>5. Driving(r, k) /\ (k.lsrt <=> k.reqs # {}) /\ (k.holdt => k.st \in {"Loading", "Full"})
  BY <1>4 DEF Good, Consistent, Driving
<1>6. ASSUME x \notin m.reqs PROVE Good(r, k)
  BY <1>3, <1>4, <1>5, <1>6 DEF Good, Consistent
<1>7. ASSUME x \notin m.reqs PROVE Good(r, put)
  <2>1. k.rxmt \cup {x} \in SUBSET Lsa
    BY <1>4 DEF Neighbors
  <2>2. /\ put \in Neighbors /\ put.db = k.db /\ put.st = k.st /\ put.reqs = k.reqs
        /\ put.lsrt = k.lsrt /\ put.holdt = k.holdt /\ put.ddt = k.ddt /\ put.pkt = k.pkt
    BY <1>4, <2>1 DEF Neighbors
  <2>. HIDE DEF put
  <2>. QED
    BY <1>6, <1>7, <2>2 DEF Good, Consistent, Driving
<1>8. ASSUME m.st \in Flooding PROVE Good(r, rmreq(r, k, {x}, o))
  BY <1>2, <1>3, <1>4, <1>5, <1>8, ServedIs
<1>9. m.st \notin Flooding => x \notin m.reqs
  BY DEF Good, Consistent
<1>. QED
  BY <1>1, <1>6, <1>7, <1>8, <1>9

LEMMA ReceiveIs ==
    ASSUME NEW r, NEW m, Good(r, m), NEW p \in Pkts, NEW root, NEW o \in Opts
    PROVE  Good(r, receive(r, m, p, root, o))
<1>. DEFINE s == receive(r, m, p, root, o)
            left == m.rxmt \ (p.lsas \cap m.db)
            acked == [m EXCEPT !.rxmt = left]
<1>1. \/ p \in DDs /\ p.kind = "dd"
      \/ p \in Lists /\ p.lsas \in SUBSET Lsa /\ p.kind \in {"req", "upd", "ack"}
  BY DEF Pkts, DDs, Lists
<1>2. CASE p \in DDs /\ p.kind = "dd"
  BY <1>2, RecvDDIs DEF receive
<1>3. CASE p \in Lists /\ p.lsas \in SUBSET Lsa /\ p.kind \in {"req", "upd", "ack"}
  <2>1. CASE m.st \notin Flooding
    BY <1>3, <2>1 DEF receive
  <2>2. CASE m.st \in Flooding /\ p.kind = "req"
    BY <1>3, <2>2, RecvReqIs DEF receive
  <2>3. CASE m.st \in Flooding /\ p.kind = "upd"
    BY <1>3, <2>3, RecvUpdateIs DEF receive
  <2>4. CASE m.st \in Flooding /\ p.kind = "ack"
    <3>1. s = acked
      BY <2>4 DEF receive
    <3>2. m \in Neighbors /\ left \in SUBSET Lsa
      BY DEF Good, Consistent, Neighbors
    <3>. HIDE DEF left, s
    <3>3. /\ acked \in Neighbors /\ acked.db = m.db /\ acked.st = m.st
          /\ acked.reqs = m.reqs /\ acked.lsrt = m.lsrt /\ acked.holdt = m.holdt
          /\ acked.ddt = m.ddt /\ acked.pkt = m.pkt
      BY <3>2 DEF Neighbors
    <3>. HIDE DEF acked
    <3>4. Good(r, acked)
      BY <3>3 DEF Good, Consistent, Driving
    <3>. QED
      BY <3>1, <3>4 DEF s
  <2>. QED
    BY <1>3, <2>1, <2>2, <2>3, <2>4
<1>. QED
  BY <1>1, <1>2, <1>3

-----------------------------------------------------------------------------
(* The steps. *)

Inv == TypeOK /\ \A r \in Router : Good(r, rt[r])

LEMMA PeerIs ==
    ASSUME NEW r \in Router
    PROVE  peer(r) \in Router /\ peer(r) # r
BY ExchangeAssumption DEF Router, peer

\* What the link takes of a line of packets.
LEMMA LineIs ==
    ASSUME NEW c \in Seq(Pkts), NEW out \in Seq(Pkts)
    PROVE  LET line == c \o out
               s == SubSeq(line, 1, IF Len(line) <= Cap THEN Len(line) ELSE Cap)
           IN  s \in Seq(Pkts) /\ Len(s) <= Cap
<1>. DEFINE line == c \o out
            n == IF Len(line) <= Cap THEN Len(line) ELSE Cap
<1>1. line \in Seq(Pkts) /\ Len(line) \in Nat /\ Cap \in Nat
  BY ExchangeAssumption
<1>2. n \in Nat /\ n <= Len(line) /\ n <= Cap
  BY <1>1
<1>. HIDE DEF line, n
<1>3. SubSeq(line, 1, n) \in Seq(Pkts) /\ Len(SubSeq(line, 1, n)) = n
  BY <1>1, <1>2
<1>. QED
  BY <1>2, <1>3 DEF line, n

\* A record in order takes the place of the old one, and its packets go to the link.
LEMMA BecomeIs ==
    ASSUME Inv, NEW r \in Router, NEW m, Good(r, m),
           NEW inbox \in Seq(Pkts), Len(inbox) <= Cap, Become(r, m, inbox)
    PROVE  /\ rt' \in [Router -> Neighbors] /\ chan' \in [Router -> Seq(DDs \cup Lists)]
           /\ \A q \in Router : /\ rt'[q].out = <<>> /\ Len(chan'[q]) <= Cap
                                /\ Good(q, rt'[q])
<1>. DEFINE s == [m EXCEPT !.out = <<>>]
            line == chan[peer(r)] \o m.out
            sent == SubSeq(line, 1, IF Len(line) <= Cap THEN Len(line) ELSE Cap)
<1>1. /\ rt \in [Router -> Neighbors] /\ chan \in [Router -> Seq(Pkts)]
      /\ \A q \in Router : rt[q].out = <<>> /\ Len(chan[q]) <= Cap /\ Good(q, rt[q])
  BY DEF Inv, TypeOK, Pkts
<1>2. rt' = [rt EXCEPT ![r] = s] /\ chan' = [chan EXCEPT ![r] = inbox, ![peer(r)] = sent]
  BY DEF Become
<1>3. m \in Neighbors /\ m.out \in Seq(Pkts)
  BY DEF Good, Consistent, Neighbors, Pkts
<1>4. s \in Neighbors /\ s.out = <<>> /\ Alike(s, m)
  <2>. DEFINE e == <<>>
  <2>1. e \in Seq(DDs \cup Lists) /\ s = [m EXCEPT !.out = e]
    OBVIOUS
  <2>. HIDE DEF e, s
  <2>2. s \in Neighbors /\ s.out = e /\ Alike(s, m)
    BY <1>3, <2>1 DEF Neighbors, Alike
  <2>. QED
    BY <2>2 DEF e
<1>5. Good(r, s)
  BY <1>4, AlikeIs DEF Good
<1>6. chan[peer(r)] \in Seq(Pkts)
  BY <1>1, PeerIs
<1>7. sent \in Seq(Pkts) /\ Len(sent) <= Cap
  <2>. DEFINE c == chan[peer(r)]
              out == m.out
  <2>1. c \in Seq(Pkts) /\ out \in Seq(Pkts)
    BY <1>3, <1>6
  <2>. HIDE DEF c, out
  <2>2. LET ln == c \o out
            t == SubSeq(ln, 1, IF Len(ln) <= Cap THEN Len(ln) ELSE Cap)
        IN  t \in Seq(Pkts) /\ Len(t) <= Cap
    BY <2>1, LineIs
  <2>. QED
    BY <2>2 DEF c, out
<1>. HIDE DEF s, sent
<1>8. /\ rt' \in [Router -> Neighbors]
      /\ \A q \in Router : rt'[q] = IF q = r THEN s ELSE rt[q]
  BY <1>1, <1>2, <1>4
<1>9. /\ chan' \in [Router -> Seq(Pkts)]
      /\ \A q \in Router : chan'[q] = inbox \/ chan'[q] = sent \/ chan'[q] = chan[q]
  BY <1>1, <1>2, <1>7, PeerIs
<1>10. ASSUME NEW q \in Router
       PROVE  rt'[q].out = <<>> /\ Len(chan'[q]) <= Cap /\ Good(q, rt'[q])
  BY <1>1, <1>4, <1>5, <1>7, <1>8, <1>9
<1>. QED
  BY <1>8, <1>9, <1>10 DEF Pkts

\* The bound of what is odd and out of time: a step may be both at once.
LEMMA BoundIs ==
    ASSUME Inv, odd' = odd \/ (odd + late < MaxOdd /\ odd' = odd + 1),
           late' = late \/ (odd + late < MaxOdd /\ late' = late + 1)
    PROVE  odd' \in Nat /\ late' \in Nat /\ odd' + late' <= MaxOdd + 1
<1>1. odd \in Nat /\ late \in Nat /\ odd + late <= MaxOdd + 1 /\ MaxOdd \in Nat
  BY ExchangeAssumption DEF Inv, TypeOK
<1>. QED
  BY <1>1

LEMMA ByteIs ==
    ASSUME NEW o, NEW m, Byte(o, m)
    PROVE  odd' = odd \/ (odd + late < MaxOdd /\ odd' = odd + 1)
BY DEF Byte

LEMMA InTimeIs ==
    ASSUME NEW b \in BOOLEAN, InTime(b)
    PROVE  late' = late \/ (odd + late < MaxOdd /\ late' = late + 1)
BY DEF InTime

\* Whatever else a step does, it keeps the invariant if it leaves the records and
\* the channels as they should be.
LEMMA Kept ==
    ASSUME Inv, odd' = odd \/ (odd + late < MaxOdd /\ odd' = odd + 1),
           late' = late \/ (odd + late < MaxOdd /\ late' = late + 1),
           works' \in BOOLEAN,
           rt' \in [Router -> Neighbors], chan' \in [Router -> Seq(DDs \cup Lists)],
           \A q \in Router : /\ rt'[q].out = <<>> /\ Len(chan'[q]) <= Cap
                             /\ Good(q, rt'[q])
    PROVE  Inv'
<1>1. odd' \in Nat /\ late' \in Nat /\ odd' + late' <= MaxOdd + 1
  BY BoundIs
<1>2. TypeOK'
  BY <1>1 DEF TypeOK, Neighbors, DDs, Lists, Seqs, Flooding
<1>3. (\A r \in Router : Good(r, rt[r]))'
  BY DEF Good, Consistent, Driving, Flooding, Neighbors, DDs, Lists, Seqs, NoPkt
<1>. QED
  BY <1>2, <1>3 DEF Inv

LEMMA BoxIs ==
    ASSUME Inv, NEW r \in Router
    PROVE  /\ chan[r] \in Seq(Pkts) /\ Len(chan[r]) <= Cap
           /\ chan[r] # <<>> => /\ Head(chan[r]) \in Pkts /\ Tail(chan[r]) \in Seq(Pkts)
                                /\ Len(Tail(chan[r])) <= Cap
<1>. DEFINE c == chan[r]
<1>1. c \in Seq(Pkts) /\ Len(c) <= Cap
  BY DEF Inv, TypeOK, Pkts
<1>. HIDE DEF c
<1>2. ASSUME c # <<>>
      PROVE  Head(c) \in Pkts /\ Tail(c) \in Seq(Pkts) /\ Len(Tail(c)) <= Cap
  <2>1. Head(c) \in Pkts /\ Tail(c) \in Seq(Pkts) /\ Len(Tail(c)) = Len(c) - 1
    BY <1>1, <1>2
  <2>2. Len(c) \in Nat /\ Cap \in Nat
    BY <1>1, ExchangeAssumption
  <2>. QED
    BY <1>1, <2>1, <2>2
<1>. QED
  BY <1>1, <1>2 DEF c

LEMMA HandleIs ==
    ASSUME Inv, NEW r \in Router, NEW inbox \in Seq(Pkts), Len(inbox) <= Cap,
           Handle(r, inbox), late' = late \/ (odd + late < MaxOdd /\ late' = late + 1),
           works' = works
    PROVE  Inv'
<1>1. PICK root \in Roots(rt[r].db), o \in Opts :
         LET m == receive(r, rt[r], Head(chan[r]), root, o)
         IN  Byte(o, m) /\ Become(r, m, inbox)
  BY DEF Handle
<1>. DEFINE p == Head(chan[r])
            m == receive(r, rt[r], p, root, o)
<1>2. p \in Pkts /\ Good(r, rt[r])
  BY BoxIs DEF Handle, Inv
<1>3. Byte(o, m) /\ Become(r, m, inbox)
  BY <1>1
<1>. HIDE DEF p
<1>4. Good(r, m)
  BY <1>2, ReceiveIs
<1>. HIDE DEF m
<1>5. odd' = odd \/ (odd + late < MaxOdd /\ odd' = odd + 1)
  BY <1>3, ByteIs
<1>6. /\ rt' \in [Router -> Neighbors] /\ chan' \in [Router -> Seq(DDs \cup Lists)]
      /\ \A q \in Router : /\ rt'[q].out = <<>> /\ Len(chan'[q]) <= Cap
                           /\ Good(q, rt'[q])
  BY <1>3, <1>4, BecomeIs
<1>7. works' \in BOOLEAN
  BY DEF Inv, TypeOK
<1>. QED
  BY <1>5, <1>6, <1>7, Kept

LEMMA LinkKeeps ==
    ASSUME Inv, NEW r \in Router, Link(r)
    PROVE  Inv'
<1>1. CASE Receive(r)
  <2>1. Tail(chan[r]) \in Seq(Pkts) /\ Len(Tail(chan[r])) <= Cap
    BY <1>1, BoxIs DEF Receive, Handle
  <2>. QED
    BY <1>1, <2>1, HandleIs DEF Receive
<1>2. CASE Duplicate(r)
  <2>1. chan[r] \in Seq(Pkts) /\ Len(chan[r]) <= Cap
    BY BoxIs
  <2>2. late' = late \/ (odd + late < MaxOdd /\ late' = late + 1)
    BY <1>2, InTimeIs DEF Duplicate
  <2>. QED
    BY <1>2, <2>1, <2>2, HandleIs DEF Duplicate
<1>3. CASE Lose(r)
  <2>1. /\ chan[r] # <<>> /\ chan' = [chan EXCEPT ![r] = Tail(chan[r])]
        /\ UNCHANGED <<rt, odd, late, works>>
    BY <1>3 DEF Lose
  <2>2. Tail(chan[r]) \in Seq(Pkts) /\ Len(Tail(chan[r])) <= Cap
    BY <2>1, BoxIs
  <2>3. chan \in [Router -> Seq(Pkts)] /\ \A q \in Router : Len(chan[q]) <= Cap
    BY DEF Inv, TypeOK, Pkts
  <2>4. /\ chan' \in [Router -> Seq(DDs \cup Lists)]
        /\ \A q \in Router : Len(chan'[q]) <= Cap
    BY <2>1, <2>2, <2>3 DEF Pkts
  <2>5. /\ rt' \in [Router -> Neighbors] /\ works' \in BOOLEAN
        /\ \A q \in Router : rt'[q].out = <<>> /\ Good(q, rt'[q])
    BY <2>1 DEF Inv, TypeOK
  <2>. QED
    BY <2>1, <2>4, <2>5, Kept
<1>. QED
  BY <1>1, <1>2, <1>3 DEF Link

LEMMA TimeoutKeeps ==
    ASSUME Inv, NEW r \in Router, NEW m, Good(r, m), Timeout(r, m),
           odd' = odd \/ (odd + late < MaxOdd /\ odd' = odd + 1)
    PROVE  Inv'
<1>1. chan[r] \in Seq(Pkts) /\ Len(chan[r]) <= Cap
  BY BoxIs
<1>2. Become(r, m, chan[r]) /\ InTime(Quiet) /\ works' = works
  BY DEF Timeout
<1>3. /\ rt' \in [Router -> Neighbors] /\ chan' \in [Router -> Seq(DDs \cup Lists)]
      /\ \A q \in Router : /\ rt'[q].out = <<>> /\ Len(chan'[q]) <= Cap
                           /\ Good(q, rt'[q])
  BY <1>1, <1>2, BecomeIs
<1>4. late' = late \/ (odd + late < MaxOdd /\ late' = late + 1)
  BY <1>2, InTimeIs DEF Quiet
<1>5. works' \in BOOLEAN
  BY <1>2 DEF Inv, TypeOK
<1>. QED
  BY <1>3, <1>4, <1>5, Kept

LEMMA TimersKeep ==
    ASSUME Inv, NEW r \in Router, Retransmission(r) \/ HoldTimer(r) \/ ProgressTimer(r)
    PROVE  Inv'
<1>1. Good(r, rt[r]) /\ rt[r] \in Neighbors
  BY DEF Inv, Good, Consistent
<1>2. CASE Tick(r)
  <2>1. rt[r].st = "2Way" /\ \E o \in Opts : LET m == Start(rt[r], o)
                                             IN  Byte(o, m) /\ Timeout(r, m)
    BY <1>2 DEF Tick
  <2>2. PICK o \in Opts : LET m == Start(rt[r], o)
                          IN  Byte(o, m) /\ Timeout(r, m)
    BY <2>1
  <2>3. Good(r, Start(rt[r], o))
    BY <1>1, <2>1, StartIs DEF Good
  <2>. QED
    BY <2>2, <2>3, ByteIs, TimeoutKeeps
<1>3. CASE DDTimer(r)
  BY <1>1, <1>3, RepeatIs, TimeoutKeeps DEF DDTimer
<1>4. CASE LSRTimer(r)
  <2>1. Good(r, send_req(rt[r]))
    BY <1>1, RequestIs, AlikeIs DEF Good
  <2>. QED
    BY <1>4, <2>1, TimeoutKeeps DEF LSRTimer
<1>5. CASE LSATimer(r)
  <2>. DEFINE p == [kind |-> "upd", lsas |-> rt[r].rxmt]
  <2>1. p \in Pkts
    BY <1>1 DEF Neighbors, Pkts, Lists
  <2>2. Good(r, Send(rt[r], p))
    <3>. HIDE DEF p
    <3>. QED
      BY <1>1, <2>1, SendIs, AlikeIs DEF Good
  <2>3. Timeout(r, Send(rt[r], p)) /\ odd' = odd
    BY <1>5 DEF LSATimer
  <2>. QED
    BY <2>2, <2>3, TimeoutKeeps
<1>6. CASE HoldTimer(r)
  <2>. DEFINE m == rt[r]
              s == [m EXCEPT !.holdt = FALSE, !.pkt = NoPkt]
  <2>1. m.holdt /\ Timeout(r, s) /\ odd' = odd
    BY <1>6 DEF HoldTimer
  <2>2. /\ s \in Neighbors /\ s.st = m.st /\ s.reqs = m.reqs /\ s.db = m.db
        /\ s.lsrt = m.lsrt /\ s.holdt = FALSE
    BY <1>1 DEF Neighbors
  <2>3. m.st \in {"Loading", "Full"}
    BY <1>1, <2>1 DEF Good, Consistent
  <2>. HIDE DEF s
  <2>4. Good(r, s)
    BY <1>1, <2>2, <2>3 DEF Good, Consistent, Driving
  <2>. QED
    BY <2>1, <2>4, TimeoutKeeps
<1>7. CASE ProgressTimer(r)
  BY <1>1, <1>7, RestartIs, TimeoutKeeps DEF ProgressTimer
<1>. QED
  BY <1>2, <1>3, <1>4, <1>5, <1>6, <1>7 DEF Retransmission

LEMMA LearnKeeps ==
    ASSUME Inv, NEW r \in Router, Learn(r)
    PROVE  Inv'
<1>1. PICK x \in Lsa \ rt[r].db, o \in Opts :
         LET m == flood(r, rt[r], x, o)
         IN  /\ Byte(o, m) /\ Become(r, m, chan[r])
             /\ UNCHANGED <<late, works>>
  BY DEF Learn
<1>. DEFINE m == flood(r, rt[r], x, o)
<1>2. Good(r, m)
  BY FloodIs DEF Inv
<1>3. Byte(o, m) /\ Become(r, m, chan[r]) /\ UNCHANGED <<late, works>>
  BY <1>1
<1>. HIDE DEF m
<1>4. chan[r] \in Seq(Pkts) /\ Len(chan[r]) <= Cap
  BY BoxIs
<1>5. /\ rt' \in [Router -> Neighbors] /\ chan' \in [Router -> Seq(DDs \cup Lists)]
      /\ \A q \in Router : /\ rt'[q].out = <<>> /\ Len(chan'[q]) <= Cap
                           /\ Good(q, rt'[q])
  BY <1>2, <1>3, <1>4, BecomeIs
<1>6. odd' = odd \/ (odd + late < MaxOdd /\ odd' = odd + 1)
  BY <1>3, ByteIs
<1>7. works' \in BOOLEAN
  BY <1>3 DEF Inv, TypeOK
<1>. QED
  BY <1>3, <1>5, <1>6, <1>7, Kept

LEMMA InitInv == Init => Inv
<1>. SUFFICES ASSUME Init PROVE Inv
  OBVIOUS
<1>1. PICK s \in [Router -> Seqs], b \in BOOLEAN :
         rt = [r \in Router |->
                  [st |-> "2Way", seq |-> s[r], opts |-> 0, more |-> b,
                   pkt |-> NoPkt, ddlist |-> {}, reqs |-> {}, goal |-> 0,
                   sent |-> FALSE, ddt |-> FALSE, holdt |-> FALSE,
                   lsrt |-> FALSE, rxmt |-> {}, db |-> Own[r],
                   missed |-> {}, out |-> <<>>]]
  BY DEF Init
<1>2. \A r \in Router : Own[r] \in SUBSET Lsa
  BY ExchangeAssumption
<1>3. 0 \in Opts /\ <<>> \in Seq(DDs \cup Lists) /\ Len(<<>>) <= Cap /\ MaxOdd \in Nat
  BY ExchangeAssumption
<1>4. ASSUME NEW r \in Router PROVE rt[r] \in Neighbors /\ rt[r].out = <<>> /\ Good(r, rt[r])
  <2>1. rt[r] = [st |-> "2Way", seq |-> s[r], opts |-> 0, more |-> b,
                 pkt |-> NoPkt, ddlist |-> {}, reqs |-> {}, goal |-> 0,
                 sent |-> FALSE, ddt |-> FALSE, holdt |-> FALSE,
                 lsrt |-> FALSE, rxmt |-> {}, db |-> Own[r],
                 missed |-> {}, out |-> <<>>]
    BY <1>1
  <2>2. rt[r] \in Neighbors
    BY <1>2, <1>3, <2>1 DEF Neighbors
  <2>. QED
    BY <2>1, <2>2 DEF Good, Consistent, Driving
<1>5. TypeOK
  <2>1. rt \in [Router -> Neighbors]
    BY <1>1, <1>4
  <2>2. \A r \in Router : chan[r] = <<>>
    BY DEF Init
  <2>3. chan \in [Router -> Seq(DDs \cup Lists)]
    BY <1>3 DEF Init
  <2>4. odd \in Nat /\ late \in Nat /\ odd + late <= MaxOdd + 1 /\ works \in BOOLEAN
    <3>1. odd = 0 /\ late = 0 /\ works = FALSE
      BY DEF Init
    <3>2. 0 + 0 <= MaxOdd + 1
      BY <1>3
    <3>. QED
      BY <3>1, <3>2
  <2>5. \A r \in Router : rt[r].out = <<>> /\ Len(chan[r]) <= Cap
    BY <1>3, <1>4, <2>2
  <2>. QED
    BY <2>1, <2>3, <2>4, <2>5 DEF TypeOK
<1>. QED
  BY <1>4, <1>5 DEF Inv

LEMMA StepInv == Inv /\ [Next \/ Repair]_vars => Inv'
<1>. SUFFICES ASSUME Inv, [Next \/ Repair]_vars PROVE Inv'
  OBVIOUS
<1>1. CASE Next
  BY <1>1, LinkKeeps, TimersKeep, LearnKeeps DEF Next
<1>2. CASE Repair \/ UNCHANGED vars
  <2>1. UNCHANGED <<rt, chan, odd, late>> /\ works' \in BOOLEAN
    BY <1>2 DEF Repair, vars, Inv, TypeOK
  <2>2. /\ rt' \in [Router -> Neighbors] /\ chan' \in [Router -> Seq(DDs \cup Lists)]
        /\ \A q \in Router : /\ rt'[q].out = <<>> /\ Len(chan'[q]) <= Cap
                             /\ Good(q, rt'[q])
    BY <2>1 DEF Inv, TypeOK
  <2>. QED
    BY <2>1, <2>2, Kept
<1>. QED
  BY <1>1, <1>2

LEMMA NextInv == Inv /\ [Next]_vars => Inv'
BY StepInv

\* Nothing is requested that is in the database, in any state, whichever way it arrived:
\* so recv_update never gives an exchange up for it.
THEOREM OnlyMissingRequested == Spec => []RequestsMissing
<1>1. Inv => RequestsMissing
  BY DEF Inv, Good, Consistent, RequestsMissing
<1>. QED
  BY <1>1, InitInv, NextInv, PTL DEF Spec

\* In every state whoever owes a packet has the timer that will send it again and, where
\* it repeats one, the packet.
THEOREM AlwaysDriven == Spec => []Driven
<1>1. Inv => Driven
  <2>. SUFFICES ASSUME Inv PROVE Driven
    OBVIOUS
  <2>1. Master \in Router
    BY DEF Router
  <2>. QED
    BY <2>1 DEF Inv, Good, Consistent, Driving, Driven
<1>. QED
  BY <1>1, InitInv, NextInv, PTL DEF Spec

\* The same with the fairness, and the repair of the link, under which the exchange is
\* shown to converge.
THEOREM FairlyDriven == FairSpec => [](Driven /\ RequestsMissing)
<1>1. Inv => Driven /\ RequestsMissing
  <2>. SUFFICES ASSUME Inv PROVE Driven /\ RequestsMissing
    OBVIOUS
  <2>1. Master \in Router
    BY DEF Router
  <2>. QED
    BY <2>1 DEF Inv, Good, Consistent, Driving, Driven, RequestsMissing
<1>. QED
  BY <1>1, InitInv, StepInv, PTL DEF FairSpec

=============================================================================
