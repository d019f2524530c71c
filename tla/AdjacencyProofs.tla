--------------------------- MODULE AdjacencyProofs ---------------------------
(***************************************************************************)
(* Theorems about Adjacency, for any set of neighbours and interfaces and  *)
(* any number of slots.                                                    *)
(***************************************************************************)
EXTENDS Adjacency, FiniteSetTheorems, SequenceTheorems, TLAPS

-----------------------------------------------------------------------------
(* Lemmas about the queue and the call stack. *)

\* The queue without n: n's first entry is gone, the others keep their order.
LEMMA WithoutFacts ==
    ASSUME NEW S, NEW q \in Seq(S), NEW n
    PROVE  /\ Without(q, n) \in Seq(S)
           /\ \/ ~(\E k \in 1..Len(q) : q[k] = n) /\ Without(q, n) = q
              \/ \E k \in 1..Len(q) :
                    /\ q[k] = n
                    /\ Len(Without(q, n)) = Len(q) - 1
                    /\ \A j \in 1..(Len(q) - 1) :
                          Without(q, n)[j] = IF j < k THEN q[j] ELSE q[j + 1]
<1>1. CASE ~(\E k \in 1..Len(q) : q[k] = n)
  BY <1>1 DEF Without
<1>2. CASE \E k \in 1..Len(q) : q[k] = n
  <2>. DEFINE k == CHOOSE k \in 1..Len(q) : q[k] = n
              w == [j \in 1..(Len(q) - 1) |-> IF j < k THEN q[j] ELSE q[j + 1]]
  <2>2. k \in 1..Len(q) /\ q[k] = n
    BY <1>2
  <2>3. Without(q, n) = w
    BY <1>2 DEF Without
  <2>. HIDE DEF k
  <2>4. Len(q) - 1 \in Nat
    BY <2>2
  <2>5. \A j \in 1..(Len(q) - 1) : w[j] \in S
    BY <2>2
  <2>6. w \in Seq(S) /\ Len(w) = Len(q) - 1
    BY <2>4, <2>5, SeqDef
  <2>. QED
    BY <2>2, <2>3, <2>6
<1>. QED
  BY <1>1, <1>2

\* What an event raises goes on top of a well formed stack.
LEMMA RaiseType ==
    ASSUME NEW e \in Events, NEW T \in SUBSET (Nbr \cup Ifc)
    PROVE  Raise(e, T) \in Seq(Call)
BY DEF Raise, Call

LEMMA ReturnType ==
    ASSUME calls \in Seq(Call), calls # <<>>, NEW x,
           NEW raised \in Seq(Call), Return(x, raised)
    PROVE  calls' \in Seq(Call)
<1>. DEFINE left == Head(calls).on \ {x}
            rest == IF left = {} THEN <<>> ELSE Raise(Head(calls).ev, left)
<1>1. Head(calls) \in Call /\ Tail(calls) \in Seq(Call)
  BY HeadTailProperties
<1>2. rest \in Seq(Call)
  <2>1. Head(calls).ev \in Events /\ left \in SUBSET (Nbr \cup Ifc)
    BY <1>1 DEF Call
  <2>. QED
    BY <2>1, RaiseType
<1>3. calls' = raised \o rest \o Tail(calls)
  BY DEF Return
<1>. HIDE DEF rest
<1>4. raised \o rest \in Seq(Call)
  BY <1>2, ConcatProperties
<1>. QED
  BY <1>1, <1>3, <1>4, ConcatProperties

\* Telling the interface raises at most one well formed event.
LEMMA TellIfcType ==
    ASSUME ifcOf \in [Nbr -> Ifc], NEW n \in Nbr, NEW new
    PROVE  TellIfc(n, new) \in Seq(Call)
<1>1. {ifcOf[n]} \in SUBSET (Nbr \cup Ifc) /\ "NChg" \in Events
  BY DEF Events, IfcEvents
<1>2. Raise("NChg", {ifcOf[n]}) \in Seq(Call)
  BY <1>1, RaiseType
<1>. QED
  BY <1>2 DEF TellIfc

-----------------------------------------------------------------------------
(* Type correctness. *)

LEMMA NbrStepType ==
    ASSUME TypeOK, NEW n \in Nbr, NbrStep(n) \/ Reap(n)
    PROVE  TypeOK'
<1>. USE ConstantsAssumption DEF TypeOK
<1>0. calls # <<>>
  BY DEF NbrStep, Running, NbrHelloRcvd, Nbr1WayRcvd, Nbr2WayRcvd, NbrDDRcvd,
         NbrNegDone, NbrExchangeDone, NbrLoadingDone, NbrEval, NbrRestartDD,
         NbrKill, Reap
<1>1. <<>> \in Seq(Call) /\ \A new : TellIfc(n, new) \in Seq(Call)
  BY TellIfcType
<1>2. \A r \in Seq(Call) : Return(n, r) => calls' \in Seq(Call)
  BY <1>0, ReturnType
<1>3. Without(pendq, n) \in Seq(Nbr)
  BY WithoutFacts
<1>4. DelPendAdj(n) => pendq' \in Seq(Nbr) /\ adjPend' \in [Nbr -> BOOLEAN]
  BY <1>3 DEF DelPendAdj
<1>5. AddPendAdj(n) => pendq' \in Seq(Nbr) /\ adjPend' \in [Nbr -> BOOLEAN]
  BY DEF AddPendAdj
<1>. DEFINE Num(x) == x \in Int /\ x + 1 \in Int /\ x - 1 \in Int
<1>n. Num(localInits) /\ Num(remoteInits) /\ Num(dbxNbrs)
  OBVIOUS
<1>s. {"None", "Init", "Down", "2Way", "ExStart", "Exchange", "Loading", "Full"}
      = States \cup {"None"}
  BY DEF States, BIDIR, ADJFORM, FLOOD, Exchanging
<1>. USE <1>s DEF nbrVars, slotVars, ifcVars
<1>6. \A s \in States \cup {"None"} : GiveUp(n, s) =>
         /\ nst' \in [Nbr -> States \cup {"None"}]
         /\ remoteInit' \in [Nbr -> BOOLEAN]
         /\ reqs' \in [Nbr -> BOOLEAN]
         /\ progt' \in [Nbr -> BOOLEAN]
         /\ localInits' \in Int /\ remoteInits' \in Int /\ dbxNbrs' \in Int
  <2>. TAKE s \in States \cup {"None"}
  <2>. HAVE GiveUp(n, s)
  <2>1. CASE nst[n] \in Negotiating
    BY <2>1, <1>n DEF GiveUp, exit_dbxchg
  <2>2. CASE nst[n] \notin Negotiating
    BY <2>2, <1>n DEF GiveUp
  <2>. QED
    BY <2>1, <2>2
<1>7. StayTwoWay(n) /\ (DelPendAdj(n) \/ AddPendAdj(n) \/ UNCHANGED <<pendq, adjPend>>)
        /\ UNCHANGED ifcVars => TypeOK'
  BY <1>1, <1>2, <1>4, <1>5 DEF StayTwoWay
<1>8. \A r \in BOOLEAN : TakeSlot(n, r) /\ UNCHANGED ifcVars => TypeOK'
  <2>1. TakeSlot(n, TRUE) /\ UNCHANGED ifcVars => TypeOK'
    BY <1>n, <1>1, <1>2, <1>4 DEF TakeSlot
  <2>2. TakeSlot(n, FALSE) /\ UNCHANGED ifcVars => TypeOK'
    BY <1>n, <1>1, <1>2, <1>4 DEF TakeSlot
  <2>. QED
    BY <2>1, <2>2
<1>9. Ignored(n) /\ UNCHANGED ifcVars => TypeOK'
  BY <1>1, <1>2 DEF Ignored
<1>a. CASE NbrHelloRcvd(n)
  BY <1>a, <1>1, <1>2, <1>9 DEF NbrHelloRcvd
<1>b. CASE Nbr1WayRcvd(n)
  BY <1>b, <1>1, <1>2, <1>4, <1>6, <1>9 DEF Nbr1WayRcvd
<1>c. CASE Nbr2WayRcvd(n)
  BY <1>c, <1>7, <1>8, <1>9 DEF Nbr2WayRcvd, nba_eval1
<1>d. CASE NbrDDRcvd(n)
  BY <1>d, <1>7, <1>8, <1>9 DEF NbrDDRcvd, nba_eval2
<1>e. CASE NbrNegDone(n)
  BY <1>e, <1>n, <1>1, <1>2, <1>9 DEF NbrNegDone
<1>f. BecomeFull(n) /\ Return(n, <<>>) /\ UNCHANGED ifcVars => TypeOK'
  BY <1>n, <1>1, <1>2 DEF BecomeFull, exit_dbxchg
<1>g. CASE NbrExchangeDone(n)
  BY <1>g, <1>1, <1>2, <1>9, <1>f DEF NbrExchangeDone
<1>h. CASE NbrLoadingDone(n)
  BY <1>h, <1>9, <1>f DEF NbrLoadingDone
<1>i. CASE NbrEval(n)
  BY <1>i, <1>1, <1>2, <1>4, <1>6, <1>7, <1>8, <1>9 DEF NbrEval, nba_eval1
<1>j. CASE NbrRestartDD(n)
  <2>1. Append(Without(pendq, n), n) \in Seq(Nbr) /\ Append(pendq, n) \in Seq(Nbr)
    BY <1>3, AppendProperties
  <2>. QED
    BY <1>j, <1>1, <1>2, <1>6, <1>9, <2>1 DEF NbrRestartDD
<1>k. CASE NbrKill(n)
  BY <1>k, <1>1, <1>2, <1>4, <1>6 DEF NbrKill
<1>l. CASE Reap(n)
  BY <1>l, <1>1, <1>2, <1>4, <1>6, <1>9 DEF Reap
<1>. QED
  BY <1>a, <1>b, <1>c, <1>d, <1>e, <1>g, <1>h, <1>i, <1>j, <1>k, <1>l DEF NbrStep

LEMMA IfcStepType ==
    ASSUME TypeOK, NEW i \in Ifc, IfcNChg(i) \/ IfcElect(i)
    PROVE  TypeOK'
<1>. USE ConstantsAssumption DEF TypeOK
<1>1. calls # <<>>
  BY DEF IfcNChg, IfcElect, Running
<1>2. \A r \in Seq(Call) : Return(i, r) => calls' \in Seq(Call)
  BY <1>1, ReturnType
<1>3. <<>> \in Seq(Call)
  OBVIOUS
<1>4. \A T \in SUBSET Nbr : Raise("Eval", T) \in Seq(Call)
  BY RaiseType DEF Events, NbrEvents
<1>5. ASSUME NEW d \in Winners(i), NEW b \in Winners(i), ifa_elect(i, d, b),
             UNCHANGED <<nbrVars, slotVars, deleteNbrs>>
      PROVE  TypeOK'
  <2>. DEFINE present == {n \in NbrsOf(i) : nst[n] # "None"}
  <2>1. present \in SUBSET Nbr
    BY DEF NbrsOf
  <2>2. (IF present = {} THEN <<>> ELSE Raise("Eval", present)) \in Seq(Call)
    BY <2>1, <1>4
  <2>3. calls' \in Seq(Call)
    BY <2>2, <1>2, <1>5 DEF ifa_elect
  <2>4. {d, b} \subseteq Nbr \cup {Self, NoAddr}
    BY DEF Winners, NbrsOf
  <2>. QED
    BY <1>5, <2>3, <2>4 DEF ifa_elect, nbrVars, slotVars
<1>6. CASE IfcNChg(i)
  BY <1>2, <1>3, <1>5, <1>6 DEF IfcNChg, nbrVars, slotVars, ifcVars
<1>7. CASE IfcElect(i)
  BY <1>2, <1>3, <1>5, <1>7 DEF IfcElect, nbrVars, slotVars, ifcVars
<1>. QED
  BY <1>6, <1>7

LEMMA DrainType ==
    ASSUME TypeOK, Drain
    PROVE  TypeOK'
<1>. USE ConstantsAssumption DEF TypeOK, Drain, ifcVars
<1>1. CASE localInits < MaxDDs /\ pendq # <<>>
  <2>1. Head(pendq) \in Nbr /\ Tail(pendq) \in Seq(Nbr)
    BY <1>1, HeadTailProperties
  <2>2. Raise("Eval", {Head(pendq)}) \in Seq(Call)
    BY <2>1, RaiseType DEF Events, NbrEvents
  <2>3. calls' \in Seq(Call)
    <3>1. localInits \in Int /\ MaxDDs \in Int
      OBVIOUS
    <3>2. ~(localInits >= MaxDDs \/ pendq = <<>>)
      BY <1>1, <3>1
    <3>3. calls' = Raise("Eval", {Head(pendq)}) \o calls
      BY <3>2, Zenon DEF Drain
    <3>. QED
      BY <2>2, <3>3, ConcatProperties
  <2>. QED
    BY <1>1, <2>1, <2>3
<1>2. CASE ~(localInits < MaxDDs /\ pendq # <<>>)
  <2>1. calls' = Tail(calls) /\ UNCHANGED <<pendq, adjPend>>
    BY <1>2
  <2>2. calls' \in Seq(Call)
    BY <2>1, HeadTailProperties
  <2>. QED
    BY <2>1, <2>2
<1>. QED
  BY <1>1, <1>2

\* What a handler enters with is well formed.
LEMMA EnterType ==
    ASSUME TypeOK
    PROVE  /\ \A e \in Events, T \in SUBSET (Nbr \cup Ifc) :
                 Raise(e, T) \in Seq(Call)
           /\ \A c1, c2 \in Seq(Call) : c1 \o c2 \in Seq(Call)
           /\ <<>> \in Seq(Call)
BY RaiseType, ConcatProperties

LEMMA HandlerType ==
    ASSUME TypeOK, NEW n \in Nbr,
           \/ Hello(n) \/ RecvFirstDD(n) \/ RecvNegotiation(n) \/ RecvNews(n)
           \/ AllDescribed(n) \/ LastRequestServed(n) \/ RecvMismatch(n)
           \/ AdjTmo(n) \/ Inactive(n)
    PROVE  TypeOK'
<1>. USE ConstantsAssumption DEF TypeOK, nbrVars, slotVars, ifcVars, Unchanged
<1>1. \A e \in NbrEvents : Raise(e, {n}) \in Seq(Call)
  BY EnterType DEF Events
<1>2. \A e \in IfcEvents : Raise(e, {ifcOf[n]}) \in Seq(Call)
  BY EnterType DEF Events
<1>3. CASE Hello(n)
  <2>1. PICK listed, priChange, change, seen \in BOOLEAN :
               RecvHello(n, listed, priChange, change, seen)
    BY <1>3 DEF Hello
  <2>. DEFINE ev(e) == Raise(e, {n})
              reEval == IF priChange THEN ev("Eval") ELSE <<>>
              tell == IF seen THEN Raise("Elect", {ifcOf[n]})
                      ELSE IF priChange \/ change
                           THEN Raise("NChg", {ifcOf[n]}) ELSE <<>>
              first == IF nst[n] \in {"None", "Down"} THEN ev("Eval") ELSE <<>>
  <2>2. \A e \in {"HelloRcvd", "1WayRcvd", "2WayRcvd", "Eval"} : ev(e) \in Seq(Call)
    BY <1>1 DEF NbrEvents
  <2>3. reEval \in Seq(Call) /\ first \in Seq(Call)
    BY <2>2, EnterType
  <2>4. tell \in Seq(Call)
    BY <1>2, EnterType DEF IfcEvents
  <2>5. calls' = ev("HelloRcvd") \o (IF listed THEN (ev("2WayRcvd") \o reEval) \o tell
                                    ELSE ev("1WayRcvd") \o first)
    BY <2>1 DEF RecvHello, Enter
  <2>. HIDE DEF ev, reEval, tell, first
  <2>6. calls' \in Seq(Call)
    <3>1. (ev("2WayRcvd") \o reEval) \o tell \in Seq(Call)
      <4>1. ev("2WayRcvd") \o reEval \in Seq(Call)
        BY <2>2, <2>3, EnterType
      <4>. QED
        BY <2>4, <4>1, EnterType
    <3>2. ev("1WayRcvd") \o first \in Seq(Call)
      BY <2>2, <2>3, EnterType
    <3>. QED
      BY <2>2, <2>5, <3>1, <3>2, EnterType
  <2>7. nst' \in [Nbr -> States \cup {"None"}]
    BY <2>1 DEF RecvHello, States
  <2>. QED
    BY <2>1, <2>6, <2>7 DEF RecvHello
<1>4. CASE RecvFirstDD(n)
  BY <1>1, <1>4 DEF RecvFirstDD, Enter, NbrEvents
<1>5. CASE RecvNegotiation(n)
  BY <1>1, <1>5 DEF RecvNegotiation, Enter, NbrEvents
<1>6. CASE RecvNews(n)
  BY <1>6 DEF RecvNews
<1>7. CASE AllDescribed(n)
  BY <1>1, <1>7 DEF AllDescribed, Enter, NbrEvents
<1>8. CASE LastRequestServed(n)
  BY <1>1, <1>8, EnterType DEF LastRequestServed, NbrEvents
<1>9. CASE RecvMismatch(n)
  BY <1>1, <1>9 DEF RecvMismatch, Enter, NbrEvents
<1>10. CASE AdjTmo(n)
  BY <1>1, <1>10 DEF AdjTmo, NbrEvents
<1>11. CASE Inactive(n)
  BY <1>1, <1>11 DEF Inactive, NbrEvents
<1>. QED
  BY <1>3, <1>4, <1>5, <1>6, <1>7, <1>8, <1>9, <1>10, <1>11

LEMMA TimerType ==
    ASSUME TypeOK,
           Tick \/ \E i \in Ifc : WaitOver(i) \/ IfUp(i) \/ IfDown(i)
    PROVE  TypeOK'
<1>. USE ConstantsAssumption DEF TypeOK, nbrVars, slotVars, ifcVars, Unchanged
<1>1. CASE Tick
  <2>. DEFINE present == {n \in Nbr : nst[n] # "None"}
              reap == IF deleteNbrs /\ present # {} THEN Raise("Reap", present) ELSE <<>>
  <2>1. reap \in Seq(Call)
    BY EnterType DEF Events
  <2>2. Raise("Drain", {}) \in Seq(Call)
    BY EnterType DEF Events
  <2>3. calls' \in Seq(Call)
    BY <1>1, <2>1, <2>2, EnterType DEF Tick, Enter
  <2>. QED
    BY <1>1, <2>3 DEF Tick
<1>2. ASSUME NEW i \in Ifc, WaitOver(i)
      PROVE  TypeOK'
  <2>1. Raise("Elect", {i}) \in Seq(Call)
    BY EnterType DEF Events, IfcEvents
  <2>. QED
    BY <1>2, <2>1 DEF WaitOver, Enter
<1>3. ASSUME NEW i \in Ifc, IfUp(i)
      PROVE  TypeOK'
  BY <1>3 DEF IfUp
<1>4. ASSUME NEW i \in Ifc, IfDown(i)
      PROVE  TypeOK'
  <2>. DEFINE present == {n \in NbrsOf(i) : nst[n] # "None"}
              kill == IF present = {} THEN <<>> ELSE Raise("Kill", present)
  <2>1. kill \in Seq(Call)
    BY EnterType DEF Events, NbrEvents, NbrsOf
  <2>2. calls' = kill
    BY <1>4 DEF IfDown, Enter
  <2>. QED
    BY <1>4, <2>1, <2>2 DEF IfDown
<1>. QED
  BY <1>1, <1>2, <1>3, <1>4

\* Every reachable state is well typed: in particular the queue never gets an
\* entry that is not a neighbour, and the call stack stays a stack of events.
THEOREM TypeCorrect == Spec => []TypeOK
<1>1. Init => TypeOK
  <2>1. <<>> \in Seq(Nbr) /\ <<>> \in Seq(Call)
    OBVIOUS
  <2>. SUFFICES ASSUME Init
                PROVE  TypeOK
    OBVIOUS
  <2>2. /\ nst \in [Nbr -> States \cup {"None"}] /\ remoteInit \in [Nbr -> BOOLEAN]
        /\ adjPend \in [Nbr -> BOOLEAN] /\ reqs \in [Nbr -> BOOLEAN]
        /\ inactt \in [Nbr -> BOOLEAN] /\ progt \in [Nbr -> BOOLEAN]
    BY DEF Init
  <2>3. /\ ifst \in [Ifc -> {"Down", "Wait", "Other", "Backup", "DR"}]
        /\ dr \in [Ifc -> Nbr \cup {Self, NoAddr}]
        /\ bdr \in [Ifc -> Nbr \cup {Self, NoAddr}]
    BY DEF Init
  <2>4. localInits \in Int /\ remoteInits \in Int /\ dbxNbrs \in Int
    BY DEF Init
  <2>5. deleteNbrs \in BOOLEAN
    BY DEF Init
  <2>6. pendq \in Seq(Nbr) /\ calls \in Seq(Call)
    BY <2>1 DEF Init
  <2>. QED
    BY <2>2, <2>3, <2>4, <2>5, <2>6 DEF TypeOK
<1>2. TypeOK /\ [Next]_vars => TypeOK'
  <2>. SUFFICES ASSUME TypeOK, [Next]_vars
                PROVE  TypeOK'
    OBVIOUS
  <2>1. CASE Next
    BY <2>1, NbrStepType, IfcStepType, DrainType, HandlerType, TimerType
       DEF Next, Step
  <2>2. CASE UNCHANGED vars
    BY <2>2 DEF TypeOK, vars, nbrVars, slotVars, ifcVars
  <2>. QED
    BY <2>1, <2>2
<1>. QED
  BY <1>1, <1>2, PTL DEF Spec

-----------------------------------------------------------------------------
(* The queue of waiting neighbours. *)

\* QueueSound of a queue q, flags f and states st.
QueueOK(q, f, st) ==
    /\ \A j, k \in 1..Len(q) : q[j] = q[k] => j = k
    /\ \A m \in Nbr : f[m] <=> \E k \in 1..Len(q) : q[k] = m
    /\ \A m \in Nbr : f[m] => st[m] = "2Way"

LEMMA QueueOKIsSound ==
    ASSUME pendq \in Seq(Nbr)
    PROVE  QueueSound <=> QueueOK(pendq, adjPend, nst)
BY DEF QueueSound, QueueOK, InQueue

\* Unlinking a neighbour leaves a sound queue without it.
LEMMA UnlinkSound ==
    ASSUME NEW q \in Seq(Nbr), NEW f \in [Nbr -> BOOLEAN],
           NEW T, NEW st \in [Nbr -> T], QueueOK(q, f, st),
           NEW n \in Nbr, NEW s,
           NEW w, w = IF f[n] THEN Without(q, n) ELSE q
    PROVE  /\ w \in Seq(Nbr)
           /\ QueueOK(w, [f EXCEPT ![n] = FALSE], [st EXCEPT ![n] = s])
<1>1. q \in Seq(Nbr) /\ w \in Seq(Nbr)
  BY WithoutFacts
<1>3. \A m \in Nbr : f[m] <=> \E k \in 1..Len(q) : q[k] = m
  BY DEF QueueOK
<1>4. \A j, k \in 1..Len(q) : q[j] = q[k] => j = k
  BY DEF QueueOK
<1>5. /\ \A j, k \in 1..Len(w) : w[j] = w[k] => j = k
      /\ \A m \in Nbr : (\E k \in 1..Len(w) : w[k] = m)
                          <=> m # n /\ (\E k \in 1..Len(q) : q[k] = m)
  <2>1. CASE ~f[n]
    BY <2>1, <1>3, <1>4
  <2>2. CASE f[n]
    <3>1. w = Without(q, n)
      BY <2>2
    <3>2. PICK k \in 1..Len(q) :
             /\ q[k] = n
             /\ Len(w) = Len(q) - 1
             /\ \A j \in 1..(Len(q) - 1) : w[j] = IF j < k THEN q[j] ELSE q[j + 1]
      <4>1. \E k \in 1..Len(q) : q[k] = n
        BY <1>3, <2>2
      <4>2. q \in Seq(Nbr)
        BY <1>1
      <4>3. \E k \in 1..Len(q) :
               /\ q[k] = n
               /\ Len(Without(q, n)) = Len(q) - 1
               /\ \A j \in 1..(Len(q) - 1) :
                    Without(q, n)[j] = IF j < k THEN q[j] ELSE q[j + 1]
        BY <4>1, <4>2, WithoutFacts
      <4>. QED
        BY <3>1, <4>3
    <3>. DEFINE old(j) == IF j < k THEN j ELSE j + 1
    <3>3. Len(q) \in Nat /\ Len(w) = Len(q) - 1
      BY <1>1, <3>2
    <3>4. \A j \in 1..Len(w) : old(j) \in 1..Len(q) /\ old(j) # k /\ w[j] = q[old(j)]
      BY <3>2, <3>3
    <3>5. \A j, l \in 1..Len(w) : old(j) = old(l) => j = l
      BY <3>2, <3>3
    <3>6. \A l \in 1..Len(q) : l # k => \E j \in 1..Len(w) : old(j) = l
      <4>. TAKE l \in 1..Len(q)
      <4>. HAVE l # k
      <4>1. CASE l < k
        BY <4>1, <3>2, <3>3
      <4>2. CASE l > k
        <5>1. l - 1 \in 1..Len(w) /\ old(l - 1) = l
          BY <4>2, <3>2, <3>3
        <5>. QED
          BY <5>1
      <4>. QED
        BY <4>1, <4>2, <3>3
    <3>. HIDE DEF old
    <3>7. \A j, l \in 1..Len(w) : w[j] = w[l] => j = l
      <4>. TAKE j, l \in 1..Len(w)
      <4>1. old(j) \in 1..Len(q) /\ w[j] = q[old(j)]
        BY <3>4
      <4>2. old(l) \in 1..Len(q) /\ w[l] = q[old(l)]
        BY <3>4
      <4>3. q[old(j)] = q[old(l)] => old(j) = old(l)
        BY <1>4, <4>1, <4>2
      <4>. QED
        BY <3>5, <4>1, <4>2, <4>3
    <3>8. ASSUME NEW m \in Nbr
          PROVE  (\E j \in 1..Len(w) : w[j] = m)
                  <=> m # n /\ (\E l \in 1..Len(q) : q[l] = m)
      <4>1. ASSUME NEW j \in 1..Len(w), w[j] = m
            PROVE  m # n /\ (\E l \in 1..Len(q) : q[l] = m)
        <5>1. old(j) \in 1..Len(q) /\ old(j) # k /\ q[old(j)] = m
          BY <4>1, <3>4
        <5>2. q[old(j)] # q[k]
          BY <5>1, <1>4
        <5>. QED
          BY <5>1, <5>2, <3>2
      <4>2. ASSUME m # n, NEW l \in 1..Len(q), q[l] = m
            PROVE  \E j \in 1..Len(w) : w[j] = m
        <5>1. PICK j \in 1..Len(w) : old(j) = l
          BY <4>2, <3>2, <3>6
        <5>. QED
          BY <5>1, <4>2, <3>4
      <4>. QED
        BY <4>1, <4>2
    <3>. QED
      BY <3>7, <3>8
  <2>. QED
    BY <2>1, <2>2
<1>6. \A m \in Nbr : [f EXCEPT ![n] = FALSE][m] <=> m # n /\ f[m]
  OBVIOUS
<1>7. \A m \in Nbr : f[m] /\ m # n => [st EXCEPT ![n] = s][m] = "2Way"
  BY DEF QueueOK
<1>. QED
  BY <1>1, <1>3, <1>5, <1>6, <1>7 DEF QueueOK

\* A neighbour that does not wait may queue up, if it is 2-Way.
LEMMA AppendSound ==
    ASSUME NEW q \in Seq(Nbr), NEW f \in [Nbr -> BOOLEAN],
           NEW st, QueueOK(q, f, st), NEW n \in Nbr, ~f[n], st[n] = "2Way"
    PROVE  QueueOK(Append(q, n), [f EXCEPT ![n] = TRUE], st)
<1>. DEFINE w == Append(q, n)
<1>1. /\ Len(w) = Len(q) + 1 /\ w[Len(q) + 1] = n /\ Len(q) \in Nat
      /\ \A k \in 1..Len(q) : w[k] = q[k]
  BY AppendProperties
<1>2. \A k \in 1..Len(q) : q[k] # n
  BY DEF QueueOK
<1>. HIDE DEF w
<1>3. \A j, k \in 1..Len(w) : w[j] = w[k] => j = k
  <2>. TAKE j, k \in 1..Len(w)
  <2>1. (j \in 1..Len(q) \/ j = Len(q) + 1) /\ (k \in 1..Len(q) \/ k = Len(q) + 1)
    BY <1>1
  <2>. QED
    BY <2>1, <1>1, <1>2 DEF QueueOK
<1>4. \A m \in Nbr : (\E k \in 1..Len(w) : w[k] = m)
                      <=> m = n \/ (\E k \in 1..Len(q) : q[k] = m)
  <2>1. \A k \in 1..Len(w) : k \in 1..Len(q) \/ k = Len(q) + 1
    BY <1>1
  <2>2. Len(q) + 1 \in 1..Len(w) /\ \A k \in 1..Len(q) : k \in 1..Len(w)
    BY <1>1
  <2>. QED
    BY <1>1, <2>1, <2>2
<1>5. \A m \in Nbr : [f EXCEPT ![n] = TRUE][m] <=> m = n \/ f[m]
  OBVIOUS
<1>. QED
  BY <1>3, <1>4, <1>5 DEF QueueOK, w

\* Taking the head leaves a sound queue without it.
LEMMA TailSound ==
    ASSUME NEW q \in Seq(Nbr), q # <<>>, NEW f \in [Nbr -> BOOLEAN],
           NEW st, QueueOK(q, f, st)
    PROVE  /\ Head(q) \in Nbr /\ st[Head(q)] = "2Way"
           /\ QueueOK(Tail(q), [f EXCEPT ![Head(q)] = FALSE], st)
<1>. DEFINE w == Tail(q)
            h == Head(q)
<1>1. /\ h = q[1] /\ h \in Nbr /\ Len(q) \in Nat \ {0} /\ Len(w) = Len(q) - 1
      /\ \A k \in 1..Len(w) : w[k] = q[k + 1]
  BY HeadTailProperties
<1>. HIDE DEF w, h
<1>2. \A k \in 1..Len(w) : k + 1 \in 1..Len(q) /\ k + 1 # 1
  BY <1>1
<1>3. \A l \in 1..Len(q) : l = 1 \/ (l - 1 \in 1..Len(w) /\ (l - 1) + 1 = l)
  BY <1>1
<1>4. 1 \in 1..Len(q)
  BY <1>1
<1>5. \A j, k \in 1..Len(w) : w[j] = w[k] => j = k
  BY <1>1, <1>2 DEF QueueOK
<1>6. \A m \in Nbr : (\E k \in 1..Len(w) : w[k] = m)
                      <=> m # h /\ (\E k \in 1..Len(q) : q[k] = m)
  <2>. TAKE m \in Nbr
  <2>1. ASSUME NEW k \in 1..Len(w), w[k] = m
        PROVE  m # h /\ (\E l \in 1..Len(q) : q[l] = m)
    BY <2>1, <1>1, <1>2, <1>4 DEF QueueOK
  <2>2. ASSUME m # h, NEW l \in 1..Len(q), q[l] = m
        PROVE  \E k \in 1..Len(w) : w[k] = m
    BY <2>2, <1>1, <1>3
  <2>. QED
    BY <2>1, <2>2
<1>7. \A m \in Nbr : [f EXCEPT ![h] = FALSE][m] <=> m # h /\ f[m]
  BY <1>1
<1>8. f[h]
  BY <1>1, <1>4 DEF QueueOK
<1>. QED
  BY <1>1, <1>5, <1>6, <1>7, <1>8 DEF QueueOK, w, h

\* The state of one neighbour that does not wait, or stays 2-Way, may change.
LEMMA StateSound ==
    ASSUME NEW q, NEW f, NEW T, NEW st \in [Nbr -> T], QueueOK(q, f, st),
           NEW n \in Nbr, NEW s, ~f[n] \/ s = "2Way"
    PROVE  QueueOK(q, f, [st EXCEPT ![n] = s])
BY DEF QueueOK

LEMMA NbrStepQueue ==
    ASSUME TypeOK, QueueSound, NEW n \in Nbr, NbrStep(n) \/ Reap(n)
    PROVE  QueueSound'
<1>1. /\ pendq \in Seq(Nbr) /\ adjPend \in [Nbr -> BOOLEAN]
      /\ nst \in [Nbr -> States \cup {"None"}]
  BY DEF TypeOK
<1>2. pendq' \in Seq(Nbr)
  BY NbrStepType DEF TypeOK
<1>3. QueueOK(pendq, adjPend, nst)
  BY <1>1, QueueOKIsSound
<1>. SUFFICES QueueOK(pendq', adjPend', nst')
  BY <1>2 DEF QueueSound, QueueOK, InQueue
<1>. DEFINE OK == QueueOK(pendq', adjPend', nst')
            Becomes(s) == nst' = [nst EXCEPT ![n] = s]
<1>4. ASSUME NEW s, Becomes(s), DelPendAdj(n)
      PROVE  OK
  <2>. DEFINE w == IF adjPend[n] THEN Without(pendq, n) ELSE pendq
  <2>1. QueueOK(w, [adjPend EXCEPT ![n] = FALSE], [nst EXCEPT ![n] = s])
    BY <1>1, <1>3, UnlinkSound
  <2>2. pendq' = w /\ adjPend' = [adjPend EXCEPT ![n] = FALSE]
    BY <1>4 DEF DelPendAdj
  <2>. HIDE DEF w
  <2>. QED
    BY <1>4, <2>1, <2>2
<1>5. ASSUME NEW s, Becomes(s), ~adjPend[n] \/ s = "2Way",
             UNCHANGED <<pendq, adjPend>>
      PROVE  OK
  <2>1. QueueOK(pendq, adjPend, [nst EXCEPT ![n] = s])
    BY <1>1, <1>3, <1>5, StateSound
  <2>. QED
    BY <1>5, <2>1
<1>6. UNCHANGED <<nst, pendq, adjPend>> => OK
  BY <1>3
<1>7. Becomes("2Way") /\ AddPendAdj(n) => OK
  <2>. SUFFICES ASSUME Becomes("2Way"), AddPendAdj(n)
                PROVE  OK
    OBVIOUS
  <2>1. QueueOK(pendq, adjPend, nst')
    BY <1>1, <1>3, StateSound
  <2>2. nst'[n] = "2Way"
    BY <1>1
  <2>3. CASE adjPend[n]
    BY <1>1, <2>1, <2>3 DEF AddPendAdj
  <2>4. CASE ~adjPend[n]
    <3>1. pendq' = Append(pendq, n) /\ adjPend' = [adjPend EXCEPT ![n] = TRUE]
      BY <2>4 DEF AddPendAdj
    <3>. QED
      BY <1>1, <2>1, <2>2, <2>4, <3>1, AppendSound
  <2>. QED
    BY <2>3, <2>4
<1>8. nst[n] # "2Way" => ~adjPend[n]
  BY DEF QueueSound
<1>9. Ignored(n) => OK
  BY <1>6 DEF Ignored, nbrVars, slotVars
<1>10. nba_eval1(n) => OK
  BY <1>4, <1>7 DEF nba_eval1, TakeSlot, StayTwoWay
<1>11. nba_eval2(n) => OK
  BY <1>4, <1>5, <1>7 DEF nba_eval2, TakeSlot, StayTwoWay
<1>12. BecomeFull(n) /\ nst[n] # "2Way" => OK
  BY <1>5, <1>8 DEF BecomeFull
<1>a. CASE NbrHelloRcvd(n)
  BY <1>a, <1>5, <1>8, <1>9 DEF NbrHelloRcvd, slotVars
<1>b. CASE Nbr1WayRcvd(n)
  BY <1>b, <1>4, <1>9 DEF Nbr1WayRcvd, GiveUp
<1>c. CASE Nbr2WayRcvd(n)
  BY <1>c, <1>9, <1>10 DEF Nbr2WayRcvd
<1>d. CASE NbrDDRcvd(n)
  BY <1>d, <1>9, <1>11 DEF NbrDDRcvd
<1>e. CASE NbrNegDone(n)
  BY <1>e, <1>5, <1>8, <1>9 DEF NbrNegDone
<1>g. CASE NbrExchangeDone(n)
  BY <1>g, <1>5, <1>8, <1>9, <1>12 DEF NbrExchangeDone, slotVars
<1>h. CASE NbrLoadingDone(n)
  BY <1>h, <1>9, <1>12 DEF NbrLoadingDone
<1>i. CASE NbrEval(n)
  BY <1>i, <1>4, <1>9, <1>10 DEF NbrEval, GiveUp
<1>j. CASE NbrRestartDD(n)
  <2>1. CASE nst[n] \in ADJFORM
    <3>1. /\ Becomes("2Way")
          /\ pendq' = Append(IF adjPend[n] THEN Without(pendq, n) ELSE pendq, n)
          /\ adjPend' = [adjPend EXCEPT ![n] = TRUE]
      BY <1>j, <2>1 DEF NbrRestartDD, GiveUp, Ignored
    <3>. DEFINE w == IF adjPend[n] THEN Without(pendq, n) ELSE pendq
                f == [adjPend EXCEPT ![n] = FALSE]
    <3>2. w \in Seq(Nbr) /\ QueueOK(w, f, [nst EXCEPT ![n] = "2Way"])
      BY <1>1, <1>3, UnlinkSound
    <3>3. f \in [Nbr -> BOOLEAN] /\ ~f[n] /\ adjPend' = [f EXCEPT ![n] = TRUE]
      BY <1>1, <3>1
    <3>4. nst'[n] = "2Way"
      BY <1>1, <3>1
    <3>5. pendq' = Append(w, n) /\ QueueOK(w, f, nst')
      BY <3>1, <3>2
    <3>. HIDE DEF w, f
    <3>. QED
      BY <3>2, <3>3, <3>4, <3>5, AppendSound
  <2>2. CASE nst[n] \notin ADJFORM
    BY <1>j, <1>9, <2>2 DEF NbrRestartDD
  <2>. QED
    BY <2>1, <2>2
<1>k. CASE NbrKill(n)
  BY <1>k, <1>4 DEF NbrKill, GiveUp
<1>l. CASE Reap(n)
  BY <1>l, <1>4, <1>9 DEF Reap, GiveUp
<1>. QED
  BY <1>a, <1>b, <1>c, <1>d, <1>e, <1>g, <1>h, <1>i, <1>j, <1>k, <1>l
     DEF NbrStep

LEMMA DrainQueue ==
    ASSUME TypeOK, QueueSound, Drain
    PROVE  QueueSound'
<1>1. /\ pendq \in Seq(Nbr) /\ adjPend \in [Nbr -> BOOLEAN]
      /\ localInits \in Int /\ MaxDDs \in Int
  BY ConstantsAssumption DEF TypeOK
<1>2. pendq' \in Seq(Nbr)
  BY DrainType DEF TypeOK
<1>3. QueueOK(pendq, adjPend, nst)
  BY <1>1, QueueOKIsSound
<1>4. QueueOK(pendq', adjPend', nst')
  <2>1. CASE localInits < MaxDDs /\ pendq # <<>>
    <3>1. /\ pendq' = Tail(pendq) /\ nst' = nst
          /\ adjPend' = [adjPend EXCEPT ![Head(pendq)] = FALSE]
      BY <1>1, <2>1 DEF Drain
    <3>. QED
      BY <1>1, <1>3, <2>1, <3>1, TailSound
  <2>2. CASE ~(localInits < MaxDDs /\ pendq # <<>>)
    <3>1. UNCHANGED <<pendq, adjPend, nst>>
      BY <2>2 DEF Drain
    <3>. QED
      BY <1>3, <3>1
  <2>. QED
    BY <2>1, <2>2
<1>. QED
  BY <1>2, <1>4 DEF QueueSound, QueueOK, InQueue

\* No other step touches the queue or takes a neighbour out of 2-Way.
LEMMA OtherQueue ==
    ASSUME TypeOK, QueueSound, UNCHANGED <<pendq, adjPend>>,
           \A m \in Nbr : nst[m] = "2Way" => nst'[m] = "2Way"
    PROVE  QueueSound'
BY DEF QueueSound, InQueue

LEMMA HandlerQueue ==
    ASSUME TypeOK, QueueSound,
           \/ \E n \in Nbr :
                 \/ Hello(n) \/ RecvFirstDD(n) \/ RecvNegotiation(n) \/ RecvNews(n)
                 \/ AllDescribed(n) \/ LastRequestServed(n) \/ RecvMismatch(n)
                 \/ AdjTmo(n) \/ Inactive(n)
           \/ \E i \in Ifc : WaitOver(i) \/ IfUp(i) \/ IfDown(i)
           \/ \E i \in Ifc : IfcNChg(i) \/ IfcElect(i)
           \/ Tick
    PROVE  QueueSound'
<1>1. UNCHANGED <<pendq, adjPend>>
  <2>. USE DEF Unchanged, nbrVars, slotVars
  <2>1. ASSUME NEW n \in Nbr, Hello(n) \/ RecvFirstDD(n) \/ RecvNegotiation(n)
        PROVE  UNCHANGED <<pendq, adjPend>>
    BY <2>1 DEF Hello, RecvHello, RecvFirstDD, RecvNegotiation
  <2>2. ASSUME NEW n \in Nbr,
               \/ RecvNews(n) \/ AllDescribed(n) \/ LastRequestServed(n)
               \/ RecvMismatch(n) \/ AdjTmo(n) \/ Inactive(n)
        PROVE  UNCHANGED <<pendq, adjPend>>
    BY <2>2 DEF RecvNews, AllDescribed, LastRequestServed, RecvMismatch, AdjTmo,
                Inactive
  <2>3. ASSUME NEW i \in Ifc,
               WaitOver(i) \/ IfUp(i) \/ IfDown(i) \/ IfcNChg(i) \/ IfcElect(i)
        PROVE  UNCHANGED <<pendq, adjPend>>
    BY <2>3 DEF WaitOver, IfUp, IfDown, IfcNChg, IfcElect
  <2>. QED
    BY <2>1, <2>2, <2>3 DEF Tick
<1>2. (\E n \in Nbr : Hello(n)) \/ nst' = nst
  BY DEF RecvFirstDD, RecvNegotiation, RecvNews, AllDescribed,
         LastRequestServed, RecvMismatch, AdjTmo, Inactive, WaitOver, IfUp,
         IfDown, IfcNChg, IfcElect, Tick, Unchanged, nbrVars, slotVars
<1>3. \A n \in Nbr : Hello(n) => \A m \in Nbr : nst[m] = "2Way" => nst'[m] = "2Way"
  BY DEF Hello, RecvHello, TypeOK
<1>. QED
  BY <1>1, <1>2, <1>3, OtherQueue

\* The waiting queue is sound in every reachable state: nobody is in it twice,
\* the flags agree with it, and whoever GetNextAdj takes from it is alive and
\* 2-Way.
THEOREM QueueCorrect == Spec => []QueueSound
<1>1. Init => QueueSound
  BY DEF Init, QueueSound, InQueue
<1>2. TypeOK /\ QueueSound /\ [Next]_vars => QueueSound'
  <2>. SUFFICES ASSUME TypeOK, QueueSound, [Next]_vars
                PROVE  QueueSound'
    OBVIOUS
  <2>1. CASE Next
    BY <2>1, NbrStepQueue, DrainQueue, HandlerQueue DEF Next, Step
  <2>2. CASE UNCHANGED vars
    BY <2>2, OtherQueue DEF vars, nbrVars, slotVars
  <2>. QED
    BY <2>1, <2>2
<1>. QED
  BY <1>1, <1>2, TypeCorrect, PTL DEF Spec

-----------------------------------------------------------------------------
(* The slots: each of their three counters is the cardinality of a set of      *)
(* neighbours, and every event moves at most one neighbour into or out of each. *)

(* One neighbour joins, leaves or neither. *)

\* A neighbour that joins a counted set makes it one larger.
LEMMA Joins ==
    ASSUME NEW X \in SUBSET Nbr, NEW Y \in SUBSET Nbr, NEW n \in Nbr,
           n \notin X, n \in Y,
           \A m \in Nbr \ {n} : m \in X <=> m \in Y
    PROVE  Cardinality(Y) = Cardinality(X) + 1
<1>1. IsFiniteSet(X)
  BY ConstantsAssumption, FS_Subset
<1>2. Y = X \cup {n}
  OBVIOUS
<1>. QED
  BY <1>1, <1>2, FS_AddElement

\* A neighbour that leaves a counted set makes it one smaller.
LEMMA Leaves ==
    ASSUME NEW X \in SUBSET Nbr, NEW Y \in SUBSET Nbr, NEW n \in Nbr,
           n \in X, n \notin Y,
           \A m \in Nbr \ {n} : m \in X <=> m \in Y
    PROVE  Cardinality(Y) = Cardinality(X) - 1
<1>1. IsFiniteSet(X)
  BY ConstantsAssumption, FS_Subset
<1>2. Y = X \ {n}
  OBVIOUS
<1>. QED
  BY <1>1, <1>2, FS_RemoveElement

\* A counted set that nobody joins or leaves keeps its size.
LEMMA Stays ==
    ASSUME NEW X \in SUBSET Nbr, NEW Y \in SUBSET Nbr,
           \A m \in Nbr : m \in X <=> m \in Y
    PROVE  Cardinality(Y) = Cardinality(X)
<1>1. Y = X
  OBVIOUS
<1>. QED
  BY <1>1

-----------------------------------------------------------------------------
(* The invariant. *)

Exchangers == {n \in Nbr : nst[n] \in Exchanging}

\* remote_init is not set of a neighbour without a slot: nba_eval1, which takes
\* a local one, does not write it.
FlagsClear == \A n \in Nbr : nst[n] \notin Negotiating => ~remoteInit[n]

SInv == SlotsCounted /\ FlagsClear

\* What an event does to the neighbours other than n.
OthersKeep(n) ==
    \A m \in Nbr \ {n} : nst'[m] = nst[m] /\ remoteInit'[m] = remoteInit[m]

\* An event of one neighbour moves no other into or out of a counted set.
LEMMA OthersStay ==
    ASSUME NEW n \in Nbr, OthersKeep(n)
    PROVE  /\ \A m \in Nbr \ {n} : /\ m \in Holders(TRUE) <=> m \in Holders(TRUE)'
                                   /\ m \in Holders(FALSE) <=> m \in Holders(FALSE)'
                                   /\ m \in Exchangers <=> m \in Exchangers'
           /\ FlagsClear /\ (nst'[n] \notin Negotiating => ~remoteInit'[n])
                => FlagsClear'
BY DEF OthersKeep, Holders, Exchangers, FlagsClear

\* The neighbour neither takes nor gives back a slot.
LEMMA Keeps ==
    ASSUME TypeOK, SInv, NEW n \in Nbr, OthersKeep(n),
           nst'[n] \in Negotiating <=> nst[n] \in Negotiating,
           nst'[n] \in Exchanging <=> nst[n] \in Exchanging,
           remoteInit'[n] = remoteInit[n],
           UNCHANGED <<localInits, remoteInits, dbxNbrs>>
    PROVE  SInv'
<1>1. \A m \in Nbr : /\ m \in Holders(TRUE) <=> m \in Holders(TRUE)'
                     /\ m \in Holders(FALSE) <=> m \in Holders(FALSE)'
                     /\ m \in Exchangers <=> m \in Exchangers'
  BY OthersStay DEF Holders, Exchangers
<1>2. /\ Cardinality(Holders(TRUE)') = Cardinality(Holders(TRUE))
      /\ Cardinality(Holders(FALSE)') = Cardinality(Holders(FALSE))
      /\ Cardinality(Exchangers') = Cardinality(Exchangers)
  <2>1. /\ Holders(TRUE) \subseteq Nbr /\ Holders(TRUE)' \subseteq Nbr
        /\ Holders(FALSE) \subseteq Nbr /\ Holders(FALSE)' \subseteq Nbr
        /\ Exchangers \subseteq Nbr /\ Exchangers' \subseteq Nbr
    BY DEF Holders, Exchangers
  <2>. QED
    BY <1>1, <2>1, Stays
<1>3. FlagsClear'
  BY OthersStay DEF SInv, FlagsClear
<1>. QED
  BY <1>2, <1>3 DEF SInv, SlotsCounted, Exchangers

\* The counted sets are sets of neighbours, now and after a step.
LEMMA AllSubsets ==
    /\ Holders(TRUE) \in SUBSET Nbr /\ Holders(TRUE)' \in SUBSET Nbr
    /\ Holders(FALSE) \in SUBSET Nbr /\ Holders(FALSE)' \in SUBSET Nbr
    /\ Exchangers \in SUBSET Nbr /\ Exchangers' \in SUBSET Nbr
BY DEF Holders, Exchangers

\* A slot is given back, and counted as such.
LEMMA GivesBack ==
    ASSUME TypeOK, SInv, NEW n \in Nbr, OthersKeep(n),
           nst[n] \in Negotiating, nst'[n] \notin Negotiating, exit_dbxchg(n),
           dbxNbrs' = IF nst[n] \in Exchanging THEN dbxNbrs - 1 ELSE dbxNbrs
    PROVE  SInv'
<1>. USE AllSubsets
<1>. DEFINE locals == Cardinality(Holders(FALSE))
            locals2 == Cardinality(Holders(FALSE)')
            remotes == Cardinality(Holders(TRUE))
            remotes2 == Cardinality(Holders(TRUE)')
<1>0. localInits = locals /\ remoteInits = remotes
  BY DEF SInv, SlotsCounted
<1>b. localInits <= MaxDDs /\ remoteInits <= MaxDDs
  BY DEF SInv, SlotsCounted
<1>i. localInits \in Int /\ remoteInits \in Int /\ MaxDDs \in Int
  BY ConstantsAssumption DEF TypeOK
<1>g. localInits' = locals2 /\ remoteInits' = remotes2 /\ localInits' <= MaxDDs /\ remoteInits' <= MaxDDs
         /\ FlagsClear' /\ dbxNbrs' = Cardinality(Exchangers') => SInv'
  BY DEF SInv, SlotsCounted, Exchangers
<1>1. remoteInit'[n] = FALSE /\ remoteInit[n] \in BOOLEAN
  BY DEF exit_dbxchg, TypeOK
<1>2. nst'[n] \notin Exchanging
  BY DEF Negotiating, Exchanging
<1>3. FlagsClear'
  BY <1>1, OthersStay DEF SInv
<1>4. Cardinality(Exchangers') = IF nst[n] \in Exchanging THEN Cardinality(Exchangers) - 1
                                 ELSE Cardinality(Exchangers)
  <2>1. CASE nst[n] \in Exchanging
    <3>1. n \in Exchangers /\ n \notin Exchangers'
      BY <1>2, <2>1 DEF Exchangers
    <3>. QED
      BY <2>1, <3>1, OthersStay, Leaves
  <2>2. CASE nst[n] \notin Exchanging
    <3>1. n \notin Exchangers /\ n \notin Exchangers'
      BY <1>2, <2>2 DEF Exchangers
    <3>2. \A m \in Nbr : m \in Exchangers <=> m \in Exchangers'
      BY <3>1, OthersStay
    <3>. QED
      BY <2>2, <3>2, Stays
  <2>. QED
    BY <2>1, <2>2
<1>5. dbxNbrs' = Cardinality(Exchangers')
  BY <1>4 DEF SInv, SlotsCounted, Exchangers
<1>6. n \notin Holders(TRUE)' /\ n \notin Holders(FALSE)'
  BY DEF Holders
<1>7. CASE remoteInit[n]
  <2>1. n \in Holders(TRUE) /\ n \notin Holders(FALSE)
    BY <1>7 DEF Holders
  <2>2. remotes2 = remotes - 1
    BY <1>6, <2>1, OthersStay, Leaves
  <2>3. \A m \in Nbr : m \in Holders(FALSE) <=> m \in Holders(FALSE)'
    BY <1>6, <2>1, OthersStay
  <2>4. locals2 = locals
    BY <2>3, Stays
  <2>5. remoteInits' = remoteInits - 1 /\ localInits' = localInits
    BY <1>7 DEF exit_dbxchg
  <2>7. localInits' = locals2 /\ remoteInits' = remotes2
        /\ localInits' <= MaxDDs /\ remoteInits' <= MaxDDs
    <3>. HIDE DEF locals, locals2, remotes, remotes2
    <3>. QED
      BY <1>0, <1>b, <1>i, <2>2, <2>4, <2>5
  <2>. QED
    BY <1>3, <1>5, <1>g, <2>7
<1>8. CASE ~remoteInit[n]
  <2>1. n \in Holders(FALSE) /\ n \notin Holders(TRUE)
    BY <1>1, <1>8 DEF Holders
  <2>2. locals2 = locals - 1
    BY <1>6, <2>1, OthersStay, Leaves
  <2>3. \A m \in Nbr : m \in Holders(TRUE) <=> m \in Holders(TRUE)'
    BY <1>6, <2>1, OthersStay
  <2>4. remotes2 = remotes
    BY <2>3, Stays
  <2>5. remoteInits' = remoteInits /\ localInits' = localInits - 1
    BY <1>8 DEF exit_dbxchg
  <2>7. localInits' = locals2 /\ remoteInits' = remotes2
        /\ localInits' <= MaxDDs /\ remoteInits' <= MaxDDs
    <3>. HIDE DEF locals, locals2, remotes, remotes2
    <3>. QED
      BY <1>0, <1>b, <1>i, <2>2, <2>4, <2>5
  <2>. QED
    BY <1>3, <1>5, <1>g, <2>7
<1>. QED
  BY <1>7, <1>8

\* A slot is taken while one is free.
LEMMA Takes ==
    ASSUME TypeOK, SInv, NEW n \in Nbr, NEW r \in BOOLEAN, nst[n] \notin Negotiating,
           TakeSlot(n, r), IF r THEN remoteInits < MaxDDs ELSE localInits < MaxDDs
    PROVE  SInv'
<1>. USE AllSubsets
<1>. DEFINE locals == Cardinality(Holders(FALSE))
            locals2 == Cardinality(Holders(FALSE)')
            remotes == Cardinality(Holders(TRUE))
            remotes2 == Cardinality(Holders(TRUE)')
<1>0. localInits = locals /\ remoteInits = remotes
  BY DEF SInv, SlotsCounted
<1>b. localInits <= MaxDDs /\ remoteInits <= MaxDDs
  BY DEF SInv, SlotsCounted
<1>i. localInits \in Int /\ remoteInits \in Int /\ MaxDDs \in Int
  BY ConstantsAssumption DEF TypeOK
<1>g. localInits' = locals2 /\ remoteInits' = remotes2 /\ localInits' <= MaxDDs /\ remoteInits' <= MaxDDs
         /\ FlagsClear' /\ dbxNbrs' = Cardinality(Exchangers') => SInv'
  BY DEF SInv, SlotsCounted, Exchangers
<1>1. OthersKeep(n) /\ nst'[n] = "ExStart"
  BY DEF TakeSlot, TypeOK, OthersKeep
<1>2. nst'[n] \in Negotiating /\ nst'[n] \notin Exchanging /\ nst[n] \notin Exchanging
  BY <1>1 DEF Negotiating, Exchanging
<1>3. FlagsClear'
  BY <1>1, <1>2, OthersStay DEF SInv
<1>4. ~remoteInit[n]
  BY DEF SInv, FlagsClear
<1>5. dbxNbrs' = Cardinality(Exchangers')
  <2>1. \A m \in Nbr : m \in Exchangers <=> m \in Exchangers'
    BY <1>1, <1>2, OthersStay DEF Exchangers
  <2>2. Cardinality(Exchangers') = Cardinality(Exchangers)
    BY <2>1, Stays
  <2>. QED
    BY <2>2 DEF TakeSlot, SInv, SlotsCounted, Exchangers
<1>6. n \notin Holders(TRUE) /\ n \notin Holders(FALSE)
  BY DEF Holders
<1>7. CASE r
  <2>1. remoteInit'[n] = TRUE
    BY <1>7 DEF TakeSlot, TypeOK
  <2>2. n \in Holders(TRUE)' /\ n \notin Holders(FALSE)'
    BY <1>2, <2>1 DEF Holders
  <2>3. remotes2 = remotes + 1
    BY <1>1, <1>6, <2>2, OthersStay, Joins
  <2>4. \A m \in Nbr : m \in Holders(FALSE) <=> m \in Holders(FALSE)'
    BY <1>1, <1>6, <2>2, OthersStay
  <2>5. locals2 = locals
    BY <2>4, Stays
  <2>6. remoteInits' = remoteInits + 1 /\ localInits' = localInits
    BY <1>7 DEF TakeSlot
  <2>7. localInits' = locals2 /\ remoteInits' = remotes2
        /\ localInits' <= MaxDDs /\ remoteInits' <= MaxDDs
    <3>. HIDE DEF locals, locals2, remotes, remotes2
    <3>. QED
      BY <1>7, <1>0, <1>b, <1>i, <2>3, <2>5, <2>6
  <2>. QED
    BY <1>3, <1>5, <1>g, <2>7
<1>8. CASE ~r
  <2>1. remoteInit'[n] = FALSE
    BY <1>4, <1>8 DEF TakeSlot, TypeOK
  <2>2. n \in Holders(FALSE)' /\ n \notin Holders(TRUE)'
    BY <1>2, <2>1 DEF Holders
  <2>3. locals2 = locals + 1
    BY <1>1, <1>6, <2>2, OthersStay, Joins
  <2>4. \A m \in Nbr : m \in Holders(TRUE) <=> m \in Holders(TRUE)'
    BY <1>1, <1>6, <2>2, OthersStay
  <2>5. remotes2 = remotes
    BY <2>4, Stays
  <2>6. remoteInits' = remoteInits /\ localInits' = localInits + 1
    BY <1>8 DEF TakeSlot
  <2>7. localInits' = locals2 /\ remoteInits' = remotes2
        /\ localInits' <= MaxDDs /\ remoteInits' <= MaxDDs
    <3>. HIDE DEF locals, locals2, remotes, remotes2
    <3>. QED
      BY <1>8, <1>0, <1>b, <1>i, <2>3, <2>5, <2>6
  <2>. QED
    BY <1>3, <1>5, <1>g, <2>7
<1>. QED
  BY <1>7, <1>8

-----------------------------------------------------------------------------
(* The steps. *)

\* GiveUp returns the slot the neighbour held, and only that one.
LEMMA GiveUpSlots ==
    ASSUME TypeOK, SInv, NEW n \in Nbr,
           NEW s \in {"None", "Down", "Init", "2Way"}, GiveUp(n, s)
    PROVE  SInv'
<1>1. nst' = [nst EXCEPT ![n] = s] /\ nst \in [Nbr -> States \cup {"None"}]
  BY DEF GiveUp, TypeOK
<1>2. nst'[n] = s /\ s \notin Negotiating /\ s \notin Exchanging
  BY <1>1 DEF Negotiating, Exchanging
<1>3. CASE nst[n] \in Negotiating
  <2>1. exit_dbxchg(n) /\ dbxNbrs' = IF nst[n] \in Exchanging THEN dbxNbrs - 1 ELSE dbxNbrs
    BY <1>3 DEF GiveUp
  <2>2. OthersKeep(n)
    BY <1>1, <2>1 DEF exit_dbxchg, TypeOK, OthersKeep
  <2>. QED
    BY <1>2, <1>3, <2>1, <2>2, GivesBack
<1>4. CASE nst[n] \notin Negotiating
  <2>1. nst[n] \notin Exchanging
    BY <1>4 DEF Negotiating, Exchanging
  <2>2. UNCHANGED <<remoteInits, localInits, remoteInit, dbxNbrs>>
    BY <1>4, <2>1 DEF GiveUp
  <2>3. OthersKeep(n)
    BY <1>1, <2>2 DEF OthersKeep
  <2>. QED
    BY <1>2, <1>4, <2>1, <2>2, <2>3, Keeps
<1>. QED
  BY <1>3, <1>4

\* NegDone: one more neighbour in Exchange, with the slot it has.
LEMMA NegDoneSlots ==
    ASSUME TypeOK, SInv, NEW n \in Nbr, nst[n] = "ExStart",
           nst' = [nst EXCEPT ![n] = "Exchange"], dbxNbrs' = dbxNbrs + 1,
           UNCHANGED <<remoteInit, localInits, remoteInits>>
    PROVE  SInv'
<1>. USE AllSubsets
<1>1. OthersKeep(n) /\ nst'[n] = "Exchange"
  BY DEF TypeOK, OthersKeep
<1>2. \A m \in Nbr : /\ m \in Holders(TRUE) <=> m \in Holders(TRUE)'
                     /\ m \in Holders(FALSE) <=> m \in Holders(FALSE)'
  <2>1. nst[n] \in Negotiating /\ nst'[n] \in Negotiating
    BY <1>1 DEF Negotiating
  <2>. QED
    BY <1>1, <2>1, OthersStay DEF Holders
<1>3. /\ Cardinality(Holders(TRUE)') = Cardinality(Holders(TRUE))
      /\ Cardinality(Holders(FALSE)') = Cardinality(Holders(FALSE))
  BY <1>2, Stays
<1>4. n \notin Exchangers /\ n \in Exchangers'
  BY <1>1 DEF Exchangers, Exchanging
<1>5. Cardinality(Exchangers') = Cardinality(Exchangers) + 1
  BY <1>1, <1>4, OthersStay, Joins
<1>6. dbxNbrs' = Cardinality(Exchangers')
  BY <1>5 DEF SInv, SlotsCounted, Exchangers
<1>7. FlagsClear'
  <2>1. nst'[n] \in Negotiating
    BY <1>1 DEF Negotiating
  <2>. QED
    BY <1>1, <2>1, OthersStay DEF SInv
<1>. QED
  BY <1>3, <1>6, <1>7 DEF SInv, SlotsCounted, Exchangers

\* Every event of a neighbour keeps the counters right.
LEMMA NbrStepSlots ==
    ASSUME TypeOK, SInv, NEW n \in Nbr, NbrStep(n) \/ Reap(n)
    PROVE  SInv'
<1>0. nst \in [Nbr -> States \cup {"None"}]
  BY DEF TypeOK
<1>1. UNCHANGED <<localInits, remoteInits, dbxNbrs, remoteInit>> =>
         \A s : /\ nst' = [nst EXCEPT ![n] = s]
                /\ s \in Negotiating <=> nst[n] \in Negotiating
                /\ s \in Exchanging <=> nst[n] \in Exchanging
                => SInv'
  <2>. SUFFICES ASSUME UNCHANGED <<localInits, remoteInits, dbxNbrs, remoteInit>>,
                       NEW s, nst' = [nst EXCEPT ![n] = s],
                       s \in Negotiating <=> nst[n] \in Negotiating,
                       s \in Exchanging <=> nst[n] \in Exchanging
                PROVE  SInv'
    OBVIOUS
  <2>1. nst'[n] = s /\ OthersKeep(n)
    BY <1>0 DEF OthersKeep
  <2>. QED
    BY <2>1, Keeps
<1>2. Ignored(n) => SInv'
  BY DEF Ignored, nbrVars, slotVars, SInv, SlotsCounted, FlagsClear, Holders
<1>3. StayTwoWay(n) /\ nst[n] \in {"Init", "2Way"} => SInv'
  BY <1>1 DEF StayTwoWay, Negotiating, Exchanging
<1>4. nba_eval1(n) /\ nst[n] \in {"Init", "2Way"} => SInv'
  BY <1>3, Takes DEF nba_eval1, Negotiating
<1>5. nba_eval2(n) /\ nst[n] \in {"Init", "2Way"} => SInv'
  BY <1>3, Takes DEF nba_eval2, Negotiating
<1>6. BecomeFull(n) /\ nst[n] \in Exchanging => SInv'
  <2>. SUFFICES ASSUME BecomeFull(n), nst[n] \in Exchanging
                PROVE  SInv'
    OBVIOUS
  <2>1. nst'[n] = "Full" /\ exit_dbxchg(n) /\ OthersKeep(n)
    BY <1>0 DEF BecomeFull, exit_dbxchg, TypeOK, OthersKeep
  <2>2. dbxNbrs' = IF nst[n] \in Exchanging THEN dbxNbrs - 1 ELSE dbxNbrs
    BY DEF BecomeFull
  <2>3. nst[n] \in Negotiating /\ nst'[n] \notin Negotiating
    BY <2>1 DEF Negotiating, Exchanging
  <2>. QED
    BY <2>1, <2>2, <2>3, GivesBack
<1>a. CASE NbrHelloRcvd(n)
  BY <1>a, <1>1, <1>2 DEF NbrHelloRcvd, slotVars, Negotiating, Exchanging
<1>b. CASE Nbr1WayRcvd(n)
  BY <1>b, <1>2, GiveUpSlots DEF Nbr1WayRcvd
<1>c. CASE Nbr2WayRcvd(n)
  BY <1>c, <1>2, <1>4 DEF Nbr2WayRcvd
<1>d. CASE NbrDDRcvd(n)
  BY <1>d, <1>2, <1>5 DEF NbrDDRcvd
<1>e. CASE NbrNegDone(n)
  BY <1>e, <1>2, NegDoneSlots DEF NbrNegDone
<1>f. CASE NbrExchangeDone(n)
  <2>1. CASE nst[n] = "Exchange" /\ ~reqs[n]
    BY <1>f, <2>1, <1>6 DEF NbrExchangeDone, Exchanging
  <2>2. CASE nst[n] = "Exchange" /\ reqs[n]
    BY <1>f, <2>2, <1>1 DEF NbrExchangeDone, Exchanging, Negotiating, slotVars
  <2>3. CASE nst[n] # "Exchange"
    BY <1>f, <2>3, <1>2 DEF NbrExchangeDone
  <2>. QED
    BY <2>1, <2>2, <2>3
<1>g. CASE NbrLoadingDone(n)
  BY <1>g, <1>2, <1>6 DEF NbrLoadingDone, Exchanging
<1>h. CASE NbrEval(n)
  BY <1>h, <1>2, <1>4, GiveUpSlots DEF NbrEval
<1>i. CASE NbrRestartDD(n)
  BY <1>i, <1>2, GiveUpSlots DEF NbrRestartDD
<1>j. CASE NbrKill(n)
  BY <1>j, GiveUpSlots DEF NbrKill
<1>k. CASE Reap(n)
  BY <1>k, <1>2, GiveUpSlots DEF Reap
<1>. QED
  BY <1>a, <1>b, <1>c, <1>d, <1>e, <1>f, <1>g, <1>h, <1>i, <1>j, <1>k DEF NbrStep

\* Everything else leaves states, flags and counters alone; a Hello creates
\* neighbours that are Down.
LEMMA OtherSlots ==
    ASSUME TypeOK, SInv, UNCHANGED <<localInits, remoteInits, dbxNbrs, remoteInit>>,
           UNCHANGED nst \/ \E n \in Nbr, listed, priChange, change, seen \in BOOLEAN :
                                RecvHello(n, listed, priChange, change, seen)
    PROVE  SInv'
<1>1. CASE UNCHANGED nst
  BY <1>1 DEF SInv, SlotsCounted, FlagsClear, Holders
<1>2. ASSUME NEW n \in Nbr, NEW l \in BOOLEAN, NEW p \in BOOLEAN, NEW c \in BOOLEAN,
             NEW s \in BOOLEAN, RecvHello(n, l, p, c, s)
      PROVE  SInv'
  <2>1. nst' = [nst EXCEPT ![n] = IF @ = "None" THEN "Down" ELSE @]
    BY <1>2 DEF RecvHello
  <2>2. OthersKeep(n) /\ nst'[n] = (IF nst[n] = "None" THEN "Down" ELSE nst[n])
    BY <2>1 DEF TypeOK, OthersKeep
  <2>3. /\ nst'[n] \in Negotiating <=> nst[n] \in Negotiating
        /\ nst'[n] \in Exchanging <=> nst[n] \in Exchanging
    BY <2>2 DEF Negotiating, Exchanging
  <2>. QED
    BY <2>2, <2>3, Keeps
<1>. QED
  BY <1>1, <1>2

\* For any number of neighbours and slots, no slot leaks and none is given out
\* twice: local_inits, remote_inits and n_dbx_nbrs count the neighbours that
\* hold a slot or exchange databases.
THEOREM SlotsCorrect == Spec => []SlotsCounted
<1>1. Init => SInv
  <2>. SUFFICES ASSUME Init
                PROVE  SInv
    OBVIOUS
  <2>1. Holders(TRUE) = {} /\ Holders(FALSE) = {} /\ Exchangers = {}
    BY DEF Init, Holders, Exchangers, Negotiating, Exchanging
  <2>2. Cardinality({}) = 0
    BY FS_EmptySet
  <2>3. localInits = 0 /\ remoteInits = 0 /\ dbxNbrs = 0 /\ MaxDDs >= 0
    BY ConstantsAssumption DEF Init
  <2>4. SlotsCounted
    BY <2>1, <2>2, <2>3 DEF SlotsCounted, Exchangers
  <2>5. FlagsClear
    BY DEF Init, FlagsClear
  <2>. QED
    BY <2>4, <2>5 DEF SInv
<1>2. TypeOK /\ SInv /\ [Next]_vars => SInv'
  <2>. SUFFICES ASSUME TypeOK, SInv, [Next]_vars
                PROVE  SInv'
    OBVIOUS
  <2>. DEFINE Kept == UNCHANGED <<localInits, remoteInits, dbxNbrs, remoteInit>>
              Heard == \E n \in Nbr, listed, priChange, change, seen \in BOOLEAN :
                           RecvHello(n, listed, priChange, change, seen)
  <2>1. CASE \E n \in Nbr : NbrStep(n) \/ Reap(n)
    BY <2>1, NbrStepSlots
  <2>2. CASE \E i \in Ifc : IfcNChg(i) \/ IfcElect(i)
    BY <2>2, OtherSlots DEF IfcNChg, IfcElect, nbrVars, slotVars
  <2>3. CASE Drain
    BY <2>3, OtherSlots DEF Drain
  <2>4. CASE \E n \in Nbr : Hello(n)
    <3>1. Heard
      BY <2>4 DEF Hello
    <3>2. Kept
      BY <3>1 DEF RecvHello, slotVars
    <3>. QED
      BY <3>1, <3>2, OtherSlots
  <2>5. CASE \E n \in Nbr : \/ RecvFirstDD(n) \/ RecvNegotiation(n) \/ RecvNews(n)
                            \/ AllDescribed(n) \/ LastRequestServed(n) \/ RecvMismatch(n)
                            \/ AdjTmo(n) \/ Inactive(n)
    BY <2>5, OtherSlots
       DEF RecvFirstDD, RecvNegotiation, RecvNews, AllDescribed, LastRequestServed,
           RecvMismatch, AdjTmo, Inactive, Unchanged, nbrVars, slotVars
  <2>6. CASE Tick \/ \E i \in Ifc : WaitOver(i) \/ IfUp(i) \/ IfDown(i)
    BY <2>6, OtherSlots DEF Tick, WaitOver, IfUp, IfDown, Unchanged, nbrVars, slotVars
  <2>7. CASE UNCHANGED vars
    BY <2>7, OtherSlots DEF vars, nbrVars, slotVars
  <2>. QED
    BY <2>1, <2>2, <2>3, <2>4, <2>5, <2>6, <2>7 DEF Next, Step
<1>3. SInv => SlotsCounted
  BY DEF SInv
<1>. QED
  BY <1>1, <1>2, <1>3, TypeCorrect, PTL DEF Spec

-----------------------------------------------------------------------------
(* The nested handlers: what is true whenever no handler runs holds because, *)
(* while one runs, every exception is the target of an event in progress.    *)


-----------------------------------------------------------------------------
(* The events in progress. *)

\* Event e of the stack c is still to be given to x.
Awaits(c, e, x) == \E k \in DOMAIN c : c[k].ev = e /\ x \in c[k].on

InProgress(e, x) == Awaits(calls, e, x)

LEMMA AwaitsConcat ==
    ASSUME NEW a \in Seq(Call), NEW b \in Seq(Call), NEW e, NEW x
    PROVE  Awaits(a \o b, e, x) <=> Awaits(a, e, x) \/ Awaits(b, e, x)
<1>1. /\ Len(a) \in Nat /\ Len(b) \in Nat
      /\ DOMAIN a = 1..Len(a) /\ DOMAIN b = 1..Len(b)
      /\ DOMAIN (a \o b) = 1..(Len(a) + Len(b))
      /\ \A k \in 1..(Len(a) + Len(b)) :
            (a \o b)[k] = IF k <= Len(a) THEN a[k] ELSE b[k - Len(a)]
  OBVIOUS
<1>2. Awaits(a \o b, e, x) => Awaits(a, e, x) \/ Awaits(b, e, x)
  <2>. SUFFICES ASSUME NEW k \in 1..(Len(a) + Len(b)),
                       (a \o b)[k].ev = e, x \in (a \o b)[k].on
                PROVE  Awaits(a, e, x) \/ Awaits(b, e, x)
    BY <1>1 DEF Awaits
  <2>1. CASE k <= Len(a)
    BY <1>1, <2>1 DEF Awaits
  <2>2. CASE ~(k <= Len(a))
    <3>1. k - Len(a) \in 1..Len(b)
      BY <1>1, <2>2
    <3>. QED
      BY <1>1, <2>2, <3>1 DEF Awaits
  <2>. QED
    BY <2>1, <2>2
<1>3. Awaits(a, e, x) => Awaits(a \o b, e, x)
  BY <1>1 DEF Awaits
<1>4. Awaits(b, e, x) => Awaits(a \o b, e, x)
  <2>. SUFFICES ASSUME NEW k \in 1..Len(b), b[k].ev = e, x \in b[k].on
                PROVE  Awaits(a \o b, e, x)
    BY <1>1 DEF Awaits
  <2>1. /\ k + Len(a) \in 1..(Len(a) + Len(b)) /\ ~(k + Len(a) <= Len(a))
        /\ (k + Len(a)) - Len(a) = k
    BY <1>1
  <2>2. (a \o b)[k + Len(a)] = b[k]
    BY <1>1, <2>1
  <2>. QED
    BY <1>1, <2>1, <2>2 DEF Awaits
<1>. QED
  BY <1>2, <1>3, <1>4

LEMMA AwaitsRaised ==
    ASSUME NEW f, NEW T, NEW e, NEW x
    PROVE  /\ ~Awaits(<<>>, e, x)
           /\ Awaits(Raise(f, T), e, x) <=> e = f /\ x \in T
BY DEF Awaits, Raise

LEMMA AwaitsParts ==
    ASSUME NEW c \in Seq(Call), c # <<>>, NEW e, NEW x
    PROVE  Awaits(c, e, x) <=> \/ Head(c).ev = e /\ x \in Head(c).on
                               \/ Awaits(Tail(c), e, x)
<1>1. /\ Len(c) \in Nat \ {0} /\ DOMAIN c = 1..Len(c) /\ Head(c) = c[1]
      /\ DOMAIN Tail(c) = 1..(Len(c) - 1)
      /\ \A k \in 1..(Len(c) - 1) : Tail(c)[k] = c[k + 1]
  OBVIOUS
<1>2. Awaits(c, e, x) => \/ Head(c).ev = e /\ x \in Head(c).on
                         \/ Awaits(Tail(c), e, x)
  <2>. SUFFICES ASSUME NEW k \in 1..Len(c), c[k].ev = e, x \in c[k].on, k # 1
                PROVE  Awaits(Tail(c), e, x)
    BY <1>1 DEF Awaits
  <2>1. k - 1 \in 1..(Len(c) - 1) /\ (k - 1) + 1 = k
    BY <1>1
  <2>2. Tail(c)[k - 1] = c[k]
    BY <1>1, <2>1
  <2>. QED
    BY <1>1, <2>1, <2>2 DEF Awaits
<1>3. Awaits(Tail(c), e, x) => Awaits(c, e, x)
  <2>. SUFFICES ASSUME NEW k \in 1..(Len(c) - 1), c[k + 1].ev = e, x \in c[k + 1].on
                PROVE  Awaits(c, e, x)
    BY <1>1 DEF Awaits
  <2>1. k + 1 \in 1..Len(c)
    BY <1>1
  <2>. QED
    BY <1>1, <2>1 DEF Awaits
<1>4. Head(c).ev = e /\ x \in Head(c).on => Awaits(c, e, x)
  <2>1. 1 \in 1..Len(c)
    BY <1>1
  <2>. QED
    BY <1>1, <2>1 DEF Awaits
<1>. QED
  BY <1>2, <1>3, <1>4

\* What is in progress once the event on top has been given to x.
LEMMA ReturnAwaits ==
    ASSUME calls \in Seq(Call), calls # <<>>, NEW x,
           NEW raised \in Seq(Call), Return(x, raised), NEW e, NEW y
    PROVE  Awaits(calls', e, y) <=>
              \/ Awaits(raised, e, y)
              \/ Head(calls).ev = e /\ y \in Head(calls).on \ {x}
              \/ Awaits(Tail(calls), e, y)
<1>. DEFINE left == Head(calls).on \ {x}
            rest == IF left = {} THEN <<>> ELSE Raise(Head(calls).ev, left)
<1>1. Head(calls) \in Call /\ Tail(calls) \in Seq(Call)
  BY HeadTailProperties
<1>2. rest \in Seq(Call)
  <2>1. Head(calls).ev \in Events /\ left \in SUBSET (Nbr \cup Ifc)
    BY <1>1 DEF Call
  <2>. QED
    BY <2>1, RaiseType
<1>3. calls' = (raised \o rest) \o Tail(calls)
  BY DEF Return
<1>4. Awaits(rest, e, y) <=> Head(calls).ev = e /\ y \in left
  <2>1. CASE left = {}
    BY <2>1, AwaitsRaised
  <2>2. CASE left # {}
    BY <2>2, AwaitsRaised
  <2>. QED
    BY <2>1, <2>2
<1>. HIDE DEF rest, left
<1>5. raised \o rest \in Seq(Call)
  BY <1>2, ConcatProperties
<1>6. Awaits(calls', e, y) <=> Awaits(raised \o rest, e, y) \/ Awaits(Tail(calls), e, y)
  BY <1>1, <1>3, <1>5, AwaitsConcat
<1>7. Awaits(raised \o rest, e, y) <=> Awaits(raised, e, y) \/ Awaits(rest, e, y)
  BY <1>2, AwaitsConcat
<1>. QED
  BY <1>4, <1>6, <1>7 DEF left

-----------------------------------------------------------------------------
(* What an event does to the neighbour it is given to, and to the others.     *)

\* Nothing is different about m.
Same(m) == /\ nst'[m] = nst[m] /\ adjPend'[m] = adjPend[m]
           /\ reqs'[m] = reqs[m] /\ progt'[m] = progt[m] /\ inactt'[m] = inactt[m]

\* An event is given to one of its targets, raises at most an event of the
\* interface, and leaves other neighbours and the interfaces alone.
LEMMA NbrStepEffect ==
    ASSUME TypeOK, NEW n \in Nbr, NbrStep(n) \/ Reap(n)
    PROVE  /\ calls # <<>> /\ n \in Head(calls).on
           /\ UNCHANGED ifcVars
           /\ Return(n, <<>>) \/ Return(n, Raise("NChg", {ifcOf[n]}))
           /\ \A m \in Nbr \ {n} : Same(m)
<1>. USE DEF TypeOK
<1>1. calls # <<>> /\ n \in Head(calls).on
  BY DEF NbrStep, Running, NbrHelloRcvd, Nbr1WayRcvd, Nbr2WayRcvd, NbrDDRcvd,
         NbrNegDone, NbrExchangeDone, NbrLoadingDone, NbrEval, NbrRestartDD,
         NbrKill, Reap
<1>2. UNCHANGED ifcVars
  BY DEF NbrStep, NbrHelloRcvd, Nbr1WayRcvd, Nbr2WayRcvd, NbrDDRcvd,
         NbrNegDone, NbrExchangeDone, NbrLoadingDone, NbrEval, NbrRestartDD,
         NbrKill, Reap
<1>. DEFINE Returns == Return(n, <<>>) \/ Return(n, Raise("NChg", {ifcOf[n]}))
            Others == \A m \in Nbr \ {n} : Same(m)
<1>3. \A s : Return(n, TellIfc(n, s)) => Returns
  BY DEF TellIfc
<1>4. ASSUME NEW s, nst' = [nst EXCEPT ![n] = s],
             UNCHANGED reqs \/ reqs' = [reqs EXCEPT ![n] = FALSE],
             UNCHANGED progt \/ \E b : progt' = [progt EXCEPT ![n] = b],
             UNCHANGED inactt \/ \E b : inactt' = [inactt EXCEPT ![n] = b],
             UNCHANGED adjPend \/ \E b : adjPend' = [adjPend EXCEPT ![n] = b]
      PROVE  Others
  BY <1>4 DEF Same
<1>5. Ignored(n) => Returns /\ Others
  BY DEF Ignored, nbrVars, Same
<1>6. \A s : GiveUp(n, s) => /\ nst' = [nst EXCEPT ![n] = s]
                             /\ reqs' = [reqs EXCEPT ![n] = FALSE]
                             /\ progt' = [progt EXCEPT ![n] = FALSE]
  BY DEF GiveUp
<1>7. /\ DelPendAdj(n) => adjPend' = [adjPend EXCEPT ![n] = FALSE]
      /\ AddPendAdj(n) => adjPend' = [adjPend EXCEPT ![n] = TRUE]
  BY DEF DelPendAdj, AddPendAdj
<1>8. ASSUME StayTwoWay(n), DelPendAdj(n) \/ AddPendAdj(n) \/ UNCHANGED <<pendq, adjPend>>
      PROVE  Returns /\ Others
  BY <1>3, <1>4, <1>7, <1>8 DEF StayTwoWay
<1>9. ASSUME NEW r, TakeSlot(n, r)
      PROVE  Returns /\ Others
  BY <1>3, <1>4, <1>7, <1>9 DEF TakeSlot
<1>. HIDE DEF TypeOK, Returns, Others
<1>10. nba_eval1(n) \/ nba_eval2(n) => Returns /\ Others
  BY <1>8, <1>9 DEF nba_eval1, nba_eval2
<1>11. BecomeFull(n) => Others
  BY <1>4 DEF BecomeFull
<1>12. Return(n, <<>>) => Returns
  BY DEF Returns
<1>a. NbrHelloRcvd(n) => Returns /\ Others
  BY <1>4, <1>5, <1>12 DEF NbrHelloRcvd
<1>b. Nbr1WayRcvd(n) => Returns /\ Others
  BY <1>3, <1>4, <1>5, <1>6, <1>7 DEF Nbr1WayRcvd
<1>c. Nbr2WayRcvd(n) \/ NbrDDRcvd(n) => Returns /\ Others
  BY <1>5, <1>10 DEF Nbr2WayRcvd, NbrDDRcvd
<1>e. NbrNegDone(n) => Returns /\ Others
  BY <1>4, <1>5, <1>12 DEF NbrNegDone
<1>g. NbrExchangeDone(n) \/ NbrLoadingDone(n) => Returns /\ Others
  BY <1>4, <1>5, <1>11, <1>12 DEF NbrExchangeDone, NbrLoadingDone
<1>i. NbrEval(n) => Returns /\ Others
  BY <1>4, <1>5, <1>6, <1>7, <1>10, <1>12 DEF NbrEval
<1>j. NbrRestartDD(n) => Returns /\ Others
  BY <1>4, <1>5, <1>6, <1>12 DEF NbrRestartDD
<1>k. NbrKill(n) => Returns /\ Others
  BY <1>3, <1>4, <1>6, <1>7 DEF NbrKill
<1>l. Reap(n) => Returns /\ Others
  BY <1>4, <1>5, <1>6, <1>7, <1>12 DEF Reap
<1>. QED
  BY <1>1, <1>2, <1>a, <1>b, <1>c, <1>e, <1>g, <1>i, <1>j, <1>k, <1>l
     DEF NbrStep, Returns, Others

\* Of the events in progress only the one given is no more, and at most an event
\* of an interface is new.
LEMMA NbrStepAwaits ==
    ASSUME TypeOK, NEW n \in Nbr, NbrStep(n) \/ Reap(n), NEW e, NEW m \in Nbr
    PROVE  /\ Awaits(calls', e, m) => Awaits(calls, e, m)
           /\ Awaits(calls, e, m) => Awaits(calls', e, m) \/ (m = n /\ Head(calls).ev = e)
           /\ Awaits(calls', e, n) => Awaits(Tail(calls), e, n)
<1>1. calls \in Seq(Call) /\ ifcOf \in [Nbr -> Ifc] /\ Nbr \cap Ifc = {}
  BY ConstantsAssumption DEF TypeOK
<1>2. /\ calls # <<>>
      /\ Return(n, <<>>) \/ Return(n, Raise("NChg", {ifcOf[n]}))
  BY NbrStepEffect
<1>3. PICK raised \in {<<>>, Raise("NChg", {ifcOf[n]})} : Return(n, raised)
  BY <1>2
<1>4. raised \in Seq(Call) /\ \A x \in Nbr : ~Awaits(raised, e, x)
  <2>1. {ifcOf[n]} \in SUBSET (Nbr \cup Ifc) /\ "NChg" \in Events
    BY <1>1 DEF Events, IfcEvents
  <2>2. Raise("NChg", {ifcOf[n]}) \in Seq(Call)
    BY <2>1, RaiseType
  <2>3. \A x \in Nbr : x # ifcOf[n]
    BY <1>1
  <2>4. CASE raised = <<>>
    BY <2>4, AwaitsRaised
  <2>5. CASE raised = Raise("NChg", {ifcOf[n]})
    <3>1. \A x \in Nbr : ~Awaits(Raise("NChg", {ifcOf[n]}), e, x)
      BY <2>3, AwaitsRaised
    <3>. QED
      BY <2>2, <2>5, <3>1
  <2>. QED
    BY <2>4, <2>5
<1>5. \A x \in {m, n} : Awaits(raised, e, x) <=> FALSE
  BY <1>4
<1>6. \A x \in {m, n} : Awaits(calls', e, x) <=>
                           \/ Head(calls).ev = e /\ x \in Head(calls).on \ {n}
                           \/ Awaits(Tail(calls), e, x)
  BY <1>1, <1>2, <1>3, <1>4, <1>5, ReturnAwaits
<1>7. Awaits(calls, e, m) <=> \/ Head(calls).ev = e /\ m \in Head(calls).on
                              \/ Awaits(Tail(calls), e, m)
  BY <1>1, <1>2, AwaitsParts
<1>. QED
  BY <1>6, <1>7

-----------------------------------------------------------------------------
(* Whoever is wanted waits, or is about to be evaluated.                     *)

Evaluated ==
    \A n \in Nbr : nst[n] = "2Way" /\ adjacency_wanted(n)
                        => adjPend[n] \/ InProgress("Eval", n)

\* An evaluation, and whatever else makes a neighbour 2-Way, queues it up if it
\* is wanted.
LEMMA SelfEvaluated ==
    ASSUME TypeOK, NEW n \in Nbr, NbrStep(n) \/ Reap(n)
    PROVE  nst'[n] = "2Way" /\ adjacency_wanted(n)
              => \/ adjPend'[n]
                 \/ nst[n] = "2Way" /\ adjPend'[n] = adjPend[n] /\ Head(calls).ev # "Eval"
<1>1. nst \in [Nbr -> States \cup {"None"}] /\ adjPend \in [Nbr -> BOOLEAN]
  BY DEF TypeOK
<1>. DEFINE Goal == nst'[n] = "2Way" /\ adjacency_wanted(n)
              => \/ adjPend'[n]
                 \/ nst[n] = "2Way" /\ adjPend'[n] = adjPend[n] /\ Head(calls).ev # "Eval"
<1>2. \A s : nst' = [nst EXCEPT ![n] = s] => nst'[n] = s
  BY <1>1
<1>3. \A s : GiveUp(n, s) => nst'[n] = s
  BY <1>2 DEF GiveUp
<1>4. Ignored(n) /\ (nst[n] # "2Way" \/ Head(calls).ev # "Eval") => Goal
  BY DEF Ignored, nbrVars
<1>5. AddPendAdj(n) => adjPend'[n]
  BY <1>1 DEF AddPendAdj
<1>6. \A r : TakeSlot(n, r) => nst'[n] = "ExStart"
  BY <1>2 DEF TakeSlot
<1>7. nba_eval1(n) \/ nba_eval2(n) => Goal
  BY <1>5, <1>6 DEF nba_eval1, nba_eval2
<1>8. BecomeFull(n) => Goal
  BY <1>2 DEF BecomeFull
<1>a. CASE NbrHelloRcvd(n)
  BY <1>a, <1>2, <1>4 DEF NbrHelloRcvd, Running
<1>b. CASE Nbr1WayRcvd(n)
  BY <1>b, <1>3, <1>4 DEF Nbr1WayRcvd, Running
<1>c. CASE Nbr2WayRcvd(n)
  BY <1>c, <1>4, <1>7 DEF Nbr2WayRcvd, Running
<1>d. CASE NbrDDRcvd(n)
  BY <1>d, <1>4, <1>7 DEF NbrDDRcvd, Running
<1>e. CASE NbrNegDone(n)
  BY <1>e, <1>2, <1>4 DEF NbrNegDone, Running
<1>f. CASE NbrExchangeDone(n)
  BY <1>f, <1>2, <1>4, <1>8 DEF NbrExchangeDone, Running
<1>g. CASE NbrLoadingDone(n)
  BY <1>g, <1>4, <1>8 DEF NbrLoadingDone, Running
<1>h. CASE NbrEval(n)
  BY <1>h, <1>4, <1>7 DEF NbrEval
<1>i. CASE NbrRestartDD(n)
  BY <1>i, <1>1, <1>4 DEF NbrRestartDD, Running
<1>j. CASE NbrKill(n)
  BY <1>j, <1>3 DEF NbrKill
<1>k. CASE Reap(n)
  BY <1>k, <1>3, <1>4 DEF Reap, Running
<1>. QED
  BY <1>a, <1>b, <1>c, <1>d, <1>e, <1>f, <1>g, <1>h, <1>i, <1>j, <1>k DEF NbrStep

LEMMA NbrStepEvaluated ==
    ASSUME TypeOK, Evaluated, NEW n \in Nbr, NbrStep(n) \/ Reap(n)
    PROVE  Evaluated'
<1>1. UNCHANGED ifcVars /\ \A m \in Nbr \ {n} : Same(m)
  BY NbrStepEffect
<1>2. \A m \in Nbr : adjacency_wanted(m)' = adjacency_wanted(m)
  BY <1>1 DEF adjacency_wanted, ifcVars
<1>. SUFFICES ASSUME NEW m \in Nbr, nst'[m] = "2Way", adjacency_wanted(m)
              PROVE  adjPend'[m] \/ Awaits(calls', "Eval", m)
  BY <1>2 DEF Evaluated, InProgress
<1>3. Awaits(calls, "Eval", m)
         => Awaits(calls', "Eval", m) \/ (m = n /\ Head(calls).ev = "Eval")
  BY NbrStepAwaits
<1>4. nst[m] = "2Way" => adjPend[m] \/ Awaits(calls, "Eval", m)
  BY DEF Evaluated, InProgress
<1>5. CASE m # n
  BY <1>1, <1>3, <1>4, <1>5 DEF Same
<1>6. CASE m = n
  BY <1>3, <1>4, <1>6, SelfEvaluated
<1>. QED
  BY <1>5, <1>6

\* An event of an interface either changes nothing but the stack, or has every
\* neighbour there evaluated.
LEMMA IfcStepEffect ==
    ASSUME TypeOK, NEW i \in Ifc, IfcNChg(i) \/ IfcElect(i)
    PROVE  /\ UNCHANGED <<nbrVars, slotVars>>
           /\ \/ UNCHANGED ifcVars
              \/ /\ \A j \in Ifc \ {i} : /\ ifst'[j] = ifst[j]
                                         /\ dr'[j] = dr[j] /\ bdr'[j] = bdr[j]
                 /\ \A m \in NbrsOf(i) : nst[m] # "None" => Awaits(calls', "Eval", m)
           /\ \A e : \A m \in Nbr :
                /\ Awaits(calls, e, m) => Awaits(calls', e, m)
                /\ Awaits(calls', e, m) => \/ Awaits(calls, e, m)
                                           \/ e = "Eval" /\ nst[m] # "None"
<1>1. /\ calls \in Seq(Call) /\ Nbr \cap Ifc = {}
      /\ ifst \in [Ifc -> {"Down", "Wait", "Other", "Backup", "DR"}]
      /\ dr \in [Ifc -> Nbr \cup {Self, NoAddr}]
      /\ bdr \in [Ifc -> Nbr \cup {Self, NoAddr}]
  BY ConstantsAssumption DEF TypeOK
<1>2. calls # <<>>
  BY DEF IfcNChg, IfcElect, Running
<1>3. UNCHANGED <<nbrVars, slotVars>>
  BY DEF IfcNChg, IfcElect
<1>. DEFINE present == {n \in NbrsOf(i) : nst[n] # "None"}
            eval == IF present = {} THEN <<>> ELSE Raise("Eval", present)
            Elects(d, b) == /\ dr' = [dr EXCEPT ![i] = d]
                            /\ bdr' = [bdr EXCEPT ![i] = b]
                            /\ ifst' = [ifst EXCEPT ![i] = IF d = Self THEN "DR"
                                   ELSE IF b = Self THEN "Backup" ELSE "Other"]
<1>4. \/ Return(i, <<>>) /\ UNCHANGED ifcVars
      \/ Return(i, eval) /\ \E d, b \in Winners(i) : Elects(d, b)
  BY DEF IfcNChg, IfcElect, ifa_elect
<1>5. ASSUME NEW e, NEW m \in Nbr
      PROVE  Awaits(calls, e, m) <=> \/ Head(calls).ev = e /\ m \in Head(calls).on \ {i}
                                     \/ Awaits(Tail(calls), e, m)
  <2>1. m # i
    BY <1>1
  <2>. QED
    BY <1>1, <1>2, <2>1, AwaitsParts
<1>6. ASSUME NEW raised \in Seq(Call), Return(i, raised), NEW e, NEW m \in Nbr
      PROVE  Awaits(calls', e, m) <=> Awaits(raised, e, m) \/ Awaits(calls, e, m)
  BY <1>1, <1>2, <1>5, <1>6, ReturnAwaits
<1>7. CASE Return(i, <<>>) /\ UNCHANGED ifcVars
  <2>1. <<>> \in Seq(Call)
    OBVIOUS
  <2>2. \A e : \A m \in Nbr : Awaits(calls', e, m) <=> Awaits(calls, e, m)
    BY <1>6, <1>7, <2>1, AwaitsRaised
  <2>. QED
    BY <1>3, <1>7, <2>2
<1>8. CASE Return(i, eval) /\ \E d, b \in Winners(i) : Elects(d, b)
  <2>1. \A j \in Ifc \ {i} : ifst'[j] = ifst[j] /\ dr'[j] = dr[j] /\ bdr'[j] = bdr[j]
    BY <1>1, <1>8
  <2>2. eval \in Seq(Call)
    <3>1. present \in SUBSET (Nbr \cup Ifc) /\ "Eval" \in Events
      BY DEF NbrsOf, Events, NbrEvents
    <3>2. <<>> \in Seq(Call) /\ Raise("Eval", present) \in Seq(Call)
      BY <3>1, RaiseType
    <3>. QED
      BY <3>2
  <2>3. \A e, m : Awaits(eval, e, m) <=> e = "Eval" /\ m \in present
    <3>1. CASE present = {}
      BY <3>1, AwaitsRaised
    <3>2. CASE present # {}
      BY <3>2, AwaitsRaised
    <3>. QED
      BY <3>1, <3>2
  <2>. HIDE DEF eval
  <2>4. \A e : \A m \in Nbr :
           Awaits(calls', e, m) <=> (e = "Eval" /\ m \in present) \/ Awaits(calls, e, m)
    BY <1>6, <1>8, <2>2, <2>3
  <2>5. NbrsOf(i) \subseteq Nbr
    BY DEF NbrsOf
  <2>. QED
    BY <1>3, <2>1, <2>4, <2>5
<1>. QED
  BY <1>4, <1>7, <1>8

LEMMA IfcStepEvaluated ==
    ASSUME TypeOK, Evaluated, NEW i \in Ifc, IfcNChg(i) \/ IfcElect(i)
    PROVE  Evaluated'
<1>1. /\ UNCHANGED <<nbrVars, slotVars>>
      /\ \A m \in Nbr : Awaits(calls, "Eval", m) => Awaits(calls', "Eval", m)
  BY IfcStepEffect
<1>2. ASSUME UNCHANGED ifcVars
      PROVE  Evaluated'
  BY <1>1, <1>2 DEF Evaluated, InProgress, adjacency_wanted, ifcVars, nbrVars
<1>3. ASSUME \A j \in Ifc \ {i} : ifst'[j] = ifst[j] /\ dr'[j] = dr[j] /\ bdr'[j] = bdr[j],
             \A m \in NbrsOf(i) : nst[m] # "None" => Awaits(calls', "Eval", m)
      PROVE  Evaluated'
  <2>. SUFFICES ASSUME NEW m \in Nbr, nst[m] = "2Way", adjacency_wanted(m)'
                PROVE  adjPend[m] \/ Awaits(calls', "Eval", m)
    BY <1>1 DEF Evaluated, InProgress, nbrVars
  <2>1. CASE ifcOf[m] = i
    BY <1>3, <2>1 DEF NbrsOf
  <2>2. CASE ifcOf[m] # i
    <3>1. ifcOf[m] \in Ifc \ {i}
      BY <2>2, ConstantsAssumption
    <3>2. adjacency_wanted(m)
      BY <1>3, <3>1 DEF adjacency_wanted
    <3>. QED
      BY <1>1, <3>2 DEF Evaluated, InProgress
  <2>. QED
    BY <2>1, <2>2
<1>. QED
  BY <1>2, <1>3, IfcStepEffect

\* The loop over the queue has the neighbour it takes evaluated, or ends.
LEMMA DrainEffect ==
    ASSUME TypeOK, Drain
    PROVE  /\ calls # <<>> /\ Head(calls).ev = "Drain"
           /\ UNCHANGED <<nst, reqs, inactt, progt, deleteNbrs, ifcVars>>
           /\ \/ /\ pendq # <<>> /\ Head(pendq) \in Nbr
                 /\ adjPend' = [adjPend EXCEPT ![Head(pendq)] = FALSE]
                 /\ \A e, x : Awaits(calls', e, x) <=>
                        (e = "Eval" /\ x = Head(pendq)) \/ Awaits(calls, e, x)
              \/ /\ UNCHANGED <<pendq, adjPend>>
                 /\ calls' = Tail(calls)
                 /\ \A e, x : /\ Awaits(calls', e, x) => Awaits(calls, e, x)
                              /\ Awaits(calls, e, x) => Awaits(calls', e, x) \/ e = "Drain"
<1>1. calls \in Seq(Call) /\ pendq \in Seq(Nbr) /\ localInits \in Int /\ MaxDDs \in Int
  BY ConstantsAssumption DEF TypeOK
<1>2. calls # <<>> /\ Head(calls).ev = "Drain"
  BY DEF Drain
<1>3. UNCHANGED <<nst, reqs, inactt, progt, deleteNbrs, ifcVars>>
  BY DEF Drain
<1>4. CASE localInits < MaxDDs /\ pendq # <<>>
  <2>1. ~(localInits >= MaxDDs \/ pendq = <<>>)
    BY <1>1, <1>4
  <2>2. /\ adjPend' = [adjPend EXCEPT ![Head(pendq)] = FALSE]
        /\ calls' = Raise("Eval", {Head(pendq)}) \o calls
    BY <2>1, Zenon DEF Drain
  <2>3. Head(pendq) \in Nbr
    BY <1>1, <1>4, HeadTailProperties
  <2>4. Raise("Eval", {Head(pendq)}) \in Seq(Call)
    BY <2>3, RaiseType DEF Events, NbrEvents
  <2>5. \A e, x : Awaits(calls', e, x) <=>
           Awaits(Raise("Eval", {Head(pendq)}), e, x) \/ Awaits(calls, e, x)
    BY <1>1, <2>2, <2>4, AwaitsConcat
  <2>6. \A e, x : Awaits(Raise("Eval", {Head(pendq)}), e, x)
                     <=> e = "Eval" /\ x = Head(pendq)
    BY AwaitsRaised
  <2>. QED
    BY <1>2, <1>3, <1>4, <2>2, <2>3, <2>5, <2>6
<1>5. CASE ~(localInits < MaxDDs /\ pendq # <<>>)
  <2>1. calls' = Tail(calls) /\ UNCHANGED <<pendq, adjPend>>
    BY <1>5 DEF Drain
  <2>2. \A e, x : Awaits(calls, e, x) <=> \/ Head(calls).ev = e /\ x \in Head(calls).on
                                          \/ Awaits(Tail(calls), e, x)
    BY <1>1, <1>2, AwaitsParts
  <2>. QED
    BY <1>2, <1>3, <2>1, <2>2
<1>. QED
  BY <1>4, <1>5

LEMMA DrainEvaluated ==
    ASSUME TypeOK, Evaluated, Drain
    PROVE  Evaluated'
<1>. SUFFICES ASSUME NEW m \in Nbr, nst[m] = "2Way", adjacency_wanted(m)
              PROVE  adjPend'[m] \/ Awaits(calls', "Eval", m)
  BY DrainEffect DEF Evaluated, InProgress, adjacency_wanted, ifcVars
<1>1. adjPend[m] \/ Awaits(calls, "Eval", m)
  BY DEF Evaluated, InProgress
<1>2. CASE UNCHANGED <<pendq, adjPend>>
  BY <1>1, <1>2, DrainEffect
<1>3. CASE adjPend' = [adjPend EXCEPT ![Head(pendq)] = FALSE]
  BY <1>1, <1>3, DrainEffect DEF TypeOK
<1>. QED
  BY <1>2, <1>3, DrainEffect

\* What starts when nothing runs.
Handler ==
    \/ \E n \in Nbr :
          \/ Hello(n) \/ RecvFirstDD(n) \/ RecvNegotiation(n) \/ RecvNews(n)
          \/ AllDescribed(n) \/ LastRequestServed(n) \/ RecvMismatch(n)
          \/ AdjTmo(n) \/ Inactive(n)
    \/ \E i \in Ifc : WaitOver(i) \/ IfUp(i) \/ IfDown(i)
    \/ Tick

LEMMA HandlerIdle ==
    ASSUME Handler
    PROVE  calls = <<>>
<1>. USE DEF Enter, Idle
<1>1. ASSUME NEW n \in Nbr, Hello(n)
      PROVE  calls = <<>>
  BY <1>1 DEF Hello, RecvHello
<1>2. ASSUME NEW n \in Nbr,
             \/ RecvFirstDD(n) \/ RecvNegotiation(n) \/ RecvNews(n) \/ AllDescribed(n)
             \/ LastRequestServed(n) \/ RecvMismatch(n) \/ AdjTmo(n) \/ Inactive(n)
      PROVE  calls = <<>>
  BY <1>2 DEF RecvFirstDD, RecvNegotiation, RecvNews, AllDescribed, LastRequestServed,
              RecvMismatch, AdjTmo, Inactive
<1>3. ASSUME NEW i \in Ifc, WaitOver(i) \/ IfUp(i) \/ IfDown(i)
      PROVE  calls = <<>>
  BY <1>3 DEF WaitOver, IfUp, IfDown
<1>4. Tick => calls = <<>>
  BY DEF Tick
<1>. QED
  BY <1>1, <1>2, <1>3, <1>4 DEF Handler

\* Nothing is in progress when a handler starts, so who is wanted waits; and no
\* handler as such makes a neighbour wanted, or takes one from the queue.
LEMMA HandlerEvaluated ==
    ASSUME TypeOK, Evaluated, Handler
    PROVE  Evaluated'
<1>1. \A m \in Nbr : nst[m] = "2Way" /\ adjacency_wanted(m) => adjPend[m]
  BY HandlerIdle, AwaitsRaised DEF Evaluated, InProgress
<1>2. \A m \in Nbr : (nst'[m] = "2Way" => nst[m] = "2Way") /\ adjPend'[m] = adjPend[m]
  <2>1. ASSUME NEW n \in Nbr, Hello(n)
        PROVE  \A m \in Nbr : (nst'[m] = "2Way" => nst[m] = "2Way") /\ adjPend'[m] = adjPend[m]
    BY <2>1 DEF Hello, RecvHello, TypeOK
  <2>2. (\E n \in Nbr : Hello(n)) \/ (nst' = nst /\ adjPend' = adjPend)
    BY DEF Handler, RecvFirstDD, RecvNegotiation, RecvNews, AllDescribed,
           LastRequestServed, RecvMismatch, AdjTmo, Inactive, WaitOver, IfUp,
           IfDown, Tick, Unchanged, nbrVars, slotVars
  <2>. QED
    BY <2>1, <2>2
<1>3. \A m \in Nbr : adjacency_wanted(m)' => adjacency_wanted(m)
  <2>. USE DEF adjacency_wanted
  <2>1. UNCHANGED ifcVars => \A m \in Nbr : adjacency_wanted(m)' => adjacency_wanted(m)
    BY DEF ifcVars
  <2>2. ASSUME NEW i \in Ifc, IfUp(i)
        PROVE  \A m \in Nbr : adjacency_wanted(m)' => adjacency_wanted(m)
    BY <2>2, ConstantsAssumption DEF IfUp, TypeOK
  <2>3. ASSUME NEW i \in Ifc, IfDown(i)
        PROVE  \A m \in Nbr : adjacency_wanted(m)' => adjacency_wanted(m)
    BY <2>3, ConstantsAssumption DEF IfDown, TypeOK
  <2>4. (\E i \in Ifc : IfUp(i) \/ IfDown(i)) \/ UNCHANGED ifcVars
    <3>1. ASSUME NEW n \in Nbr, Hello(n)
          PROVE  UNCHANGED ifcVars
      BY <3>1 DEF Hello, RecvHello
    <3>2. ASSUME NEW n \in Nbr,
                 \/ RecvFirstDD(n) \/ RecvNegotiation(n) \/ RecvNews(n)
                 \/ AllDescribed(n) \/ LastRequestServed(n) \/ RecvMismatch(n)
                 \/ AdjTmo(n) \/ Inactive(n)
          PROVE  UNCHANGED ifcVars
      BY <3>2 DEF RecvFirstDD, RecvNegotiation, RecvNews, AllDescribed,
                  LastRequestServed, RecvMismatch, AdjTmo, Inactive, Unchanged
    <3>3. Tick \/ (\E i \in Ifc : WaitOver(i)) => UNCHANGED ifcVars
      BY DEF Tick, WaitOver, Unchanged
    <3>. QED
      BY <3>1, <3>2, <3>3 DEF Handler
  <2>. QED
    BY <2>1, <2>2, <2>3, <2>4
<1>. QED
  BY <1>1, <1>2, <1>3 DEF Evaluated

\* No neighbour this router wants an adjacency with is forgotten, for any number of
\* neighbours, interfaces and slots: once all that an event set off has been done,
\* each one that is 2-Way is in the queue.
THEOREM WantedIsQueuedAlways == Spec => []WantedIsQueued
<1>1. Init => Evaluated
  BY DEF Init, Evaluated
<1>2. TypeOK /\ Evaluated /\ [Next]_vars => Evaluated'
  <2>. SUFFICES ASSUME TypeOK, Evaluated, [Next]_vars
                PROVE  Evaluated'
    OBVIOUS
  <2>1. CASE Step
    BY <2>1, NbrStepEvaluated, IfcStepEvaluated, DrainEvaluated DEF Step
  <2>2. CASE Handler
    BY <2>2, HandlerEvaluated
  <2>3. CASE UNCHANGED vars
    BY <2>3 DEF vars, nbrVars, ifcVars, Evaluated, InProgress, adjacency_wanted
  <2>. QED
    BY <2>1, <2>2, <2>3 DEF Next, Handler
<1>3. Evaluated => WantedIsQueued
  BY AwaitsRaised DEF Evaluated, WantedIsQueued, InProgress, Idle
<1>. QED
  BY <1>1, <1>2, <1>3, TypeCorrect, PTL DEF Spec

-----------------------------------------------------------------------------
(* The timers and the request list fit the state, or are about to.           *)

GuardedAt(n) ==
    /\ progt[n] => nst[n] \in Negotiating
    /\ nst[n] \in Negotiating => progt[n] \/ InProgress("RestartDD", n)
    /\ inactt[n] => nst[n] \notin {"None", "Down"}
    /\ nst[n] \notin {"None", "Down"} => inactt[n] \/ InProgress("Kill", n)
    /\ nst[n] = "Loading" => reqs[n] \/ InProgress("LoadingDone", n)
    /\ reqs[n] => nst[n] \in Exchanging
    /\ InProgress("LoadingDone", n) => ~reqs[n]

Guarded == \A n \in Nbr : GuardedAt(n)

\* The ways of a neighbour from state to state, with its timers and requests.
Kept(n) == reqs'[n] = reqs[n] /\ progt'[n] = progt[n] /\ inactt'[n] = inactt[n]

Moves(n, h) ==
    \/ /\ nst'[n] = nst[n] /\ Kept(n)
       /\ h # "Kill"
       /\ h = "RestartDD" => nst[n] \notin Negotiating
       /\ h = "LoadingDone" => nst[n] # "Loading"
    \/ /\ h = "HelloRcvd" /\ nst[n] = "Down" /\ nst'[n] = "Init"
       /\ inactt'[n] /\ reqs'[n] = reqs[n] /\ progt'[n] = progt[n]
    \/ /\ h # "Kill" /\ nst[n] \in BIDIR /\ nst'[n] \in {"Init", "2Way"}
       /\ ~reqs'[n] /\ ~progt'[n] /\ inactt'[n] = inactt[n]
    \/ /\ nst'[n] = "Down" \/ (h = "Reap" /\ nst'[n] = "None")
       /\ ~reqs'[n] /\ ~progt'[n] /\ ~inactt'[n]
    \/ /\ h \in {"2WayRcvd", "DDRcvd", "Eval"} /\ nst[n] \in {"Init", "2Way"}
       /\ nst'[n] = "2Way" /\ Kept(n)
    \/ /\ h \in {"2WayRcvd", "DDRcvd", "Eval"} /\ nst[n] \in {"Init", "2Way"}
       /\ nst'[n] = "ExStart"
       /\ progt'[n] /\ reqs'[n] = reqs[n] /\ inactt'[n] = inactt[n]
    \/ h = "NegDone" /\ nst[n] = "ExStart" /\ nst'[n] = "Exchange" /\ Kept(n)
    \/ h = "ExchangeDone" /\ reqs[n] /\ nst[n] = "Exchange" /\ nst'[n] = "Loading" /\ Kept(n)
    \/ /\ \/ h = "ExchangeDone" /\ nst[n] = "Exchange" /\ ~reqs[n]
          \/ h = "LoadingDone" /\ nst[n] = "Loading"
       /\ nst'[n] = "Full"
       /\ ~progt'[n] /\ reqs'[n] = reqs[n] /\ inactt'[n] = inactt[n]

LEMMA NbrStepMoves ==
    ASSUME TypeOK, NEW n \in Nbr, NbrStep(n) \/ Reap(n)
    PROVE  Moves(n, Head(calls).ev)
<1>. DEFINE h == Head(calls).ev
            OK == Moves(n, h)
<1>1. /\ nst \in [Nbr -> States \cup {"None"}]
      /\ reqs \in [Nbr -> BOOLEAN] /\ progt \in [Nbr -> BOOLEAN]
      /\ inactt \in [Nbr -> BOOLEAN]
  BY DEF TypeOK
<1>2. \A s : nst' = [nst EXCEPT ![n] = s] => nst'[n] = s
  BY <1>1
<1>3. UNCHANGED <<reqs, progt, inactt>> => Kept(n)
  BY DEF Kept
<1>4. /\ Ignored(n) /\ h # "Kill" /\ (h = "RestartDD" => nst[n] \notin Negotiating)
            /\ (h = "LoadingDone" => nst[n] # "Loading")
      => OK
  BY <1>3 DEF Ignored, nbrVars, Moves
<1>5. \A s : GiveUp(n, s) => nst'[n] = s /\ ~reqs'[n] /\ ~progt'[n]
  BY <1>1 DEF GiveUp
<1>6. inactt' = [inactt EXCEPT ![n] = FALSE] => ~inactt'[n]
  BY <1>1
<1>7. /\ nba_eval1(n) \/ nba_eval2(n)
      /\ nst[n] \in {"Init", "2Way"} /\ h \in {"2WayRcvd", "DDRcvd", "Eval"}
      => OK
  <2>1. StayTwoWay(n) => nst'[n] = "2Way" /\ Kept(n)
    BY <1>2, <1>3 DEF StayTwoWay
  <2>2. \A r : TakeSlot(n, r) => /\ nst'[n] = "ExStart" /\ progt'[n]
                                 /\ reqs'[n] = reqs[n] /\ inactt'[n] = inactt[n]
    BY <1>1, <1>2 DEF TakeSlot
  <2>. QED
    BY <2>1, <2>2 DEF nba_eval1, nba_eval2, Moves
<1>8. BecomeFull(n) => /\ nst'[n] = "Full" /\ ~progt'[n]
                       /\ reqs'[n] = reqs[n] /\ inactt'[n] = inactt[n]
  BY <1>1, <1>2 DEF BecomeFull
<1>a. CASE NbrHelloRcvd(n)
  <2>1. inactt' = [inactt EXCEPT ![n] = TRUE] => inactt'[n]
    BY <1>1
  <2>. QED
    BY <1>a, <1>2, <1>4, <2>1 DEF NbrHelloRcvd, Running, Moves
<1>b. CASE Nbr1WayRcvd(n)
  BY <1>b, <1>4, <1>5 DEF Nbr1WayRcvd, Running, Moves
<1>c. CASE Nbr2WayRcvd(n)
  BY <1>c, <1>4, <1>7 DEF Nbr2WayRcvd, Running
<1>d. CASE NbrDDRcvd(n)
  BY <1>d, <1>4, <1>7 DEF NbrDDRcvd, Running
<1>e. CASE NbrNegDone(n)
  BY <1>e, <1>2, <1>3, <1>4 DEF NbrNegDone, Running, Moves
<1>f. CASE NbrExchangeDone(n)
  BY <1>f, <1>2, <1>3, <1>4, <1>8 DEF NbrExchangeDone, Running, Moves
<1>g. CASE NbrLoadingDone(n)
  BY <1>g, <1>4, <1>8 DEF NbrLoadingDone, Running, Moves
<1>h. CASE NbrEval(n)
  BY <1>h, <1>4, <1>5, <1>7 DEF NbrEval, Running, Moves, BIDIR
<1>i. CASE NbrRestartDD(n)
  BY <1>i, <1>4, <1>5
     DEF NbrRestartDD, Running, Moves, BIDIR, ADJFORM, FLOOD, Exchanging, Negotiating
<1>j. CASE NbrKill(n)
  BY <1>j, <1>5, <1>6 DEF NbrKill, Moves
<1>k. CASE Reap(n)
  BY <1>k, <1>4, <1>5, <1>6 DEF Reap, Running, Moves
<1>. QED
  BY <1>a, <1>b, <1>c, <1>d, <1>e, <1>f, <1>g, <1>h, <1>i, <1>j, <1>k DEF NbrStep

LEMMA NbrStepGuarded ==
    ASSUME TypeOK, Guarded, NEW n \in Nbr, NbrStep(n) \/ Reap(n)
    PROVE  Guarded'
<1>. DEFINE h == Head(calls).ev
<1>1. /\ calls # <<>> /\ n \in Head(calls).on
      /\ \A m \in Nbr \ {n} : Same(m)
  BY NbrStepEffect
<1>2. \A e : \A m \in Nbr :
         /\ Awaits(calls', e, m) => Awaits(calls, e, m)
         /\ Awaits(calls, e, m) => Awaits(calls', e, m) \/ (m = n /\ h = e)
  BY NbrStepAwaits
<1>3. Awaits(calls, h, n)
  BY <1>1, AwaitsParts DEF TypeOK
<1>4. Moves(n, h)
  BY NbrStepMoves
<1>. HIDE DEF h
<1>5. GuardedAt(n)
  BY DEF Guarded
<1>6. GuardedAt(n)'
  BY <1>2, <1>3, <1>4, <1>5
     DEF GuardedAt, InProgress, Moves, Kept, BIDIR, ADJFORM, FLOOD, Exchanging, Negotiating
<1>7. ASSUME NEW m \in Nbr \ {n}
      PROVE  GuardedAt(m)'
  <2>1. Same(m) /\ GuardedAt(m)
    BY <1>1 DEF Guarded
  <2>2. \A e : Awaits(calls', e, m) <=> Awaits(calls, e, m)
    BY <1>2
  <2>. QED
    BY <2>1, <2>2 DEF GuardedAt, Same, InProgress
<1>. QED
  BY <1>6, <1>7 DEF Guarded

\* A step that leaves neighbours alone, and of the events in progress at most ends
\* those of the loop over the queue and begins an evaluation.
LEMMA OtherGuarded ==
    ASSUME Guarded, UNCHANGED <<nst, reqs, progt, inactt>>,
           \A e \in {"RestartDD", "Kill", "LoadingDone"} : \A m \in Nbr :
                Awaits(calls', e, m) <=> Awaits(calls, e, m)
    PROVE  Guarded'
BY DEF Guarded, GuardedAt, InProgress

LEMMA IfcStepGuarded ==
    ASSUME TypeOK, Guarded, NEW i \in Ifc, IfcNChg(i) \/ IfcElect(i)
    PROVE  Guarded'
BY IfcStepEffect, OtherGuarded DEF nbrVars

LEMMA DrainGuarded ==
    ASSUME TypeOK, Guarded, Drain
    PROVE  Guarded'
BY DrainEffect, OtherGuarded

\* What a Hello enters with.
LEMMA HelloAwaits ==
    ASSUME NEW n \in Nbr, Hello(n), NEW e, NEW m \in Nbr, Awaits(calls', e, m)
    PROVE  m = n /\ e \in {"HelloRcvd", "1WayRcvd", "2WayRcvd", "Eval"}
<1>1. PICK listed, priChange, change, seen \in BOOLEAN :
               RecvHello(n, listed, priChange, change, seen)
  BY DEF Hello
<1>. DEFINE ev(f) == Raise(f, {n})
            reEval == IF priChange THEN ev("Eval") ELSE <<>>
            tell == IF seen THEN Raise("Elect", {ifcOf[n]})
                    ELSE IF priChange \/ change
                         THEN Raise("NChg", {ifcOf[n]}) ELSE <<>>
            first == IF nst[n] \in {"None", "Down"} THEN ev("Eval") ELSE <<>>
            Fits(c) == c \in Seq(Call) /\ \A f : \A y \in Nbr :
                Awaits(c, f, y) => y = n /\ f \in {"HelloRcvd", "1WayRcvd", "2WayRcvd", "Eval"}
<1>2. calls' = ev("HelloRcvd") \o (IF listed THEN (ev("2WayRcvd") \o reEval) \o tell
                                  ELSE ev("1WayRcvd") \o first)
  BY <1>1 DEF RecvHello, Enter
<1>3. Fits(<<>>) /\ \A f \in {"HelloRcvd", "1WayRcvd", "2WayRcvd", "Eval"} : Fits(ev(f))
  <2>1. \A f \in {"HelloRcvd", "1WayRcvd", "2WayRcvd", "Eval"} :
           f \in Events /\ {n} \in SUBSET (Nbr \cup Ifc)
    BY DEF Events, NbrEvents
  <2>2. \A f \in {"HelloRcvd", "1WayRcvd", "2WayRcvd", "Eval"} : ev(f) \in Seq(Call)
    BY <2>1, RaiseType
  <2>3. <<>> \in Seq(Call)
    OBVIOUS
  <2>. QED
    BY <2>2, <2>3, AwaitsRaised
<1>4. Fits(tell)
  <2>1. ASSUME NEW f \in IfcEvents
        PROVE  Fits(Raise(f, {ifcOf[n]}))
    <3>1. f \in Events /\ {ifcOf[n]} \in SUBSET (Nbr \cup Ifc) /\ ifcOf[n] \notin Nbr
      BY ConstantsAssumption DEF Events
    <3>2. Raise(f, {ifcOf[n]}) \in Seq(Call)
      BY <3>1, RaiseType
    <3>. QED
      BY <3>1, <3>2, AwaitsRaised
  <2>. HIDE DEF Fits
  <2>. QED
    BY <1>3, <2>1 DEF IfcEvents
<1>5. ASSUME NEW a, NEW b, Fits(a), Fits(b)
      PROVE  Fits(a \o b)
  BY <1>5, AwaitsConcat, ConcatProperties
<1>. HIDE DEF Fits, ev
<1>6. Fits(reEval) /\ Fits(first)
  BY <1>3
<1>. HIDE DEF reEval, tell, first
<1>7. Fits((ev("2WayRcvd") \o reEval) \o tell) /\ Fits(ev("1WayRcvd") \o first)
  BY <1>3, <1>4, <1>5, <1>6
<1>8. Fits(calls')
  BY <1>2, <1>3, <1>5, <1>7
<1>. QED
  BY <1>8 DEF Fits

\* When nothing runs there are no exceptions.
LEMMA IdleGuarded ==
    ASSUME Guarded, calls = <<>>, NEW m \in Nbr
    PROVE  /\ progt[m] <=> nst[m] \in Negotiating
           /\ inactt[m] <=> nst[m] \notin {"None", "Down"}
           /\ nst[m] = "Loading" => reqs[m]
           /\ reqs[m] => nst[m] \in Exchanging
<1>1. \A e : ~Awaits(calls, e, m)
  BY AwaitsRaised
<1>2. GuardedAt(m)
  BY DEF Guarded
<1>. QED
  BY <1>1, <1>2 DEF GuardedAt, InProgress

\* The events a handler enters with are for neighbours that exist, and
\* LoadingDone for one of which nothing is requested.
LEMMA HandlerAwaits ==
    ASSUME TypeOK, Guarded, Handler, NEW e, NEW m \in Nbr, Awaits(calls', e, m)
    PROVE  nst'[m] # "None" /\ (e = "LoadingDone" => ~reqs'[m]) /\ (e = "Reap" => Tick)
<1>1. calls = <<>> /\ ~Awaits(<<>>, e, m)
  BY HandlerIdle, AwaitsRaised
<1>2. nst \in [Nbr -> States \cup {"None"}] /\ reqs \in [Nbr -> BOOLEAN]
  BY DEF TypeOK
<1>3. /\ progt[m] => nst[m] # "None"
      /\ inactt[m] => nst[m] # "None"
      /\ reqs[m] => nst[m] # "None"
  BY <1>1, IdleGuarded DEF Negotiating, Exchanging
<1>. DEFINE Goal == nst'[m] # "None" /\ (e = "LoadingDone" => ~reqs'[m]) /\ (e = "Reap" => Tick)
<1>4. ASSUME NEW n \in Nbr, Hello(n)
      PROVE  Goal
  <2>1. m = n /\ e \in {"HelloRcvd", "1WayRcvd", "2WayRcvd", "Eval"}
    BY <1>4, HelloAwaits
  <2>2. nst'[n] # "None"
    BY <1>2, <1>4 DEF Hello, RecvHello
  <2>. QED
    BY <2>1, <2>2
<1>5. ASSUME NEW n \in Nbr,
             \/ RecvFirstDD(n) \/ RecvNegotiation(n) \/ AllDescribed(n) \/ RecvMismatch(n)
      PROVE  Goal
  <2>1. \E f \in {"DDRcvd", "NegDone", "ExchangeDone", "RestartDD"} :
              calls' = Raise(f, {n}) /\ nst'[n] # "None" /\ nst' = nst
    BY <1>5 DEF RecvFirstDD, RecvNegotiation, AllDescribed, RecvMismatch, Enter,
                Unchanged, nbrVars, FLOOD, Exchanging
  <2>. QED
    BY <2>1, AwaitsRaised
<1>6. ASSUME NEW n \in Nbr, RecvNews(n)
      PROVE  Goal
  BY <1>1, <1>6 DEF RecvNews
<1>7. ASSUME NEW n \in Nbr, LastRequestServed(n)
      PROVE  Goal
  <2>1. /\ nst' = nst /\ nst[n] # "None" /\ ~reqs'[n]
        /\ calls' = Raise("LoadingDone", {n}) \/ calls' = <<>>
    BY <1>2, <1>7 DEF LastRequestServed, Exchanging
  <2>2. calls' = Raise("LoadingDone", {n})
    BY <1>1, <2>1
  <2>3. m = n
    BY <2>2, AwaitsRaised
  <2>4. e = "LoadingDone"
    BY <2>2, AwaitsRaised
  <2>. QED
    BY <2>1, <2>3, <2>4
<1>8. ASSUME NEW n \in Nbr, AdjTmo(n) \/ Inactive(n)
      PROVE  Goal
  <2>1. \E f \in {"RestartDD", "Kill"} : calls' = Raise(f, {n})
    BY <1>8 DEF AdjTmo, Inactive
  <2>2. m = n /\ e # "LoadingDone" /\ e # "Reap"
    BY <2>1, AwaitsRaised
  <2>. QED
    BY <1>3, <1>8, <2>2 DEF AdjTmo, Inactive
<1>9. ASSUME NEW i \in Ifc, WaitOver(i) \/ IfUp(i)
      PROVE  Goal
  <2>1. calls' = Raise("Elect", {i}) \/ calls' = calls
    BY <1>9 DEF WaitOver, IfUp, Enter
  <2>2. m # i
    BY ConstantsAssumption
  <2>. QED
    BY <1>1, <2>1, <2>2, AwaitsRaised
<1>10. ASSUME NEW i \in Ifc, IfDown(i)
       PROVE  Goal
  <2>. DEFINE present == {n \in NbrsOf(i) : nst[n] # "None"}
  <2>1. nst' = nst /\ calls' = IF present = {} THEN <<>> ELSE Raise("Kill", present)
    BY <1>10 DEF IfDown, Enter, nbrVars
  <2>2. calls' = Raise("Kill", present)
    BY <1>1, <2>1
  <2>3. m \in present /\ e = "Kill"
    BY <2>2, AwaitsRaised
  <2>. QED
    BY <2>1, <2>3
<1>11. ASSUME Tick
       PROVE  Goal
  <2>. DEFINE present == {n \in Nbr : nst[n] # "None"}
              reap == IF deleteNbrs /\ present # {} THEN Raise("Reap", present) ELSE <<>>
  <2>1. nst' = nst /\ calls' = reap \o Raise("Drain", {})
    BY <1>11 DEF Tick, Enter, nbrVars
  <2>2. reap \in Seq(Call) /\ Raise("Drain", {}) \in Seq(Call)
    BY EnterType DEF Events
  <2>3. Awaits(reap, e, m) => e = "Reap" /\ m \in present
    BY AwaitsRaised
  <2>4. ~Awaits(Raise("Drain", {}), e, m)
    BY AwaitsRaised
  <2>. HIDE DEF reap
  <2>5. Awaits(reap, e, m)
    BY <2>1, <2>2, <2>4, AwaitsConcat
  <2>. QED
    BY <1>11, <2>1, <2>3, <2>5
<1>. QED
  BY <1>4, <1>5, <1>6, <1>7, <1>8, <1>9, <1>10, <1>11 DEF Handler

LEMMA HandlerGuarded ==
    ASSUME TypeOK, Guarded, Handler
    PROVE  Guarded'
<1>. SUFFICES ASSUME NEW m \in Nbr
              PROVE  GuardedAt(m)'
  BY DEF Guarded
<1>1. /\ progt[m] <=> nst[m] \in Negotiating
      /\ inactt[m] <=> nst[m] \notin {"None", "Down"}
      /\ nst[m] = "Loading" => reqs[m]
      /\ reqs[m] => nst[m] \in Exchanging
  BY HandlerIdle, IdleGuarded
<1>2. Awaits(calls', "LoadingDone", m) => ~reqs'[m]
  BY HandlerAwaits, Zenon
<1>. DEFINE Same4 == /\ nst'[m] = nst[m] /\ reqs'[m] = reqs[m]
                     /\ progt'[m] = progt[m] /\ inactt'[m] = inactt[m]
<1>3. ASSUME Same4
      PROVE  GuardedAt(m)'
  BY <1>1, <1>2, <1>3 DEF GuardedAt, InProgress
<1>4. ASSUME NEW n \in Nbr, Hello(n)
      PROVE  GuardedAt(m)'
  <2>1. /\ nst'[m] = nst[m] \/ (nst[m] = "None" /\ nst'[m] = "Down")
        /\ reqs' = reqs /\ progt' = progt /\ inactt' = inactt
    BY <1>4 DEF Hello, RecvHello, TypeOK
  <2>. QED
    BY <1>1, <1>2, <2>1 DEF GuardedAt, InProgress, Negotiating, Exchanging
<1>5. ASSUME NEW n \in Nbr, RecvNews(n)
      PROVE  GuardedAt(m)'
  <2>1. /\ nst' = nst /\ progt' = progt /\ inactt' = inactt
        /\ reqs'[m] = reqs[m] \/ (reqs'[m] /\ nst[m] = "Exchange")
    BY <1>5 DEF RecvNews, TypeOK
  <2>. QED
    BY <1>1, <1>2, <2>1 DEF GuardedAt, InProgress, Exchanging
<1>6. ASSUME NEW n \in Nbr, LastRequestServed(n)
      PROVE  GuardedAt(m)'
  <2>1. /\ nst' = nst /\ progt' = progt /\ inactt' = inactt
        /\ reqs' = [reqs EXCEPT ![n] = FALSE]
        /\ nst[n] = "Loading" => calls' = Raise("LoadingDone", {n})
    BY <1>6 DEF LastRequestServed
  <2>2. reqs'[m] = reqs[m] \/ (m = n /\ ~reqs'[m])
    BY <2>1 DEF TypeOK
  <2>3. m = n /\ nst[m] = "Loading" => Awaits(calls', "LoadingDone", m)
    BY <2>1, AwaitsRaised
  <2>. QED
    BY <1>1, <1>2, <2>1, <2>2, <2>3 DEF GuardedAt, InProgress
<1>7. ASSUME NEW n \in Nbr, AdjTmo(n)
      PROVE  GuardedAt(m)'
  <2>1. /\ nst' = nst /\ reqs' = reqs /\ inactt' = inactt
        /\ progt' = [progt EXCEPT ![n] = FALSE]
        /\ calls' = Raise("RestartDD", {n})
    BY <1>7 DEF AdjTmo
  <2>2. m # n => progt'[m] = progt[m]
    BY <2>1 DEF TypeOK
  <2>3. m = n => ~progt'[m]
    BY <2>1 DEF TypeOK
  <2>4. m = n => Awaits(calls', "RestartDD", m)
    BY <2>1, AwaitsRaised
  <2>. QED
    BY <1>1, <1>2, <2>1, <2>2, <2>3, <2>4 DEF GuardedAt, InProgress
<1>8. ASSUME NEW n \in Nbr, Inactive(n)
      PROVE  GuardedAt(m)'
  <2>1. /\ nst' = nst /\ reqs' = reqs /\ progt' = progt
        /\ inactt' = [inactt EXCEPT ![n] = FALSE]
        /\ calls' = Raise("Kill", {n})
    BY <1>8 DEF Inactive
  <2>2. m # n => inactt'[m] = inactt[m]
    BY <2>1 DEF TypeOK
  <2>3. m = n => ~inactt'[m]
    BY <2>1 DEF TypeOK
  <2>4. m = n => Awaits(calls', "Kill", m)
    BY <2>1, AwaitsRaised
  <2>. QED
    BY <1>1, <1>2, <2>1, <2>2, <2>3, <2>4 DEF GuardedAt, InProgress
<1>9. ASSUME NEW n \in Nbr,
             \/ RecvFirstDD(n) \/ RecvNegotiation(n) \/ AllDescribed(n) \/ RecvMismatch(n)
      PROVE  Same4
  BY <1>9 DEF RecvFirstDD, RecvNegotiation, AllDescribed, RecvMismatch, Unchanged, nbrVars
<1>10. Tick \/ (\E i \in Ifc : WaitOver(i) \/ IfUp(i) \/ IfDown(i)) => Same4
  BY DEF Tick, WaitOver, IfUp, IfDown, Unchanged, nbrVars
<1>. QED
  BY <1>3, <1>4, <1>5, <1>6, <1>7, <1>8, <1>9, <1>10 DEF Handler

\* The exceptions included, this is inductive.
LEMMA GuardedAlways == Spec => []Guarded
<1>1. Init => Guarded
  <2>. SUFFICES ASSUME Init, NEW m \in Nbr
                PROVE  GuardedAt(m)
    BY DEF Guarded
  <2>1. ~Awaits(calls, "LoadingDone", m)
    BY AwaitsRaised DEF Init
  <2>. QED
    BY <2>1 DEF Init, GuardedAt, InProgress, Negotiating
<1>2. TypeOK /\ Guarded /\ [Next]_vars => Guarded'
  <2>. SUFFICES ASSUME TypeOK, Guarded, [Next]_vars
                PROVE  Guarded'
    OBVIOUS
  <2>1. CASE Step
    BY <2>1, NbrStepGuarded, IfcStepGuarded, DrainGuarded DEF Step
  <2>2. CASE Handler
    BY <2>2, HandlerGuarded
  <2>3. CASE UNCHANGED vars
    BY <2>3, OtherGuarded DEF vars, nbrVars
  <2>. QED
    BY <2>1, <2>2, <2>3 DEF Next, Handler
<1>. QED
  BY <1>1, <1>2, TypeCorrect, PTL DEF Spec

\* Whenever no handler runs, the progress timer runs exactly for an adjacency being
\* built, the inactivity timer exactly for a neighbour heard of and not Down, and
\* requests belong to Exchange and Loading, for any number of neighbours.
THEOREM StatesGuardedAlways == Spec => []StatesGuarded
<1>1. Guarded => StatesGuarded
  BY IdleGuarded DEF StatesGuarded, Idle
<1>. QED
  BY <1>1, GuardedAlways, PTL

-----------------------------------------------------------------------------
(* No event is for a neighbour that is gone: when delete_down_neighbors frees *)
(* one, nothing else is in progress.                                         *)

Attended ==
    /\ \A e : \A n \in Nbr : InProgress(e, n) => nst[n] # "None"
    /\ \A n \in Nbr : InProgress("Reap", n)
                        => \A e : \A m \in Nbr : ~Awaits(Tail(calls), e, m)

\* If someone is still to be reaped, that is the event on top.
LEMMA ReapOnTop ==
    ASSUME TypeOK, Attended, NEW n \in Nbr, Awaits(calls, "Reap", n)
    PROVE  calls # <<>> /\ Head(calls).ev = "Reap"
<1>1. calls # <<>>
  BY AwaitsRaised
<1>2. ~Awaits(Tail(calls), "Reap", n)
  BY DEF Attended, InProgress
<1>. QED
  BY <1>1, <1>2, AwaitsParts DEF TypeOK

\* Reap leaves nothing below the event on top for a neighbour.
LEMMA ReapAttended ==
    ASSUME TypeOK, Attended, NEW n \in Nbr, Return(n, <<>>), calls # <<>>,
           NEW k \in Nbr, Awaits(calls, "Reap", k), Awaits(calls', "Reap", k),
           NEW e, NEW m \in Nbr
    PROVE  ~Awaits(Tail(calls'), e, m)
<1>. DEFINE left == Head(calls).on \ {n}
<1>1. \A f : \A y \in Nbr : ~Awaits(Tail(calls), f, y)
  BY DEF Attended, InProgress
<1>2. Tail(calls) \in Seq(Call)
  BY HeadTailProperties DEF TypeOK
<1>3. calls' = <<>> \o (IF left = {} THEN <<>> ELSE Raise(Head(calls).ev, left)) \o Tail(calls)
  BY DEF Return
<1>4. CASE left = {}
  <2>1. calls' = Tail(calls)
    BY <1>2, <1>3, <1>4
  <2>. QED
    BY <1>1, <2>1
<1>5. CASE left # {}
  <2>1. calls' = <<[ev |-> Head(calls).ev, on |-> left]>> \o Tail(calls)
    BY <1>3, <1>5 DEF Raise
  <2>. HIDE DEF left
  <2>2. Tail(calls') = Tail(calls)
    BY <1>2, <2>1
  <2>. QED
    BY <1>1, <2>2
<1>. QED
  BY <1>4, <1>5

LEMMA NbrStepAttended ==
    ASSUME TypeOK, Attended, NEW n \in Nbr, NbrStep(n) \/ Reap(n)
    PROVE  Attended'
<1>. DEFINE h == Head(calls).ev
<1>1. /\ calls # <<>> /\ n \in Head(calls).on
      /\ \A m \in Nbr \ {n} : Same(m)
  BY NbrStepEffect
<1>2. \A e : \A m \in Nbr :
         /\ Awaits(calls', e, m) => Awaits(calls, e, m)
         /\ Awaits(calls', e, n) => Awaits(Tail(calls), e, n)
  BY NbrStepAwaits
<1>3. Awaits(calls, h, n)
  BY <1>1, AwaitsParts DEF TypeOK
<1>4. ASSUME NEW e, NEW m \in Nbr, Awaits(calls', e, m)
      PROVE  nst'[m] # "None"
  <2>1. nst[m] # "None" /\ nst[n] # "None"
    BY <1>2, <1>3, <1>4 DEF Attended, InProgress
  <2>2. CASE m # n
    BY <1>1, <2>1, <2>2 DEF Same
  <2>3. CASE m = n
    <3>1. h # "Reap"
      BY <1>2, <1>3, <1>4, <2>3 DEF Attended, InProgress
    <3>2. Moves(n, h)
      BY NbrStepMoves
    <3>. HIDE DEF h
    <3>. QED
      BY <2>1, <2>3, <3>1, <3>2 DEF Moves
  <2>. QED
    BY <2>2, <2>3
<1>5. ASSUME NEW k \in Nbr, Awaits(calls', "Reap", k), NEW e, NEW m \in Nbr
      PROVE  ~Awaits(Tail(calls'), e, m)
  <2>1. Awaits(calls, "Reap", k)
    BY <1>2, <1>5
  <2>2. h = "Reap"
    BY <2>1, ReapOnTop
  <2>3. Reap(n)
    BY <2>2 DEF NbrStep, Running, NbrHelloRcvd, Nbr1WayRcvd, Nbr2WayRcvd, NbrDDRcvd,
         NbrNegDone, NbrExchangeDone, NbrLoadingDone, NbrEval, NbrRestartDD, NbrKill
  <2>4. Return(n, <<>>)
    BY <2>3 DEF Reap, Ignored
  <2>. QED
    BY <1>1, <1>5, <2>1, <2>4, ReapAttended
<1>. QED
  BY <1>4, <1>5 DEF Attended, InProgress

LEMMA IfcStepAttended ==
    ASSUME TypeOK, Attended, NEW i \in Ifc, IfcNChg(i) \/ IfcElect(i)
    PROVE  Attended'
<1>1. nst' = nst
  BY IfcStepEffect DEF nbrVars
<1>2. \A e : \A m \in Nbr : Awaits(calls', e, m) => nst'[m] # "None"
  <2>. SUFFICES ASSUME NEW e, NEW m \in Nbr, Awaits(calls', e, m)
                PROVE  nst[m] # "None"
    BY <1>1
  <2>1. Awaits(calls, e, m) \/ nst[m] # "None"
    BY IfcStepEffect
  <2>. QED
    BY <2>1 DEF Attended, InProgress
<1>3. Head(calls).ev # "Reap"
  BY DEF IfcNChg, IfcElect, Running
<1>4. \A m \in Nbr : ~Awaits(calls', "Reap", m)
  <2>. SUFFICES ASSUME NEW m \in Nbr, Awaits(calls', "Reap", m)
                PROVE  FALSE
    OBVIOUS
  <2>1. Awaits(calls, "Reap", m)
    BY IfcStepEffect
  <2>. QED
    BY <1>3, <2>1, ReapOnTop
<1>. QED
  BY <1>2, <1>4 DEF Attended, InProgress

\* Who waits in the queue is 2-Way.
LEMMA DrainAttended ==
    ASSUME TypeOK, QueueSound, Attended, Drain
    PROVE  Attended'
<1>1. nst' = nst /\ Head(calls).ev # "Reap"
  BY DrainEffect
<1>2. \A e : \A m \in Nbr : Awaits(calls', e, m) =>
         \/ Awaits(calls, e, m)
         \/ e = "Eval" /\ pendq # <<>> /\ m = Head(pendq)
  BY DrainEffect
<1>3. pendq # <<>> => nst[Head(pendq)] = "2Way"
  <2>. SUFFICES ASSUME pendq # <<>>
                PROVE  nst[Head(pendq)] = "2Way"
    OBVIOUS
  <2>1. 1 \in DOMAIN pendq /\ Head(pendq) = pendq[1] /\ Head(pendq) \in Nbr
    BY HeadTailProperties DEF TypeOK
  <2>. QED
    BY <2>1 DEF QueueSound, InQueue
<1>4. \A e : \A m \in Nbr : Awaits(calls', e, m) => nst'[m] # "None"
  BY <1>1, <1>2, <1>3 DEF Attended, InProgress
<1>5. \A m \in Nbr : ~Awaits(calls', "Reap", m)
  BY <1>1, <1>2, ReapOnTop
<1>. QED
  BY <1>4, <1>5 DEF Attended, InProgress

LEMMA HandlerAttended ==
    ASSUME TypeOK, Guarded, Handler
    PROVE  Attended'
<1>1. \A e : \A m \in Nbr : Awaits(calls', e, m) => nst'[m] # "None" /\ (e = "Reap" => Tick)
  BY HandlerAwaits
<1>2. ASSUME NEW k \in Nbr, Awaits(calls', "Reap", k), NEW e, NEW m \in Nbr
      PROVE  ~Awaits(Tail(calls'), e, m)
  <2>. DEFINE present == {n \in Nbr : nst[n] # "None"}
              down == Raise("Drain", {})
  <2>1. calls' = (IF deleteNbrs /\ present # {} THEN Raise("Reap", present) ELSE <<>>) \o down
    BY <1>1, <1>2 DEF Tick, Enter
  <2>2. \A f : \A y : ~Awaits(down, f, y) /\ ~Awaits(<<>>, f, y)
    BY AwaitsRaised
  <2>3. CASE deleteNbrs /\ present # {}
    <3>1. calls' = <<[ev |-> "Reap", on |-> present]>> \o down
      BY <2>1, <2>3 DEF Raise
    <3>2. down \in Seq(Call)
      BY EnterType DEF Events
    <3>. HIDE DEF present, down
    <3>3. Tail(calls') = down
      BY <3>1, <3>2
    <3>. QED
      BY <2>2, <3>3
  <2>4. CASE ~(deleteNbrs /\ present # {})
    <3>1. calls' = <<>> \o down
      BY <2>1, <2>4
    <3>2. down \in Seq(Call)
      BY EnterType DEF Events
    <3>. HIDE DEF down
    <3>3. calls' = down
      BY <3>1, <3>2
    <3>. QED
      BY <1>2, <2>2, <3>3
  <2>. QED
    BY <2>3, <2>4
<1>. QED
  BY <1>1, <1>2 DEF Attended, InProgress

\* No event in progress is for a neighbour that was freed meanwhile, for any number
\* of neighbours, although handlers nest and delete_down_neighbors iterates over the
\* neighbours while it frees them.
THEOREM NoDanglingCallEver == Spec => []NoDanglingCall
<1>1. Init => Attended
  <2>1. \A e, x : ~Awaits(<<>>, e, x)
    BY AwaitsRaised
  <2>. QED
    BY <2>1 DEF Init, Attended, InProgress
<1>2. TypeOK /\ QueueSound /\ Guarded /\ Attended /\ [Next]_vars => Attended'
  <2>. SUFFICES ASSUME TypeOK, QueueSound, Guarded, Attended, [Next]_vars
                PROVE  Attended'
    OBVIOUS
  <2>1. CASE Step
    BY <2>1, NbrStepAttended, IfcStepAttended, DrainAttended DEF Step
  <2>2. CASE Handler
    BY <2>2, HandlerAttended
  <2>3. CASE UNCHANGED vars
    BY <2>3 DEF vars, nbrVars, Attended, InProgress
  <2>. QED
    BY <2>1, <2>2, <2>3 DEF Next, Handler
<1>3. Attended => NoDanglingCall
  BY DEF Attended, NoDanglingCall, InProgress, Awaits
<1>. QED
  BY <1>1, <1>2, <1>3, TypeCorrect, QueueCorrect, GuardedAlways, PTL DEF Spec

-----------------------------------------------------------------------------
(* Evaluations are not nested.                                               *)

LEMMA ReturnNothing ==
    ASSUME calls \in Seq(Call), calls # <<>>, NEW x, Return(x, <<>>)
    PROVE  Len(calls') <= Len(calls)
<1>. DEFINE left == Head(calls).on \ {x}
<1>1. Tail(calls) \in Seq(Call) /\ Len(Tail(calls)) = Len(calls) - 1 /\ Len(calls) \in Nat
  BY HeadTailProperties
<1>2. calls' = <<>> \o (IF left = {} THEN <<>> ELSE Raise(Head(calls).ev, left)) \o Tail(calls)
  BY DEF Return
<1>3. CASE left = {}
  <2>1. calls' = Tail(calls)
    BY <1>1, <1>2, <1>3
  <2>. QED
    BY <1>1, <2>1
<1>4. CASE left # {}
  <2>1. calls' = <<[ev |-> Head(calls).ev, on |-> left]>> \o Tail(calls)
    BY <1>2, <1>4 DEF Raise
  <2>. HIDE DEF left
  <2>2. Len(calls') = Len(calls)
    BY <1>1, <2>1
  <2>. QED
    BY <1>1, <2>2
<1>. QED
  BY <1>3, <1>4

LEMMA EvalReturns ==
    ASSUME TypeOK, NEW n \in Nbr, NbrEval(n)
    PROVE  Return(n, <<>>)
<1>1. CASE nst[n] = "2Way"
  <2>1. TellIfc(n, "2Way") = <<>> /\ TellIfc(n, "ExStart") = <<>>
    BY <1>1 DEF TellIfc, BIDIR, ADJFORM
  <2>2. nba_eval1(n)
    BY <1>1 DEF NbrEval, ADJFORM, FLOOD, Exchanging
  <2>. QED
    BY <2>1, <2>2 DEF nba_eval1, StayTwoWay, TakeSlot
<1>2. CASE nst[n] # "2Way"
  BY <1>2 DEF NbrEval, Ignored
<1>. QED
  BY <1>1, <1>2

\* While a neighbour is evaluated no event is raised, for any number of neighbours: an
\* election that evaluates them all never starts another one inside itself.
THEOREM EvalRaisesNothingEver == Spec => EvalRaisesNothing
<1>1. TypeOK /\ [Next]_vars
         => [\A n \in Nbr : Running("Eval", n) => Len(calls') <= Len(calls)]_vars
  <2>. SUFFICES ASSUME TypeOK, Next, NEW n \in Nbr, Running("Eval", n)
                PROVE  Len(calls') <= Len(calls)
    OBVIOUS
  <2>1. calls \in Seq(Call) /\ calls # <<>> /\ Head(calls).ev = "Eval"
    BY DEF TypeOK, Running
  <2>2. ~Handler
    BY <2>1, HandlerIdle
  <2>3. Step
    BY <2>2 DEF Next, Handler
  <2>4. \E m \in Nbr : NbrEval(m)
    BY <2>1, <2>3
       DEF Step, NbrStep, Running, NbrHelloRcvd, Nbr1WayRcvd, Nbr2WayRcvd, NbrDDRcvd,
           NbrNegDone, NbrExchangeDone, NbrLoadingDone, NbrRestartDD, NbrKill, Reap,
           IfcNChg, IfcElect, Drain
  <2>5. PICK m \in Nbr : Return(m, <<>>)
    BY <2>4, EvalReturns
  <2>. QED
    BY <2>1, <2>5, ReturnNothing
<1>. QED
  BY <1>1, TypeCorrect, PTL DEF Spec, EvalRaisesNothing
=============================================================================
