--------------------------- MODULE ProgramProofs ---------------------------
(***************************************************************************)
(* The programs of ProgramParts, for every value of their parameters: the    *)
(* memory of the simulator, the memory behind the L1D cache, the unit test   *)
(* of the back end and the trace log.                                      *)
(***************************************************************************)
EXTENDS ProgramParts, SequenceTheorems, NaturalsInduction, WellFoundedInduction, TLAPS

-----------------------------------------------------------------------------
(* The memory of the simulator.                                            *)

(* A port waits only for a request it has performed; it has performed only *)
(* a request that is still shown; and it acknowledges what it performed.   *)
PortOK(pt, rq) ==
  /\ pt.wait # 0 => pt.finish
  /\ pt.finish => rq # None
  /\ phase = "core" /\ pt.ack => rq # None /\ ~pt.finish

Done(pt) == pt.finish \/ (phase = "core" /\ pt.ack)

IsStore(rq) == rq # None /\ rq.we /\ rq.adr \in Ram
IsLoad(rq) == rq # None /\ ~rq.we /\ rq.adr \in Ram

(* RAM is what the core believes, but for the store that was performed and *)
(* not acknowledged yet.                                                   *)
RamInv == data = IF count = 1 /\ IsStore(dreq)
                 THEN [stored EXCEPT ![dreq.adr] = Merged(dreq, @)] ELSE stored

CountInv == count = IF Done(d) THEN 1 ELSE 0

LoadInv == count = 1 /\ IsLoad(dreq) => d.dat = stored[dreq.adr]

FetchInv == IsLoad(ireq) => /\ data[ireq.adr] \in could
                            /\ Done(i) => i.dat \in could

MemoryInv == /\ MemoryTypeOK
             /\ PortOK(d, dreq) /\ PortOK(i, ireq)
             /\ CountInv /\ RamInv /\ LoadInv /\ FetchInv

(* What can be shown on a bus is a request or nothing.                     *)
LEMMA ShownType == /\ \A r \in DataShown : r = None \/ r \in Request
                   /\ \A r \in FetchShown : r = None \/ r \in Request
                   /\ None \in DataShown /\ None \in FetchShown
                   /\ ZeroWord \in Word
<1>1. ZeroWord \in Word
  BY BytesAssumption DEF ZeroWord, Word
<1>2. \A a \in Address : Load(a) \in Request
  BY <1>1 DEF Load, Request
<1>3. Stores \subseteq Request
  BY DEF Stores, Request
<1> QED BY <1>1, <1>2, <1>3 DEF DataShown, FetchShown, Address

(* The wires after a call are those of a port.                             *)
LEMMA CallType ==
  ASSUME MemoryTypeOK, NEW pt \in Port, NEW rq, rq = None \/ rq \in Request,
         NEW lat \in generate_latency
  PROVE  Call(pt, rq, lat) \in Port
<1>1. CASE pt.wait # 0
  <2>1. pt.wait - 1 \in 0 .. MaxLatency
    BY <1>1, LatencyAssumption DEF Port
  <2> QED BY <1>1, <2>1 DEF Call, Port
<1>2. CASE pt.wait = 0 /\ rq = None
  BY <1>2 DEF Call, Port
<1>3. CASE pt.wait = 0 /\ rq # None /\ pt.finish
  BY <1>3 DEF Call, Port
<1>4. CASE pt.wait = 0 /\ rq # None /\ ~pt.finish
  <2>1. \A a \in Address : handle_read(a) \in Word
    BY ShownType DEF handle_read, MemoryTypeOK
  <2>2. (IF ~rq.we /\ rq.adr # Hole THEN handle_read(rq.adr) ELSE pt.dat) \in Word
    BY <1>4, <2>1 DEF Request, Port
  <2>3. (IF rq.adr = Hole THEN 0 ELSE lat) \in 0 .. MaxLatency
    BY LatencyAssumption DEF generate_latency
  <2> QED BY <1>4, <2>2, <2>3 DEF Call, Perform, Port
<1> QED BY <1>1, <1>2, <1>3, <1>4

(* A call keeps the port's discipline: see PortOK.  The phase it runs in   *)
(* is "memory" and the next one is "core".                                 *)
LEMMA CallPort ==
  ASSUME NEW pt \in Port, NEW rq, NEW lat \in generate_latency,
         phase = "memory", PortOK(pt, rq)
  PROVE  LET new == Call(pt, rq, lat) IN
         /\ new.wait # 0 => new.finish
         /\ new.finish => rq # None
         /\ new.ack => rq # None /\ ~new.finish
         /\ (new.finish \/ new.ack) <=> (pt.finish \/ Performs(pt, rq))
         /\ ~Performs(pt, rq) => new.dat = pt.dat
         /\ Performs(pt, rq) =>
              new.dat = IF ~rq.we /\ rq.adr # Hole THEN handle_read(rq.adr)
                        ELSE pt.dat
<1>1. CASE pt.wait # 0
  BY <1>1 DEF Call, Port, PortOK, Performs
<1>2. CASE pt.wait = 0 /\ rq = None
  BY <1>2 DEF Call, Port, PortOK, Performs
<1>3. CASE pt.wait = 0 /\ rq # None /\ pt.finish
  BY <1>3 DEF Call, Port, PortOK, Performs
<1>4. CASE pt.wait = 0 /\ rq # None /\ ~pt.finish
  BY <1>4 DEF Call, Perform, Port, PortOK, Performs
<1> QED BY <1>1, <1>2, <1>3, <1>4 DEF Port

(* The code's byte strobes do what a store means.                          *)
LEMMA StoreMerges ==
  ASSUME NEW ram \in [Ram -> Word], NEW rq \in Request, rq.adr \in Ram
  PROVE  /\ Store(ram, rq) = [ram EXCEPT ![rq.adr] = Merged(rq, @)]
         /\ Store(ram, rq) \in [Ram -> Word]
<1>1. \A w \in Word : Merged(rq, w) \in Word
  BY DEF Merged, Word, Request
<1> QED BY <1>1 DEF Store, handle_write, Merged

(* After core_init nothing is on the bus and nothing was stored.           *)
LEMMA InitMemory == MemoryInit => MemoryInv
<1> SUFFICES ASSUME MemoryInit PROVE MemoryInv
  OBVIOUS
<1>1. Idle \in Port
  BY ShownType, LatencyAssumption DEF Idle, Port
<1>2. MemoryTypeOK
  BY <1>1, ShownType DEF MemoryInit, MemoryTypeOK
<1>3. PortOK(d, dreq) /\ PortOK(i, ireq) /\ CountInv
  BY DEF MemoryInit, PortOK, CountInv, Done, Idle
<1>4. RamInv /\ LoadInv /\ FetchInv
  BY DEF MemoryInit, RamInv, LoadInv, FetchInv, IsStore, IsLoad
<1> QED BY <1>2, <1>3, <1>4 DEF MemoryInv

(* The calls of I_Request and D_Request preserve the invariant.            *)
LEMMA ServeMemory == MemoryInv /\ Serve => MemoryInv'
<1> SUFFICES ASSUME MemoryInv, Serve PROVE MemoryInv'
  OBVIOUS
<1> USE DEF MemoryInv
<1>1. PICK il \in generate_latency : I_Request(il)
  BY DEF Serve
<1>2. PICK dl \in generate_latency : D_Request(dl)
  BY DEF Serve
<1>3. /\ dreq = None \/ dreq \in Request
      /\ ireq = None \/ ireq \in Request
      /\ d \in Port /\ i \in Port /\ data \in [Ram -> Word] /\ stored \in [Ram -> Word]
  BY ShownType DEF MemoryTypeOK
<1>4. phase = "memory" /\ phase' = "core" /\ UNCHANGED <<dreq, ireq, stored>>
  BY DEF Serve
<1>5. data' = (IF Performs(d, dreq) /\ dreq.we /\ dreq.adr \in Ram
               THEN Store(data, dreq) ELSE data) /\ data' \in [Ram -> Word]
  BY <1>2, <1>3, StoreMerges DEF D_Request, Performs
<1>6. could' = (IF ireq # None /\ ireq.adr \in Ram
                THEN could \cup {data'[ireq.adr]} ELSE could)
  BY DEF Serve
<1>7. /\ d' = Call(d, dreq, dl) /\ d' \in Port
      /\ i' = Call(i, ireq, il) /\ i' \in Port
  BY <1>1, <1>2, <1>3, CallType DEF I_Request, D_Request
<1>8. MemoryTypeOK'
  <2>1. count' \in 0 .. 2
    BY <1>2 DEF D_Request, MemoryTypeOK
  <2>2. could' \subseteq Word
    BY <1>5, <1>6 DEF MemoryTypeOK
  <2> QED BY <2>1, <2>2, <1>4, <1>5, <1>7 DEF MemoryTypeOK
<1>9. PortOK(d, dreq)' /\ (Done(d)' <=> Done(d) \/ Performs(d, dreq))
  BY <1>3, <1>4, <1>7, CallPort DEF PortOK, Done
<1>10. PortOK(i, ireq)' /\ (Done(i)' <=> Done(i) \/ Performs(i, ireq))
  BY <1>3, <1>4, <1>7, CallPort DEF PortOK, Done
<1>11. Performs(d, dreq) => count = 0
  BY <1>4 DEF CountInv, Done, Performs
<1>12. CountInv' /\ count' = IF Performs(d, dreq) THEN 1 ELSE count
  BY <1>2, <1>9, <1>11 DEF D_Request, CountInv
<1>13. RamInv'
  <2>1. CASE Performs(d, dreq)
    <3>1. data = stored
      BY <2>1, <1>11 DEF RamInv
    <3>2. CASE dreq.we /\ dreq.adr \in Ram
      BY <3>1, <3>2, <2>1, <1>3, <1>4, <1>5, <1>12, StoreMerges
         DEF RamInv, IsStore, Performs, Merged
    <3>3. CASE ~(dreq.we /\ dreq.adr \in Ram)
      BY <3>1, <3>3, <1>4, <1>5 DEF RamInv, IsStore
    <3> QED BY <3>2, <3>3
  <2>2. CASE ~Performs(d, dreq)
    BY <2>2, <1>4, <1>5, <1>12 DEF RamInv, IsStore, Merged
  <2> QED BY <2>1, <2>2
<1>14. LoadInv'
  <2> SUFFICES ASSUME count' = 1, IsLoad(dreq)
               PROVE  d'.dat = stored[dreq.adr]
    BY <1>4 DEF LoadInv, IsLoad
  <2>1. CASE Performs(d, dreq)
    <3>1. d'.dat = handle_read(dreq.adr)
      BY <2>1, <1>3, <1>4, <1>7, CallPort, HandlersAssumption DEF IsLoad
    <3> QED BY <3>1, <2>1, <1>11 DEF IsLoad, handle_read, RamInv
  <2>2. CASE ~Performs(d, dreq)
    BY <2>2, <1>3, <1>4, <1>7, <1>12, CallPort DEF LoadInv
  <2> QED BY <2>1, <2>2
<1>15. FetchInv'
  <2> SUFFICES ASSUME IsLoad(ireq)
               PROVE  /\ data'[ireq.adr] \in could'
                      /\ Done(i)' => i'.dat \in could'
    BY <1>4 DEF FetchInv, IsLoad
  <2>1. could \subseteq could' /\ data'[ireq.adr] \in could'
    BY <1>6 DEF IsLoad
  <2>2. CASE Performs(i, ireq)
    <3>1. i'.dat = data[ireq.adr]
      BY <2>2, <1>3, <1>4, <1>7, CallPort, HandlersAssumption DEF IsLoad, handle_read
    <3> QED BY <3>1, <2>1 DEF FetchInv
  <2>3. CASE ~Performs(i, ireq)
    BY <2>1, <2>3, <1>3, <1>4, <1>7, <1>10, CallPort DEF FetchInv
  <2> QED BY <2>1, <2>2, <2>3
<1> QED BY <1>8, <1>9, <1>10, <1>12, <1>13, <1>14, <1>15

(* The clock edge preserves the invariant: a master that keeps its request *)
(* until the acknowledge keeps the flag finish about its own request.      *)
LEMMA EdgeMemory ==
  ASSUME MemoryInv, NEW dnew \in DataShown, NEW inew \in FetchShown,
         CoreEdge(dnew, inew)
  PROVE  MemoryInv'
<1> USE DEF MemoryInv
<1>1. /\ phase = "core" /\ phase' = "memory" /\ UNCHANGED <<data, d, i>>
      /\ dreq' = dnew /\ ireq' = inew
      /\ dreq # None /\ ~d.ack => dnew = dreq
      /\ ireq # None /\ ~i.ack => inew = ireq
  BY DEF CoreEdge, MasterNext
<1>2. /\ dreq = None \/ dreq \in Request
      /\ inew = None \/ inew \in Request
      /\ d \in Port /\ i \in Port /\ data \in [Ram -> Word] /\ stored \in [Ram -> Word]
  BY ShownType DEF MemoryTypeOK
<1>3. count' = IF d.ack THEN 0 ELSE count
  BY DEF CoreEdge
<1>4. stored' = IF d.ack /\ dreq.we /\ dreq.adr \in Ram
                THEN [stored EXCEPT ![dreq.adr] = Merged(dreq, @)] ELSE stored
  BY DEF CoreEdge
<1>5. could' = IF ireq # None /\ ~i.ack THEN could
               ELSE IF inew # None /\ inew.adr \in Ram THEN {data[inew.adr]} ELSE {}
  BY DEF CoreEdge
<1>6. d.ack => dreq # None /\ ~d.finish /\ count = 1
  BY <1>1 DEF PortOK, CountInv, Done
<1>7. MemoryTypeOK'
  <2>1. stored' \in [Ram -> Word]
    BY <1>2, <1>4, <1>6, StoreMerges
  <2>2. could' \subseteq Word
    BY <1>2, <1>5 DEF MemoryTypeOK
  <2>3. count' \in 0 .. 2
    BY <1>3 DEF MemoryTypeOK
  <2> QED BY <1>1, <2>1, <2>2, <2>3 DEF MemoryTypeOK
<1>8. PortOK(d, dreq)' /\ PortOK(i, ireq)'
  BY <1>1 DEF PortOK
<1>9. CountInv'
  BY <1>1, <1>3, <1>6 DEF CountInv, Done
<1>10. RamInv'
  <2>1. CASE d.ack
    BY <2>1, <1>1, <1>3, <1>4, <1>6 DEF RamInv, IsStore
  <2>2. CASE ~d.ack
    <3>1. count = 1 => dnew = dreq
      BY <2>2, <1>1 DEF CountInv, Done, PortOK
    <3> QED BY <3>1, <2>2, <1>1, <1>3, <1>4 DEF RamInv, IsStore, Merged
  <2> QED BY <2>1, <2>2
<1>11. LoadInv'
  <2>1. CASE d.ack
    BY <2>1, <1>3 DEF LoadInv
  <2>2. CASE ~d.ack
    <3>1. count = 1 => dnew = dreq
      BY <2>2, <1>1 DEF CountInv, Done, PortOK
    <3> QED BY <3>1, <2>2, <1>1, <1>3, <1>4 DEF LoadInv, IsLoad
  <2> QED BY <2>1, <2>2
<1>12. FetchInv'
  <2>1. CASE ireq # None /\ ~i.ack
    BY <2>1, <1>1, <1>5 DEF FetchInv, IsLoad, Done
  <2>2. CASE ~(ireq # None /\ ~i.ack)
    <3>1. ~Done(i)'
      BY <2>2, <1>1 DEF PortOK, Done
    <3> QED BY <3>1, <2>2, <1>1, <1>5 DEF FetchInv, IsLoad
  <2> QED BY <2>1, <2>2
<1> QED BY <1>7, <1>8, <1>9, <1>10, <1>11, <1>12

(* Every reachable state of the memory and its two masters satisfies the   *)
(* inductive invariant.                                                    *)
THEOREM MemoryInvariant == MemorySpec => []MemoryInv
<1>1. MemoryInv /\ [MemoryNext]_memoryVars => MemoryInv'
  <2> SUFFICES ASSUME MemoryInv, [MemoryNext]_memoryVars PROVE MemoryInv'
    OBVIOUS
  <2>1. CASE Serve
    BY <2>1, ServeMemory
  <2>2. CASE \E dnew \in DataShown, inew \in FetchShown : CoreEdge(dnew, inew)
    BY <2>2, EdgeMemory
  <2>3. CASE UNCHANGED memoryVars
    BY <2>3 DEF memoryVars, MemoryInv, MemoryTypeOK, PortOK, Done, CountInv, RamInv,
       LoadInv, FetchInv, IsStore, IsLoad, Merged
  <2> QED BY <2>1, <2>2, <2>3 DEF MemoryNext
<1> QED BY InitMemory, <1>1, PTL DEF MemorySpec

(* Whatever the latencies, an acknowledge of D_Request answers a request   *)
(* that is on the bus and was performed exactly once.                      *)
THEOREM TransfersAckedOnce == MemorySpec => []AckedOnce
<1>1. MemoryInv => AckedOnce
  BY DEF MemoryInv, PortOK, CountInv, Done, AckedOnce
<1> QED BY MemoryInvariant, <1>1, PTL

(* Whatever the RAM, the byte lanes and the latencies, a load returns what *)
(* the acknowledged stores of the core left in its word.                   *)
THEOREM LoadsReturnStores == MemorySpec => []LoadsSeeStores
<1>1. MemoryInv => LoadsSeeStores
  BY DEF MemoryInv, PortOK, CountInv, Done, LoadInv, IsLoad, LoadsSeeStores
<1> QED BY MemoryInvariant, <1>1, PTL

(* A fetch returns a word its address held while it was on the bus.        *)
THEOREM FetchesReturnFresh == MemorySpec => []FetchesFresh
<1>1. MemoryInv => FetchesFresh
  <2> SUFFICES ASSUME MemoryInv, phase = "core", i.ack, ireq # None, ireq.adr \in Ram
               PROVE  i.dat \in could
    BY DEF MemoryInv, PortOK, FetchesFresh
  <2>1. ~ireq.we
    BY DEF MemoryInv, MemoryTypeOK, FetchShown, Load
  <2> QED BY <2>1 DEF MemoryInv, FetchInv, IsLoad, Done
<1> QED BY MemoryInvariant, <1>1, PTL

-----------------------------------------------------------------------------
(* The memory behind the L1D cache.                                        *)

\* A set of numbers that is not empty has a least member.
LEMMA LeastNumber ==
  ASSUME NEW S \in SUBSET Nat, S # {}
  PROVE  \E x \in S : \A y \in S : x <= y
<1> DEFINE less == {ss \in Nat \X Nat : ss[1] < ss[2]}
<1>1. IsWellFoundedOn(less, Nat)
  BY NatLessThanWellFounded DEF OpToRel
<1>2. \E x \in S : \A y \in S : ~(<<y, x>> \in less)
  <2> HIDE DEF less
  <2> QED
    BY <1>1, WFMin
<1>3. PICK x \in S : \A y \in S : ~(<<y, x>> \in less)
  BY <1>2
<1>4. ASSUME NEW y \in S PROVE x <= y
  <2>1. y < x => <<y, x>> \in less
    OBVIOUS
  <2> QED
    BY <1>3, <2>1
<1> QED
  BY <1>4

\* What is assumed of the parameters.
LEMMA AxiSizes ==
  /\ AxiBurst \in Nat /\ AxiBurst >= 1 /\ AxiRequests \in Nat /\ AxiDelays \subseteq Nat
  /\ None \notin Axi!Beats /\ None \notin Axi!Answers
BY PartsAssumption DEF Axi!AxiAssumption

\* Requests in the wait queue.
AxiReqs ==
  {e \in [ar : BOOLEAN, id : AxiIds \union {0}, line : Axi!Lines, w : Seq(Axi!Beats), delay : Nat] :
     Len(e.w) <= AxiBurst /\ (~e.ar => e.line \in AxiDataLines)}

\* A request needs no more beats.
HasBeats(e) == e.ar \/ Len(e.w) = AxiBurst

\* The write that a beat goes to is the first that is not complete.
LEMMA WTargetIs ==
  ASSUME NEW q \in Seq(AxiReqs)
  PROVE  \/ Axi!WTarget(q) = 0 /\ \A k \in 1..Len(q) : HasBeats(q[k])
         \/ /\ Axi!WTarget(q) \in 1..Len(q) /\ ~HasBeats(q[Axi!WTarget(q)])
            /\ \A k \in 1..(Axi!WTarget(q) - 1) : HasBeats(q[k])
<1> DEFINE I == {ix \in 1..Len(q) : ~q[ix].ar /\ Len(q[ix].w) < AxiBurst}
<1>1. Axi!WTarget(q) = IF I # {} THEN Axi!Min(I) ELSE 0
  BY DEF Axi!WTarget, Axi!SelectInSeq
<1>2. \A ix \in 1..Len(q) : ix \in I <=> ~HasBeats(q[ix])
  BY AxiSizes DEF AxiReqs, HasBeats
<1>3. CASE I = {}
  BY <1>1, <1>2, <1>3
<1>4. CASE I # {}
  <2>0. I \in SUBSET Nat
    OBVIOUS
  <2>1. PICK x \in I : \A y \in I : x <= y
    <3> HIDE DEF I
    <3> QED
      BY <1>4, <2>0, LeastNumber
  <2>2. Axi!Min(I) \in I /\ \A y \in I : Axi!Min(I) <= y
    BY <2>1 DEF Axi!Min
  <2>3. Axi!Min(I) \in 1..Len(q)
    BY <2>2
  <2> HIDE DEF I
  <2> QED
    BY <1>1, <1>2, <1>4, <2>2, <2>3
<1> QED
  BY <1>3, <1>4

\* The requests that move are complete.
LEMMA MovingIs ==
  ASSUME NEW q \in Seq(AxiReqs)
  PROVE  /\ Axi!Moving(q) \in 0..Len(q)
         /\ \A k \in 1..Axi!Moving(q) : HasBeats(q[k])
<1> DEFINE I == {ix \in 1..Len(q) : ~Axi!Complete(q[ix])}
<1>1. Axi!Moving(q) = IF I # {} THEN (IF Axi!Min(I) = 0 THEN Len(q) ELSE Axi!Min(I) - 1) ELSE Len(q)
  BY DEF Axi!Moving, Axi!SelectInSeq
<1>2. \A ix \in 1..Len(q) : ix \notin I => HasBeats(q[ix])
  BY DEF Axi!Complete, HasBeats
<1>3. CASE I = {}
  BY <1>1, <1>2, <1>3
<1>4. CASE I # {}
  <2>0. I \in SUBSET Nat
    OBVIOUS
  <2>1. PICK x \in I : \A y \in I : x <= y
    <3> HIDE DEF I
    <3> QED
      BY <1>4, <2>0, LeastNumber
  <2>2. Axi!Min(I) \in I /\ \A y \in I : Axi!Min(I) <= y
    BY <2>1 DEF Axi!Min
  <2>3. Axi!Min(I) \in 1..Len(q)
    BY <2>2
  <2> HIDE DEF I
  <2> QED
    BY <1>1, <1>2, <1>4, <2>2, <2>3
<1> QED
  BY <1>3, <1>4

-----------------------------------------------------------------------------
(* Sequences that only grow.                                               *)

\* Extending a sequence that is not empty keeps its first element.
LEMMA HeadOfConcat ==
  ASSUME NEW X, NEW s \in Seq(X), NEW r \in Seq(X), s # << >>
  PROVE  /\ s \o r # << >> /\ Head(s \o r) = Head(s)
         /\ Tail(s \o r) = Tail(s) \o r
<1>1. s \o r \in Seq(X) /\ Len(s \o r) = Len(s) + Len(r) /\ Len(s) \in Nat \ {0} /\ Len(r) \in Nat
  BY ConcatProperties, EmptySeq
<1>2. \A ix \in 1..(Len(s) + Len(r)) : (s \o r)[ix] = IF ix <= Len(s) THEN s[ix] ELSE r[ix - Len(s)]
  BY ConcatProperties
<1>3. s \o r # << >>
  BY <1>1
<1>4. Tail(s) \in Seq(X) /\ Len(Tail(s)) = Len(s) - 1 /\ \A ix \in 1..(Len(s) - 1) : Tail(s)[ix] = s[ix + 1]
  BY HeadTailProperties, <1>1
<1>5. /\ Tail(s \o r) \in Seq(X) /\ Len(Tail(s \o r)) = Len(s) + Len(r) - 1
      /\ \A ix \in 1..(Len(s) + Len(r) - 1) : Tail(s \o r)[ix] = (s \o r)[ix + 1]
  BY HeadTailProperties, <1>1, <1>3
<1>6. /\ Tail(s) \o r \in Seq(X) /\ Len(Tail(s) \o r) = Len(s) - 1 + Len(r)
      /\ \A ix \in 1..(Len(s) - 1 + Len(r)) :
           (Tail(s) \o r)[ix] = IF ix <= Len(s) - 1 THEN Tail(s)[ix] ELSE r[ix - (Len(s) - 1)]
  BY <1>4, ConcatProperties
<1>7. ASSUME NEW ix \in 1..Len(Tail(s \o r)) PROVE Tail(s \o r)[ix] = (Tail(s) \o r)[ix]
  BY <1>1, <1>2, <1>4, <1>5, <1>6
<1>8. Tail(s \o r) = Tail(s) \o r
  BY <1>1, <1>5, <1>6, <1>7, SeqEqual
<1>9. Head(s \o r) = Head(s)
  BY <1>1, <1>2, <1>3
<1> QED
  BY <1>3, <1>8, <1>9

\* A chain of sequences, each an extension of the one before.
Growing(f, L, X) ==
  /\ f \in [0..L -> Seq(X)]
  /\ \A j \in 1..L : \E r \in Seq(X) : f[j] = f[j - 1] \o r

\* Once one of them is not empty, the later ones have its first element.
LEMMA GrowingHead ==
  ASSUME NEW L \in Nat, NEW X, NEW f, Growing(f, L, X),
         NEW k \in 0..L, f[k] # << >>, NEW n \in k..L
  PROVE  f[n] # << >> /\ Head(f[n]) = Head(f[k])
<1> DEFINE S == {j \in k..L : ~(f[j] # << >> /\ Head(f[j]) = Head(f[k]))}
<1> SUFFICES ASSUME S # {} PROVE FALSE
  OBVIOUS
<1>0. S \in SUBSET Nat
  OBVIOUS
<1>1. PICK j \in S : \A y \in S : j <= y
  <2> HIDE DEF S
  <2> QED
    BY <1>0, LeastNumber
<1>2. j # k /\ j \in 1..L /\ j - 1 \in k..L /\ j - 1 \in 0..L /\ j - 1 \notin S
  BY <1>1
<1>3. f[j - 1] # << >> /\ Head(f[j - 1]) = Head(f[k])
  BY <1>2
<1>4. PICK r \in Seq(X) : f[j] = f[j - 1] \o r
  BY <1>2 DEF Growing
<1>5. f[j - 1] \in Seq(X)
  BY <1>2 DEF Growing
<1>6. f[j] # << >> /\ Head(f[j]) = Head(f[k])
  BY <1>3, <1>4, <1>5, HeadOfConcat
<1> QED
  BY <1>1, <1>6

-----------------------------------------------------------------------------
(* Handling the requests of the wait queue in turn.                        *)

AxiMemory == [Axi!Lines -> [Axi!Burst -> Axi!Beats]]

\* The memory, the answers and the beats still to come, before or after a request.
AxiStages == [m : AxiMemory, out : Seq(Axi!Answers), todo : Seq(Axi!Beats)]

\* v is the line that write e will have brought.
Begins(v, e) == \A ix \in 1..Len(e.w) : e.w[ix] = v[ix]
Rest(v, e) == SubSeq(v, Len(e.w) + 1, AxiBurst)

\* Request e, once its beats have come, leads from stage s to stage t.
Handles(e, s, t) ==
  /\ t.out = s.out \o Axi!AnswerTo(e, s.m)
  /\ IF e.ar THEN t.m = s.m /\ t.todo = s.todo
     ELSE \E v \in [Axi!Burst -> Axi!Beats] :
            /\ Begins(v, e) /\ t.m = [s.m EXCEPT ![e.line] = v]
            /\ t.todo = s.todo \o Rest(v, e)

\* The stages S of the requests in q.
AxiChain(q, S) ==
  /\ S \in [0..Len(q) -> AxiStages]
  /\ \A k \in 1..Len(q) : Handles(q[k], S[k - 1], S[k])

\* The answers to a request are answers.
LEMMA AnswersType ==
  ASSUME NEW e \in AxiReqs, NEW m \in AxiMemory
  PROVE  Axi!AnswerTo(e, m) \in Seq(Axi!Answers)
<1>1. AxiBurst \in Nat
  BY AxiSizes
<1>2. CASE ~e.ar
  <2>1. Axi!BResp \in Axi!Answers
    BY DEF Axi!BResp, Axi!Answers
  <2> QED
    BY <1>2, <2>1 DEF Axi!AnswerTo
<1>3. CASE e.ar
  <2>1. ASSUME NEW ix \in 1..AxiBurst PROVE Axi!RResp(e.id, m[e.line][ix], ix) \in Axi!Answers
    <3>1. m[e.line][ix] \in Axi!Beats
      BY DEF AxiMemory, AxiReqs, Axi!Burst
    <3>2. e.id \in AxiIds \union {0}
      BY DEF AxiReqs
    <3> QED
      BY <3>1, <3>2 DEF Axi!RResp, Axi!Answers
  <2>2. [ix \in 1..AxiBurst |-> Axi!RResp(e.id, m[e.line][ix], ix)] \in Seq(Axi!Answers)
    BY <1>1, <2>1
  <2> QED
    BY <1>3, <2>2 DEF Axi!AnswerTo, Axi!Burst
<1> QED
  BY <1>2, <1>3

\* The beats still to come of a write.
LEMMA RestType ==
  ASSUME NEW e \in AxiReqs, NEW v \in [Axi!Burst -> Axi!Beats]
  PROVE  /\ v \in Seq(Axi!Beats) /\ Len(v) = AxiBurst /\ Len(e.w) \in 0..AxiBurst
         /\ Rest(v, e) \in Seq(Axi!Beats) /\ Len(Rest(v, e)) = AxiBurst - Len(e.w)
         /\ \A ix \in 1..(AxiBurst - Len(e.w)) : Rest(v, e)[ix] = v[Len(e.w) + ix]
<1>1. AxiBurst \in Nat
  BY AxiSizes
<1>2. v \in Seq(Axi!Beats) /\ Len(v) = AxiBurst
  BY <1>1 DEF Axi!Burst
<1>3. Len(e.w) \in 0..AxiBurst
  BY <1>1 DEF AxiReqs
<1>4. \A ix \in (Len(e.w) + 1)..AxiBurst : v[ix] \in Axi!Beats
  BY <1>1, <1>3 DEF Axi!Burst
<1>5. /\ Rest(v, e) \in Seq(Axi!Beats)
      /\ Len(Rest(v, e)) = IF Len(e.w) + 1 <= AxiBurst THEN AxiBurst - (Len(e.w) + 1) + 1 ELSE 0
      /\ \A ix \in 1..(AxiBurst - (Len(e.w) + 1) + 1) : Rest(v, e)[ix] = v[Len(e.w) + 1 + ix - 1]
  <2> DEFINE a == Len(e.w) + 1
  <2>1. a \in Int /\ AxiBurst \in Int /\ \A ix \in a..AxiBurst : v[ix] \in Axi!Beats
    BY <1>1, <1>3, <1>4
  <2> HIDE DEF a
  <2>2. /\ SubSeq(v, a, AxiBurst) \in Seq(Axi!Beats)
        /\ Len(SubSeq(v, a, AxiBurst)) = IF a <= AxiBurst THEN AxiBurst - a + 1 ELSE 0
        /\ \A ix \in 1..(AxiBurst - a + 1) : SubSeq(v, a, AxiBurst)[ix] = v[a + ix - 1]
    BY <2>1, SubSeqProperties
  <2> QED
    BY <2>2 DEF Rest, a
<1>6. ASSUME NEW ix \in 1..(AxiBurst - Len(e.w)) PROVE Rest(v, e)[ix] = v[Len(e.w) + ix]
  <2>1. Len(e.w) + 1 + ix - 1 = Len(e.w) + ix /\ ix \in 1..(AxiBurst - (Len(e.w) + 1) + 1)
    BY <1>1, <1>3
  <2> QED
    BY <1>5, <2>1
<1>7. Len(Rest(v, e)) = AxiBurst - Len(e.w)
  <2>1. Len(Rest(v, e)) = IF Len(e.w) + 1 <= AxiBurst THEN AxiBurst - (Len(e.w) + 1) + 1 ELSE 0
    BY <1>5
  <2>2. CASE Len(e.w) + 1 <= AxiBurst
    BY <1>1, <1>3, <2>1, <2>2
  <2>3. CASE ~(Len(e.w) + 1 <= AxiBurst)
    BY <1>1, <1>3, <2>1, <2>3
  <2> QED
    BY <2>2, <2>3
<1> QED
  BY <1>2, <1>3, <1>5, <1>6, <1>7

\* Answers and beats only grow along a chain.
LEMMA ChainGrows ==
  ASSUME NEW q \in Seq(AxiReqs), NEW S, AxiChain(q, S)
  PROVE  /\ Growing([k \in 0..Len(q) |-> S[k].out], Len(q), Axi!Answers)
         /\ Growing([k \in 0..Len(q) |-> S[k].todo], Len(q), Axi!Beats)
<1>1. Len(q) \in Nat /\ \A k \in 1..Len(q) : q[k] \in AxiReqs
  OBVIOUS
<1>2. \A k \in 0..Len(q) : S[k] \in AxiStages
  BY DEF AxiChain
<1>3. \A k \in 0..Len(q) : /\ S[k].out \in Seq(Axi!Answers) /\ S[k].todo \in Seq(Axi!Beats)
                           /\ S[k].m \in AxiMemory
  BY <1>2 DEF AxiStages
<1>4. ASSUME NEW j \in 1..Len(q)
      PROVE  /\ \E r \in Seq(Axi!Answers) : S[j].out = S[j - 1].out \o r
             /\ \E r \in Seq(Axi!Beats) : S[j].todo = S[j - 1].todo \o r
  <2>1. j - 1 \in 0..Len(q) /\ j \in 0..Len(q) /\ q[j] \in AxiReqs
    BY <1>1
  <2>2. Handles(q[j], S[j - 1], S[j])
    BY DEF AxiChain
  <2>3. Axi!AnswerTo(q[j], S[j - 1].m) \in Seq(Axi!Answers)
    BY <1>3, <2>1, AnswersType
  <2>4. CASE q[j].ar
    <3>1. S[j].todo = S[j - 1].todo \o << >>
      BY <1>3, <2>1, <2>2, <2>4, ConcatEmptySeq DEF Handles
    <3> QED
      BY <2>2, <2>3, <3>1, EmptySeq DEF Handles
  <2>5. CASE ~q[j].ar
    <3>1. PICK v \in [Axi!Burst -> Axi!Beats] : S[j].todo = S[j - 1].todo \o Rest(v, q[j])
      BY <2>2, <2>5 DEF Handles
    <3>2. Rest(v, q[j]) \in Seq(Axi!Beats)
      BY <2>1, RestType
    <3> QED
      BY <2>2, <2>3, <3>1, <3>2 DEF Handles
  <2> QED
    BY <2>4, <2>5
<1>5. /\ [k \in 0..Len(q) |-> S[k].out] \in [0..Len(q) -> Seq(Axi!Answers)]
      /\ [k \in 0..Len(q) |-> S[k].todo] \in [0..Len(q) -> Seq(Axi!Beats)]
  BY <1>3
<1>6. ASSUME NEW j \in 1..Len(q) PROVE j \in 0..Len(q) /\ j - 1 \in 0..Len(q)
  BY <1>1
<1> QED
  BY <1>4, <1>5, <1>6 DEF Growing

\* While the requests have their beats, none is still to come.
LEMMA NoneToCome ==
  ASSUME NEW q \in Seq(AxiReqs), NEW S, AxiChain(q, S), S[0].todo = << >>,
         NEW n \in 0..Len(q), \A k \in 1..n : HasBeats(q[k])
  PROVE  S[n].todo = << >>
<1> DEFINE C == {j \in 0..n : S[j].todo # << >>}
<1> SUFFICES ASSUME C # {} PROVE FALSE
  OBVIOUS
<1>0. C \in SUBSET Nat
  OBVIOUS
<1>1. PICK j \in C : \A y \in C : j <= y
  <2> HIDE DEF C
  <2> QED
    BY <1>0, LeastNumber
<1>2. /\ j # 0 /\ j \in 1..Len(q) /\ j - 1 \in 0..Len(q) /\ j - 1 \notin C
      /\ j \in 1..n /\ j - 1 \in 0..n /\ q[j] \in AxiReqs
  BY <1>1
<1>3. S[j - 1].todo = << >>
  BY <1>2
<1>4. Handles(q[j], S[j - 1], S[j]) /\ HasBeats(q[j])
  BY <1>2 DEF AxiChain
<1>5. CASE q[j].ar
  BY <1>1, <1>3, <1>4, <1>5 DEF Handles
<1>6. CASE ~q[j].ar
  <2>1. PICK v \in [Axi!Burst -> Axi!Beats] : S[j].todo = S[j - 1].todo \o Rest(v, q[j])
    BY <1>4, <1>6 DEF Handles
  <2>2. Rest(v, q[j]) \in Seq(Axi!Beats) /\ Len(Rest(v, q[j])) = 0
    BY <1>2, <1>4, <1>6, RestType, AxiSizes DEF HasBeats
  <2>3. S[j].todo = << >>
    BY <1>3, <2>1, <2>2, EmptySeq, ConcatEmptySeq
  <2> QED
    BY <1>1, <2>3
<1> QED
  BY <1>5, <1>6

\* Chain T differs from chain S by the beat that has come: from request k on, to
\* which it went, it is no longer still to come.
LessABeat(s) == [m |-> s.m, out |-> s.out, todo |-> Tail(s.todo)]

\* A beat may be sent because a write waits for it, and it belongs to the first
\* such write: with it the queue has the same stages, less the beat.
LEMMA BeatFits ==
  ASSUME NEW q \in Seq(AxiReqs), NEW S, AxiChain(q, S), S[0].todo = << >>,
         S[Len(q)].todo # << >>
  PROVE  LET b == Head(S[Len(q)].todo)
             p == Axi!TakeBeat(q, b)
         IN /\ Axi!WTarget(q) # 0 /\ b # None
            /\ p \in Seq(AxiReqs) /\ Len(p) = Len(q)
            /\ \E T : /\ AxiChain(p, T) /\ T[0] = S[0]
                      /\ T[Len(q)] = LessABeat(S[Len(q)])
<1> DEFINE L == Len(q)
           b == Head(S[L].todo)
           p == Axi!TakeBeat(q, b)
           k == Axi!WTarget(q)
           T == [j \in 0..L |-> IF j < k THEN S[j] ELSE LessABeat(S[j])]
<1>1. L \in Nat /\ L \in 0..L /\ AxiBurst \in Nat
  BY AxiSizes
<1>2. \A j \in 0..L : S[j] \in AxiStages
  BY DEF AxiChain
<1>3. \A j \in 0..L : S[j].out \in Seq(Axi!Answers) /\ S[j].todo \in Seq(Axi!Beats) /\ S[j].m \in AxiMemory
  BY <1>2 DEF AxiStages
<1>4. k # 0
  <2>1. (\A j \in 1..L : HasBeats(q[j])) => S[L].todo = << >>
    BY <1>1, NoneToCome
  <2> QED
    BY <2>1, WTargetIs
<1>5. k \in 1..L /\ ~HasBeats(q[k]) /\ \A j \in 1..(k - 1) : HasBeats(q[j])
  BY <1>4, WTargetIs
<1>6. b \in Axi!Beats /\ b # None
  BY <1>1, <1>3, HeadTailProperties, AxiSizes
<1>7. q[k] \in AxiReqs /\ k \in 0..L /\ k - 1 \in 0..L
  BY <1>5, <1>1
<1>8. ~q[k].ar /\ Len(q[k].w) \in 0..(AxiBurst - 1)
  BY <1>1, <1>5, <1>7 DEF HasBeats, AxiReqs
<1>9. S[k - 1].todo = << >>
  BY <1>5, <1>7, NoneToCome
<1>10. Handles(q[k], S[k - 1], S[k])
  BY <1>5 DEF AxiChain
<1>11. PICK v \in [Axi!Burst -> Axi!Beats] :
         /\ Begins(v, q[k]) /\ S[k].m = [S[k - 1].m EXCEPT ![q[k].line] = v]
         /\ S[k].todo = S[k - 1].todo \o Rest(v, q[k])
  BY <1>8, <1>10 DEF Handles
<1> DEFINE n == Len(q[k].w)
<1>12. /\ Rest(v, q[k]) \in Seq(Axi!Beats) /\ Len(Rest(v, q[k])) = AxiBurst - n
       /\ \A ix \in 1..(AxiBurst - n) : Rest(v, q[k])[ix] = v[n + ix]
       /\ v \in Seq(Axi!Beats) /\ Len(v) = AxiBurst
  BY <1>7, RestType
<1>13. S[k].todo = Rest(v, q[k])
  BY <1>9, <1>11, <1>12, ConcatEmptySeq
<1>14. S[k].todo # << >> /\ Head(S[k].todo) = v[n + 1]
  <2>1. n \in Nat /\ 1 \in 1..(AxiBurst - n) /\ AxiBurst - n # 0
    BY <1>1, <1>8
  <2>2. Rest(v, q[k]) # << >> /\ Rest(v, q[k])[1] = v[n + 1]
    BY <1>12, <2>1
  <2>3. Head(Rest(v, q[k])) = Rest(v, q[k])[1]
    BY <1>12, <2>2
  <2> QED
    BY <1>13, <2>2, <2>3
<1>15. \A j \in k..L : S[j].todo # << >> /\ Head(S[j].todo) = Head(S[k].todo)
  <2> DEFINE f == [j \in 0..L |-> S[j].todo]
  <2>1. Growing(f, L, Axi!Beats)
    BY ChainGrows
  <2>2. f[k] = S[k].todo /\ \A j \in k..L : f[j] = S[j].todo
    BY <1>1, <1>5
  <2> HIDE DEF f
  <2>3. ASSUME NEW j \in k..L PROVE f[j] # << >> /\ Head(f[j]) = Head(f[k])
    BY <1>1, <1>7, <1>14, <2>1, <2>2, GrowingHead
  <2> QED
    BY <2>2, <2>3
<1>16. b = v[n + 1]
  BY <1>1, <1>5, <1>14, <1>15
<1> DEFINE e == [q[k] EXCEPT !.w = Append(@, b)]
<1>17. /\ e \in AxiReqs /\ ~e.ar /\ e.line = q[k].line
       /\ e.w = Append(q[k].w, b) /\ Len(e.w) = n + 1 /\ e.id = q[k].id
  <2>1. q[k].w \in Seq(Axi!Beats)
    BY <1>7 DEF AxiReqs
  <2>2. Append(q[k].w, b) \in Seq(Axi!Beats) /\ Len(Append(q[k].w, b)) = n + 1
    BY <2>1, <1>6, AppendProperties
  <2>3. q[k] \in [ar : BOOLEAN, id : AxiIds \union {0}, line : Axi!Lines, w : Seq(Axi!Beats), delay : Nat]
        /\ q[k].line \in AxiDataLines
    BY <1>7, <1>8 DEF AxiReqs
  <2>4. /\ e \in [ar : BOOLEAN, id : AxiIds \union {0}, line : Axi!Lines, w : Seq(Axi!Beats), delay : Nat]
        /\ e.w = Append(q[k].w, b) /\ e.ar = q[k].ar /\ e.line = q[k].line /\ e.id = q[k].id
    BY <2>2, <2>3
  <2>5. n + 1 <= AxiBurst
    BY <1>1, <1>8
  <2> HIDE DEF e
  <2> QED
    BY <1>8, <2>2, <2>3, <2>4, <2>5 DEF AxiReqs
<1>18. p = [q EXCEPT ![k] = e]
  BY <1>4, <1>6 DEF Axi!TakeBeat
<1>19. /\ p \in Seq(AxiReqs) /\ Len(p) = L
       /\ \A j \in 1..L : p[j] = IF j = k THEN e ELSE q[j]
  <2> HIDE DEF e, k, p
  <2> QED
    BY <1>5, <1>17, <1>18, ExceptSeq
<1>20. T \in [0..L -> AxiStages]
  <2>1. ASSUME NEW j \in 0..L, ~(j < k) PROVE LessABeat(S[j]) \in AxiStages
    <3>1. j \in k..L
      BY <1>5, <2>1
    <3>2. Tail(S[j].todo) \in Seq(Axi!Beats)
      BY <1>3, <1>15, <3>1, HeadTailProperties
    <3> QED
      BY <1>3, <3>2 DEF LessABeat, AxiStages
  <2> QED
    BY <1>2, <2>1
<1>21. ASSUME NEW j \in 1..L PROVE Handles(p[j], T[j - 1], T[j])
  <2>1. Handles(q[j], S[j - 1], S[j]) /\ j - 1 \in 0..L /\ j \in 0..L /\ q[j] \in AxiReqs
    BY <1>1 DEF AxiChain
  <2>2. CASE j < k
    <3>1. T[j - 1] = S[j - 1] /\ T[j] = S[j] /\ p[j] = q[j]
      BY <1>5, <1>19, <2>1, <2>2
    <3> QED
      BY <2>1, <3>1
  <2>3. CASE j = k
    <3>1. T[j - 1] = S[k - 1] /\ T[j] = LessABeat(S[k]) /\ p[j] = e
      <4>1. k - 1 < k /\ ~(k < k)
        BY <1>5
      <4> HIDE DEF e, k, p
      <4> QED
        BY <1>7, <1>19, <2>1, <2>3, <4>1
    <3>2. Axi!AnswerTo(e, S[k - 1].m) = Axi!AnswerTo(q[k], S[k - 1].m)
      BY <1>8, <1>17 DEF Axi!AnswerTo
    <3>3. Begins(v, e)
      <4>1. q[k].w \in Seq(Axi!Beats)
        BY <1>7 DEF AxiReqs
      <4>2. \A ix \in 1..(n + 1) : e.w[ix] = IF ix <= n THEN q[k].w[ix] ELSE b
        <5>1. \A ix \in 1..Len(q[k].w) : Append(q[k].w, b)[ix] = q[k].w[ix]
          BY <1>6, <4>1, AppendProperties
        <5>2. Append(q[k].w, b)[Len(q[k].w) + 1] = b
          BY <1>6, <4>1, AppendProperties
        <5> HIDE DEF e, b, k
        <5> QED
          BY <1>8, <1>17, <5>1, <5>2
      <4>3. \A ix \in 1..n : q[k].w[ix] = v[ix]
        BY <1>11 DEF Begins
      <4>4. ASSUME NEW ix \in 1..(n + 1) PROVE e.w[ix] = v[ix]
        BY <1>8, <1>16, <4>2, <4>3
      <4> QED
        BY <1>17, <4>4 DEF Begins
    <3>4. Tail(S[k].todo) = Rest(v, e)
      <4>1. n + 1 \in 1..Len(v) /\ AxiBurst \in (n + 1)..Len(v)
        BY <1>1, <1>8, <1>12
      <4>2. Tail(SubSeq(v, n + 1, AxiBurst)) = SubSeq(v, n + 1 + 1, AxiBurst)
        BY <1>12, <4>1, HeadTailOfSubSeq
      <4> QED
        BY <1>13, <1>17, <4>2 DEF Rest
    <3>5. Rest(v, e) \in Seq(Axi!Beats)
      BY <1>17, RestType
    <3>6. LessABeat(S[k]).todo = S[k - 1].todo \o Rest(v, e)
      BY <1>9, <3>4, <3>5, ConcatEmptySeq DEF LessABeat
    <3>7. LessABeat(S[k]).m = S[k].m /\ LessABeat(S[k]).out = S[k].out
      BY DEF LessABeat
    <3>8. S[k].out = S[k - 1].out \o Axi!AnswerTo(q[k], S[k - 1].m)
      BY <1>10 DEF Handles
    <3>9. Handles(e, S[k - 1], LessABeat(S[k]))
      <4> HIDE DEF e
      <4> QED
        BY <1>11, <1>17, <3>2, <3>3, <3>6, <3>7, <3>8 DEF Handles
    <3> QED
      BY <3>1, <3>9
  <2>4. CASE j > k
    <3>1. T[j - 1] = LessABeat(S[j - 1]) /\ T[j] = LessABeat(S[j]) /\ p[j] = q[j]
      BY <1>5, <1>19, <2>1, <2>4
    <3>2. j - 1 \in k..L /\ S[j - 1].todo # << >> /\ S[j - 1].todo \in Seq(Axi!Beats)
      BY <1>3, <1>5, <1>15, <2>1, <2>4
    <3>3. /\ LessABeat(S[j]).m = S[j].m /\ LessABeat(S[j]).out = S[j].out
          /\ LessABeat(S[j]).todo = Tail(S[j].todo)
          /\ LessABeat(S[j - 1]).m = S[j - 1].m /\ LessABeat(S[j - 1]).out = S[j - 1].out
          /\ LessABeat(S[j - 1]).todo = Tail(S[j - 1].todo)
      BY DEF LessABeat
    <3>4. ASSUME NEW u \in [Axi!Burst -> Axi!Beats], S[j].todo = S[j - 1].todo \o Rest(u, q[j])
          PROVE  Tail(S[j].todo) = Tail(S[j - 1].todo) \o Rest(u, q[j])
      <4>1. Rest(u, q[j]) \in Seq(Axi!Beats)
        BY <2>1, RestType
      <4>2. Tail(S[j - 1].todo \o Rest(u, q[j])) = Tail(S[j - 1].todo) \o Rest(u, q[j])
        BY <3>2, <4>1, HeadOfConcat
      <4> QED
        BY <3>4, <4>2
    <3>5. Handles(q[j], LessABeat(S[j - 1]), LessABeat(S[j]))
      BY <2>1, <3>3, <3>4 DEF Handles
    <3> QED
      BY <3>1, <3>5
  <2> QED
    BY <1>5, <2>2, <2>3, <2>4
<1>22. AxiChain(p, T)
  BY <1>19, <1>20, <1>21 DEF AxiChain
<1>23. T[0] = S[0] /\ T[L] = LessABeat(S[L])
  BY <1>1, <1>5
<1> HIDE DEF T, p, b, k
<1> QED
  BY <1>4, <1>6, <1>19, <1>22, <1>23 DEF p, b, k

\* The delays do not matter to the stages.
LEMMA CountDownFits ==
  ASSUME NEW q \in Seq(AxiReqs), NEW S, AxiChain(q, S)
  PROVE  LET p == Axi!CountDown(q)
         IN p \in Seq(AxiReqs) /\ Len(p) = Len(q) /\ AxiChain(p, S)
<1> DEFINE p == Axi!CountDown(q)
<1>1. Len(q) \in Nat /\ DOMAIN q = 1..Len(q) /\ \A k \in 1..Len(q) : q[k] \in AxiReqs
  OBVIOUS
<1>2. ASSUME NEW k \in 1..Len(q)
      PROVE  /\ p[k] \in AxiReqs /\ p[k].ar = q[k].ar /\ p[k].id = q[k].id
             /\ p[k].line = q[k].line /\ p[k].w = q[k].w
  <2> DEFINE dl == IF q[k].delay > 0 THEN q[k].delay - 1 ELSE 0
  <2>1. p[k] = [q[k] EXCEPT !.delay = dl]
    BY <1>1 DEF Axi!CountDown
  <2>2. q[k] \in [ar : BOOLEAN, id : AxiIds \union {0}, line : Axi!Lines, w : Seq(Axi!Beats), delay : Nat]
        /\ Len(q[k].w) <= AxiBurst /\ (~q[k].ar => q[k].line \in AxiDataLines)
    BY <1>1 DEF AxiReqs
  <2>3. dl \in Nat
    BY <2>2
  <2> HIDE DEF dl, p
  <2>4. /\ p[k] \in [ar : BOOLEAN, id : AxiIds \union {0}, line : Axi!Lines, w : Seq(Axi!Beats), delay : Nat]
        /\ p[k].ar = q[k].ar /\ p[k].id = q[k].id /\ p[k].line = q[k].line /\ p[k].w = q[k].w
    BY <2>1, <2>2, <2>3
  <2> QED
    BY <2>2, <2>4 DEF AxiReqs
<1>3. p = [k \in 1..Len(q) |-> p[k]]
  BY <1>1 DEF Axi!CountDown
<1> HIDE DEF p
<1>4. p \in Seq(AxiReqs) /\ Len(p) = Len(q)
  <2>1. p \in [1..Len(q) -> AxiReqs]
    BY <1>2, <1>3
  <2> QED
    BY <1>1, <2>1
<1>5. ASSUME NEW k \in 1..Len(q) PROVE Handles(p[k], S[k - 1], S[k])
  <2>1. Handles(q[k], S[k - 1], S[k])
    BY DEF AxiChain
  <2>2. Axi!AnswerTo(p[k], S[k - 1].m) = Axi!AnswerTo(q[k], S[k - 1].m)
    BY <1>2 DEF Axi!AnswerTo
  <2>3. \A v : Begins(v, p[k]) = Begins(v, q[k]) /\ Rest(v, p[k]) = Rest(v, q[k])
    BY <1>2 DEF Begins, Rest
  <2> QED
    BY <1>2, <2>1, <2>2, <2>3 DEF Handles
<1> QED
  BY <1>4, <1>5 DEF AxiChain, p

\* A request that arrives adds a stage.
LEMMA ArrivalFits ==
  ASSUME NEW q \in Seq(AxiReqs), NEW S, AxiChain(q, S),
         NEW e \in AxiReqs, NEW t \in AxiStages, Handles(e, S[Len(q)], t)
  PROVE  /\ q \o <<e>> \in Seq(AxiReqs) /\ Len(q \o <<e>>) = Len(q) + 1
         /\ \E T : /\ AxiChain(q \o <<e>>, T) /\ T[0] = S[0]
                   /\ T[Len(q) + 1] = t
<1> DEFINE L == Len(q)
           p == q \o <<e>>
           T == [j \in 0..(L + 1) |-> IF j <= L THEN S[j] ELSE t]
<1>1. L \in Nat
  OBVIOUS
<1>2. <<e>> \in Seq(AxiReqs) /\ Len(<<e>>) = 1 /\ <<e>>[1] = e
  OBVIOUS
<1>3. /\ p \in Seq(AxiReqs) /\ Len(p) = L + 1
      /\ \A ix \in 1..(L + 1) : p[ix] = IF ix <= L THEN q[ix] ELSE <<e>>[ix - L]
  BY <1>2, ConcatProperties
<1>4. T \in [0..(L + 1) -> AxiStages]
  BY <1>1 DEF AxiChain
<1>5. ASSUME NEW j \in 1..(L + 1) PROVE Handles(p[j], T[j - 1], T[j])
  <2>1. CASE j <= L
    <3>1. j \in 1..L /\ T[j - 1] = S[j - 1] /\ T[j] = S[j] /\ p[j] = q[j]
      BY <1>1, <1>3, <2>1
    <3>2. Handles(q[j], S[j - 1], S[j])
      BY <3>1 DEF AxiChain
    <3> QED
      BY <3>1, <3>2
  <2>2. CASE j = L + 1
    <3>1. j - L = 1 /\ j - 1 = L /\ ~(j <= L)
      BY <1>1, <2>2
    <3>2. p[j] = e
      BY <1>2, <1>3, <3>1
    <3>3. T[j - 1] = S[L] /\ T[j] = t
      BY <1>1, <3>1
    <3> QED
      BY <3>2, <3>3
  <2> QED
    BY <1>1, <2>1, <2>2
<1>6. T[0] = S[0] /\ T[L + 1] = t
  BY <1>1
<1>7. AxiChain(p, T)
  BY <1>3, <1>4, <1>5 DEF AxiChain
<1> HIDE DEF T
<1> QED
  BY <1>3, <1>6, <1>7

\* Handling complete requests in turn gives the memory and the answers of the
\* stage after the last of them.
LEMMA ServedIs ==
  ASSUME NEW q \in Seq(AxiReqs), NEW S, AxiChain(q, S), S[0].m = mem, S[0].out = resp_q,
         \A k \in 1..Len(q) : HasBeats(q[k])
  PROVE  Axi!Served(q) = [m |-> S[Len(q)].m, out |-> S[Len(q)].out]
<1> DEFINE L == Len(q)
           F(f) == [k \in 0..L |->
                      IF k = 0 THEN [m |-> mem, out |-> resp_q]
                      ELSE LET p == f[k - 1]
                           IN [m |-> Axi!Written(q[k], p.m), out |-> p.out \o Axi!AnswerTo(q[k], p.m)]]
           g == CHOOSE f : f = F(f)
           h == [k \in 0..L |-> [m |-> S[k].m, out |-> S[k].out]]
<1>1. Axi!Served(q) = g[L]
  BY DEF Axi!Served
<1>2. L \in Nat /\ \A k \in 0..L : S[k] \in AxiStages
  BY DEF AxiChain
<1>3. ASSUME NEW k \in 1..L
      PROVE  /\ S[k].out = S[k - 1].out \o Axi!AnswerTo(q[k], S[k - 1].m)
             /\ S[k].m = Axi!Written(q[k], S[k - 1].m)
  <2>1. Handles(q[k], S[k - 1], S[k]) /\ q[k] \in AxiReqs /\ HasBeats(q[k])
    BY DEF AxiChain
  <2>2. CASE q[k].ar
    BY <2>1, <2>2 DEF Handles, Axi!Written
  <2>3. CASE ~q[k].ar
    <3>1. PICK v \in [Axi!Burst -> Axi!Beats] :
            Begins(v, q[k]) /\ S[k].m = [S[k - 1].m EXCEPT ![q[k].line] = v]
      BY <2>1, <2>3 DEF Handles
    <3>2. Len(q[k].w) = AxiBurst /\ AxiBurst \in Nat
      BY <2>1, <2>3, AxiSizes DEF HasBeats
    <3>3. v = [ix \in Axi!Burst |-> IF ix <= Len(q[k].w) THEN q[k].w[ix] ELSE None]
      BY <3>1, <3>2 DEF Begins, Axi!Burst
    <3> QED
      BY <2>1, <2>3, <3>1, <3>3 DEF Handles, Axi!Written
  <2> QED
    BY <2>2, <2>3
<1>4. h = F(h)
  <2>1. ASSUME NEW k \in 0..L PROVE h[k] = F(h)[k]
    <3>1. CASE k = 0
      BY <3>1
    <3>2. CASE k # 0
      <4>1. k \in 1..L /\ k - 1 \in 0..L
        BY <1>2, <3>2
      <4>2. h[k - 1].m = S[k - 1].m /\ h[k - 1].out = S[k - 1].out
        BY <4>1
      <4>3. F(h)[k] = [m |-> Axi!Written(q[k], h[k - 1].m), out |-> h[k - 1].out \o Axi!AnswerTo(q[k], h[k - 1].m)]
        BY <3>2
      <4>4. h[k] = [m |-> S[k].m, out |-> S[k].out]
        OBVIOUS
      <4> HIDE DEF h, F
      <4> QED
        BY <1>3, <4>1, <4>2, <4>3, <4>4
    <3> QED
      BY <3>1, <3>2
  <2>2. DOMAIN h = 0..L /\ DOMAIN F(h) = 0..L
    OBVIOUS
  <2>3. h = [k \in 0..L |-> h[k]] /\ F(h) = [k \in 0..L |-> F(h)[k]]
    OBVIOUS
  <2> HIDE DEF h, F
  <2> QED
    BY <2>1, <2>2, <2>3
<1>5. g = F(g)
  <2> HIDE DEF h, F
  <2> QED
    BY <1>4
<1>6. \A k \in 0..L : g[k] = F(g)[k]
  <2> HIDE DEF g, F
  <2> QED
    BY <1>5
<1>7. g[L] = h[L]
  <2> DEFINE C == {k \in 0..L : g[k] # h[k]}
  <2> HIDE DEF g, h, F
  <2> SUFFICES ASSUME C # {} PROVE FALSE
    BY <1>2
  <2>0. C \in SUBSET Nat
    OBVIOUS
  <2>1. PICK k \in C : \A y \in C : k <= y
    <3> HIDE DEF C
    <3> QED
      BY <2>0, LeastNumber
  <2>2. k \in 0..L /\ g[k] # h[k]
    BY <2>1
  <2>3. CASE k = 0
    <3>1. F(g)[k] = [m |-> mem, out |-> resp_q] /\ h[k] = [m |-> S[0].m, out |-> S[0].out]
      BY <2>2, <2>3 DEF F, h
    <3> QED
      BY <1>6, <2>2, <3>1
  <2>4. CASE k # 0
    <3>1. k - 1 \in 0..L /\ k - 1 \notin C
      BY <1>2, <2>1, <2>2, <2>4
    <3>2. g[k - 1] = h[k - 1]
      BY <3>1
    <3>3. F(g)[k] = F(h)[k]
      BY <2>2, <2>4, <3>2 DEF F
    <3>4. F(h)[k] = h[k]
      BY <1>4
    <3> QED
      BY <1>6, <2>2, <3>3, <3>4
  <2> QED
    BY <2>3, <2>4
<1>8. h[L] = [m |-> S[L].m, out |-> S[L].out]
  BY <1>2
<1> HIDE DEF g, h
<1> QED
  BY <1>1, <1>7, <1>8

\* What is left of the answers of a stage when the first one has been sent.
Unsent(s, some) == [m |-> s.m, out |-> IF some THEN Tail(s.out) ELSE s.out, todo |-> s.todo]

\* The first n requests move, and one answer may leave if there is one.
LEMMA MoveFits ==
  ASSUME NEW q \in Seq(AxiReqs), NEW S, AxiChain(q, S), S[0].todo = << >>,
         NEW n \in 0..Len(q), \A k \in 1..n : HasBeats(q[k]),
         NEW some \in BOOLEAN, some => S[n].out # << >>
  PROVE  LET p == SubSeq(q, n + 1, Len(q))
         IN /\ p \in Seq(AxiReqs) /\ Len(p) = Len(q) - n /\ S[n].todo = << >>
            /\ some => /\ S[Len(q)].out # << >> /\ Head(S[Len(q)].out) = Head(S[n].out)
            /\ \E T : /\ AxiChain(p, T) /\ T[0] = Unsent(S[n], some)
                      /\ T[Len(q) - n] = Unsent(S[Len(q)], some)
<1> DEFINE L == Len(q)
           p == SubSeq(q, n + 1, L)
           T == [j \in 0..(L - n) |-> Unsent(S[n + j], some)]
<1>1. L \in Nat /\ n \in Nat /\ n <= L /\ L - n \in Nat
  OBVIOUS
<1>2. \A k \in 0..L : S[k] \in AxiStages
  BY DEF AxiChain
<1>3. \A k \in 0..L : S[k].out \in Seq(Axi!Answers) /\ S[k].todo \in Seq(Axi!Beats) /\ S[k].m \in AxiMemory
  BY <1>2 DEF AxiStages
<1>4. S[n].todo = << >>
  BY NoneToCome
<1>5. /\ p \in Seq(AxiReqs) /\ Len(p) = L - n
      /\ \A ix \in 1..(L - n) : p[ix] = q[n + ix]
  <2>1. \A ix \in (n + 1)..L : q[ix] \in AxiReqs
    BY <1>1
  <2>2. /\ p \in Seq(AxiReqs)
        /\ Len(p) = IF n + 1 <= L THEN L - (n + 1) + 1 ELSE 0
        /\ \A ix \in 1..(L - (n + 1) + 1) : p[ix] = q[n + 1 + ix - 1]
    BY <1>1, <2>1, SubSeqProperties
  <2> HIDE DEF p
  <2>3. ASSUME NEW ix \in 1..(L - n) PROVE p[ix] = q[n + ix]
    <3>1. n + 1 + ix - 1 = n + ix /\ ix \in 1..(L - (n + 1) + 1)
      BY <1>1
    <3> QED
      BY <2>2, <3>1
  <2>4. CASE n + 1 <= L
    BY <1>1, <2>2, <2>3, <2>4
  <2>5. CASE ~(n + 1 <= L)
    BY <1>1, <2>2, <2>3, <2>5
  <2> QED
    BY <2>4, <2>5
<1>6. ASSUME some, NEW k \in n..L
      PROVE  S[k].out # << >> /\ Head(S[k].out) = Head(S[n].out)
  <2> DEFINE f == [j \in 0..L |-> S[j].out]
  <2>1. Growing(f, L, Axi!Answers)
    BY ChainGrows
  <2>2. f[n] = S[n].out /\ f[k] = S[k].out
    BY <1>1
  <2> HIDE DEF f
  <2> QED
    BY <1>1, <1>6, <2>1, <2>2, GrowingHead
<1>7. ASSUME NEW j \in 0..(L - n) PROVE T[j] \in AxiStages
  <2>1. n + j \in n..L /\ n + j \in 0..L
    BY <1>1
  <2>2. some => Tail(S[n + j].out) \in Seq(Axi!Answers)
    BY <1>3, <1>6, <2>1, HeadTailProperties
  <2> QED
    BY <1>3, <2>1, <2>2 DEF Unsent, AxiStages
<1>8. ASSUME NEW j \in 1..(L - n) PROVE Handles(p[j], T[j - 1], T[j])
  <2>1. /\ n + j \in 1..L /\ n + j - 1 \in n..L /\ n + j - 1 \in 0..L /\ n + (j - 1) = n + j - 1
        /\ j - 1 \in 0..(L - n) /\ j \in 0..(L - n)
    BY <1>1
  <2>2. Handles(q[n + j], S[n + j - 1], S[n + j]) /\ q[n + j] \in AxiReqs
    BY <2>1 DEF AxiChain
  <2>3. T[j - 1] = Unsent(S[n + j - 1], some) /\ T[j] = Unsent(S[n + j], some) /\ p[j] = q[n + j]
    BY <1>5, <2>1
  <2>4. Axi!AnswerTo(q[n + j], S[n + j - 1].m) \in Seq(Axi!Answers)
    BY <1>3, <2>1, <2>2, AnswersType
  <2>5. S[n + j].out = S[n + j - 1].out \o Axi!AnswerTo(q[n + j], S[n + j - 1].m)
    BY <2>2 DEF Handles
  <2>6. some => Tail(S[n + j].out) = Tail(S[n + j - 1].out) \o Axi!AnswerTo(q[n + j], S[n + j - 1].m)
    BY <1>3, <1>6, <2>1, <2>4, <2>5, HeadOfConcat
  <2> DEFINE s == Unsent(S[n + j - 1], some)
             t == Unsent(S[n + j], some)
  <2>7. /\ s.m = S[n + j - 1].m /\ s.todo = S[n + j - 1].todo
        /\ t.m = S[n + j].m /\ t.todo = S[n + j].todo
    BY DEF Unsent
  <2>8. t.out = s.out \o Axi!AnswerTo(q[n + j], S[n + j - 1].m)
    BY <2>5, <2>6 DEF Unsent
  <2> HIDE DEF s, t
  <2>9. Handles(q[n + j], s, t)
    BY <2>2, <2>7, <2>8 DEF Handles
  <2> QED
    BY <2>3, <2>9 DEF s, t
<1>9. AxiChain(p, T)
  <2>1. T = [j \in 0..(L - n) |-> T[j]]
    OBVIOUS
  <2> HIDE DEF T, p
  <2> QED
    BY <1>5, <1>7, <1>8, <2>1 DEF AxiChain
<1>10. T[0] = Unsent(S[n], some) /\ T[L - n] = Unsent(S[L], some)
  <2>1. n + 0 = n /\ n + (L - n) = L /\ 0 \in 0..(L - n) /\ L - n \in 0..(L - n)
    BY <1>1
  <2> QED
    BY <2>1
<1>11. some => S[L].out # << >> /\ Head(S[L].out) = Head(S[n].out)
  BY <1>1, <1>6
<1> HIDE DEF T, p
<1> QED
  BY <1>4, <1>5, <1>9, <1>10, <1>11 DEF p

-----------------------------------------------------------------------------
(* What a clock edge does to the stages.                                   *)

\* A stage is made of its parts.
LEMMA StageIs ==
  ASSUME NEW m \in AxiMemory, NEW out \in Seq(Axi!Answers), NEW todo \in Seq(Axi!Beats)
  PROVE  LET s == [m |-> m, out |-> out, todo |-> todo]
         IN s \in AxiStages /\ s.m = m /\ s.out = out /\ s.todo = todo
BY DEF AxiStages

\* The write that the cache makes of a line.
LEMMA VersionType ==
  ASSUME NEW l \in Axi!Lines, NEW n \in 0..AxiRequests
  PROVE  Axi!Version(l, n) \in [Axi!Burst -> Axi!Beats]
BY DEF Axi!Version, Axi!Beats

\* The sequence of what is given.
Given(x) == IF x = None THEN << >> ELSE <<x>>

\* The lines and the beats to send after a write, and the answers owed.
WrittenBy(aw, m, n) ==
  IF aw = None THEN m ELSE [m EXCEPT ![aw.line] = Axi!Version(aw.line, n + 1)]
ToSend(aw, todo, m) == IF aw = None THEN todo ELSE todo \o m[aw.line]
OwedFor(aw) == IF aw = None THEN << >> ELSE <<Axi!BResp>>
OwedOf(ar, m) ==
  IF ar = None THEN << >> ELSE [ix \in Axi!Burst |-> Axi!RResp(ar.id, m[ar.line][ix], ix)]

\* The address of a write arrives.
LEMMA AwFits ==
  ASSUME NEW q \in Seq(AxiReqs), NEW S, AxiChain(q, S),
         NEW n \in 0..AxiRequests, NEW aw \in Axi!AwChoices(n)
  PROVE  LET s == S[Len(q)]
             now == WrittenBy(aw, s.m, n)
             p == q \o Given(aw)
         IN /\ p \in Seq(AxiReqs)
            /\ \E T : /\ AxiChain(p, T) /\ T[0] = S[0]
                      /\ T[Len(p)] = [m |-> now, out |-> s.out \o OwedFor(aw),
                                     todo |-> ToSend(aw, s.todo, now)]
<1> DEFINE s == S[Len(q)]
<1>1. Len(q) \in Nat /\ s \in AxiStages
  BY DEF AxiChain
<1>2. s.m \in AxiMemory /\ s.out \in Seq(Axi!Answers) /\ s.todo \in Seq(Axi!Beats)
      /\ s = [m |-> s.m, out |-> s.out, todo |-> s.todo]
  BY <1>1 DEF AxiStages
<1>3. CASE aw = None
  <2>1. q \o << >> = q /\ s.out \o << >> = s.out
    BY <1>2, ConcatEmptySeq
  <2> HIDE DEF s
  <2> QED
    BY <1>2, <1>3, <2>1 DEF s, Given, WrittenBy, ToSend, OwedFor
<1>4. CASE aw # None
  <2>1. PICK l \in {x \in AxiDataLines : n < AxiRequests}, dl \in AxiDelays : aw = Axi!AwReq(l, dl)
    BY <1>4 DEF Axi!AwChoices
  <2>2. n + 1 \in 0..AxiRequests /\ l \in AxiDataLines /\ l \in Axi!Lines /\ dl \in Nat /\ AxiBurst \in Nat
    BY <2>1, AxiSizes DEF Axi!Lines
  <2>3. /\ aw \in [ar : BOOLEAN, id : AxiIds \union {0}, line : Axi!Lines, w : Seq(Axi!Beats), delay : Nat]
        /\ ~aw.ar /\ aw.line = l /\ aw.w = << >> /\ Len(aw.w) = 0
    BY <2>1, <2>2, EmptySeq DEF Axi!AwReq
  <2>4. aw \in AxiReqs
    BY <2>2, <2>3 DEF AxiReqs
  <2> DEFINE v == Axi!Version(l, n + 1)
             now == [s.m EXCEPT ![aw.line] = Axi!Version(aw.line, n + 1)]
             t == [m |-> now, out |-> s.out \o <<Axi!BResp>>, todo |-> s.todo \o v]
  <2>5. v \in [Axi!Burst -> Axi!Beats] /\ v \in Seq(Axi!Beats) /\ Len(v) = AxiBurst
    BY <2>2, <2>4, VersionType, RestType
  <2>6. Rest(v, aw) = v
    BY <2>3, <2>5, SubSeqFull DEF Rest
  <2>7. now \in AxiMemory /\ now[aw.line] = v
    BY <1>2, <2>2, <2>3, <2>5 DEF AxiMemory
  <2>8. <<Axi!BResp>> = Axi!AnswerTo(aw, s.m) /\ <<Axi!BResp>> \in Seq(Axi!Answers)
    <3>1. <<Axi!BResp>> = Axi!AnswerTo(aw, s.m)
      BY <2>3 DEF Axi!AnswerTo
    <3> QED
      BY <1>2, <2>4, <3>1, AnswersType
  <2>9. s.out \o <<Axi!BResp>> \in Seq(Axi!Answers) /\ s.todo \o v \in Seq(Axi!Beats)
    BY <1>2, <2>5, <2>8, ConcatProperties
  <2>10. now = [s.m EXCEPT ![aw.line] = v]
    BY <2>3
  <2> HIDE DEF now, v
  <2>11. t \in AxiStages /\ t.m = now /\ t.out = s.out \o <<Axi!BResp>> /\ t.todo = s.todo \o v
    BY <2>7, <2>9, StageIs
  <2>12. Begins(v, aw)
    BY <2>3 DEF Begins
  <2> HIDE DEF t
  <2>13. Handles(aw, s, t)
    BY <2>3, <2>5, <2>6, <2>8, <2>10, <2>11, <2>12 DEF Handles
  <2>14. /\ q \o <<aw>> \in Seq(AxiReqs) /\ Len(q \o <<aw>>) = Len(q) + 1
         /\ \E T : AxiChain(q \o <<aw>>, T) /\ T[0] = S[0] /\ T[Len(q) + 1] = t
    BY <2>4, <2>11, <2>13, ArrivalFits
  <2> QED
    BY <1>4, <2>7, <2>14 DEF t, now, Given, WrittenBy, ToSend, OwedFor
<1> QED
  BY <1>3, <1>4

\* A read arrives.
LEMMA ArFits ==
  ASSUME NEW q \in Seq(AxiReqs), NEW S, AxiChain(q, S), NEW n, NEW ar \in Axi!ArChoices(n)
  PROVE  LET s == S[Len(q)]
             p == q \o Given(ar)
         IN /\ p \in Seq(AxiReqs) /\ OwedOf(ar, s.m) \in Seq(Axi!Answers)
            /\ \E T : /\ AxiChain(p, T) /\ T[0] = S[0]
                      /\ T[Len(p)] = [m |-> s.m, out |-> s.out \o OwedOf(ar, s.m), todo |-> s.todo]
<1> DEFINE s == S[Len(q)]
<1>1. Len(q) \in Nat /\ s \in AxiStages
  BY DEF AxiChain
<1>2. s.m \in AxiMemory /\ s.out \in Seq(Axi!Answers) /\ s.todo \in Seq(Axi!Beats)
      /\ s = [m |-> s.m, out |-> s.out, todo |-> s.todo]
  BY <1>1 DEF AxiStages
<1>3. CASE ar = None
  <2>1. q \o << >> = q /\ s.out \o << >> = s.out
    BY <1>2, ConcatEmptySeq
  <2> HIDE DEF s
  <2> QED
    BY <1>2, <1>3, <2>1, EmptySeq DEF s, Given, OwedOf
<1>4. CASE ar # None
  <2>1. PICK ix \in AxiIds, l \in Axi!Lines, dl \in AxiDelays : ar = Axi!ArReq(ix, l, dl)
    BY <1>4 DEF Axi!ArChoices
  <2>2. dl \in Nat /\ AxiBurst \in Nat
    BY <2>1, AxiSizes
  <2>3. /\ ar \in [ar : BOOLEAN, id : AxiIds \union {0}, line : Axi!Lines, w : Seq(Axi!Beats), delay : Nat]
        /\ ar.ar /\ Len(ar.w) = 0
    BY <2>1, <2>2, EmptySeq DEF Axi!ArReq
  <2>4. ar \in AxiReqs
    BY <2>2, <2>3 DEF AxiReqs
  <2> DEFINE a == [k \in Axi!Burst |-> Axi!RResp(ar.id, s.m[ar.line][k], k)]
             t == [m |-> s.m, out |-> s.out \o a, todo |-> s.todo]
  <2>5. a = Axi!AnswerTo(ar, s.m)
    BY <2>3 DEF Axi!AnswerTo
  <2> HIDE DEF a
  <2>6. a \in Seq(Axi!Answers) /\ s.out \o a \in Seq(Axi!Answers)
    BY <1>2, <2>4, <2>5, AnswersType, ConcatProperties
  <2>7. t \in AxiStages /\ t.m = s.m /\ t.out = s.out \o a /\ t.todo = s.todo
    BY <1>2, <2>6, StageIs
  <2> HIDE DEF t
  <2>8. Handles(ar, s, t)
    BY <2>3, <2>5, <2>7 DEF Handles
  <2>9. /\ q \o <<ar>> \in Seq(AxiReqs) /\ Len(q \o <<ar>>) = Len(q) + 1
        /\ \E T : AxiChain(q \o <<ar>>, T) /\ T[0] = S[0] /\ T[Len(q) + 1] = t
    BY <2>4, <2>7, <2>8, ArrivalFits
  <2> QED
    BY <1>4, <2>6, <2>9 DEF t, a, Given, OwedOf
<1> QED
  BY <1>3, <1>4

\* The answer on the port, if it has left the list.
Gone(p, left) == IF p # None /\ left THEN <<p>> ELSE << >>

\* The answer on the port is the first of the list, or has left it.
PortFirst(p, left, out) == p # None /\ ~left => out # << >> /\ p = Head(out)

\* The chain that leads from the memory and its answers to what the cache knows.
AxiStaged(S) ==
  /\ AxiChain(wait_q, S)
  /\ S[0] = [m |-> mem, out |-> resp_q, todo |-> << >>]
  /\ S[Len(wait_q)].m = latest /\ S[Len(wait_q)].todo = w_todo
  /\ due = Gone(port, popped) \o S[Len(wait_q)].out

AxiInv ==
  /\ status \in {"run", "undefined"} /\ sent \in 0..AxiRequests
  /\ wait_q \in Seq(AxiReqs) /\ port \in Axi!Answers \union {None}
  /\ PortFirst(port, popped, resp_q)
  /\ \E S : AxiStaged(S)

\* S are the stages of queue q, from the memory as it is; w may be sent.
EvalFinds(q, S, w) ==
  /\ q \in Seq(AxiReqs) /\ AxiChain(q, S)
  /\ S[0] = [m |-> mem, out |-> resp_q, todo |-> << >>]
  /\ w # None => S[Len(q)].todo # << >> /\ w = Head(S[Len(q)].todo)

\* The stages of what is left of the queue end with the last one of S, less the
\* beat that was taken and the answer that has left.
EvalLeaves(q, S, w) ==
  /\ status' \in {"run", "undefined"}
  /\ wait_q' \in Seq(AxiReqs) /\ port' \in Axi!Answers \union {None}
  /\ PortFirst(port', popped', resp_q')
  /\ \E T : /\ AxiChain(wait_q', T)
            /\ T[0] = [m |-> mem', out |-> resp_q', todo |-> << >>]
            /\ T[Len(wait_q')].m = S[Len(q)].m
            /\ T[Len(wait_q')].todo = IF w = None THEN S[Len(q)].todo ELSE Tail(S[Len(q)].todo)
            /\ S[Len(q)].out = Gone(port', popped') \o T[Len(wait_q')].out

\* eval() does not throw, and keeps the stages.
LEMMA EvalFits ==
  ASSUME NEW aw, NEW ar, NEW w, NEW rdy \in BOOLEAN, NEW q, NEW S, q = Axi!Arrived(aw, ar),
         EvalFinds(q, S, w), Axi!Eval(aw, ar, w, rdy)
  PROVE  EvalLeaves(q, S, w)
<1> DEFINE L == Len(q)
           q1 == Axi!TakeBeat(q, w)
           q2 == Axi!CountDown(q1)
           n == Axi!Moving(q2)
           moved == SubSeq(q2, 1, n)
           t == IF w = None THEN S[L] ELSE LessABeat(S[L])
<1>1. /\ q \in Seq(AxiReqs) /\ AxiChain(q, S) /\ L \in Nat
      /\ S[0].todo = << >> /\ S[0].m = mem /\ S[0].out = resp_q
      /\ w # None => S[Len(q)].todo # << >> /\ w = Head(S[Len(q)].todo)
  BY DEF EvalFinds
<1>2. /\ w # None => Axi!WTarget(q) # 0
      /\ q1 \in Seq(AxiReqs) /\ Len(q1) = L
      /\ \E R : AxiChain(q1, R) /\ R[0] = S[0] /\ R[L] = t
  <2>1. CASE w = None
    <3>1. q1 = q /\ t = S[L]
      BY <2>1 DEF Axi!TakeBeat
    <3> QED
      BY <1>1, <2>1, <3>1
  <2>2. CASE w # None
    <3>1. S[Len(q)].todo # << >> /\ w = Head(S[Len(q)].todo)
      BY <1>1, <2>2
    <3>2. /\ Axi!WTarget(q) # 0 /\ w # None
          /\ q1 \in Seq(AxiReqs) /\ Len(q1) = Len(q)
          /\ \E R : AxiChain(q1, R) /\ R[0] = S[0] /\ R[Len(q)] = LessABeat(S[Len(q)])
      BY <1>1, <3>1, BeatFits
    <3> QED
      BY <2>2, <3>2
  <2> QED
    BY <2>1, <2>2
<1>3. PICK R : AxiChain(q1, R) /\ R[0] = S[0] /\ R[L] = t
  BY <1>2
<1> HIDE DEF q1, t
<1>4. q2 \in Seq(AxiReqs) /\ Len(q2) = L /\ AxiChain(q2, R)
  BY <1>2, <1>3, CountDownFits
<1> HIDE DEF q2
<1>5. n \in 0..L /\ \A k \in 1..n : HasBeats(q2[k])
  BY <1>4, MovingIs
<1> HIDE DEF n
<1>6. /\ moved \in Seq(AxiReqs) /\ Len(moved) = n
      /\ \A k \in 1..n : moved[k] = q2[k]
  BY <1>1, <1>4, <1>5
<1> HIDE DEF moved
<1>7. \A k \in 0..L : R[k] \in AxiStages
  BY <1>4 DEF AxiChain
<1>8. R[n].m \in AxiMemory /\ R[n].out \in Seq(Axi!Answers)
  BY <1>5, <1>7 DEF AxiStages
<1>9. Axi!Served(moved) = [m |-> R[n].m, out |-> R[n].out]
  <2> DEFINE P == [k \in 0..n |-> R[k]]
  <2>1. P \in [0..n -> AxiStages]
    BY <1>1, <1>5, <1>7
  <2>2. ASSUME NEW k \in 1..n PROVE Handles(moved[k], P[k - 1], P[k])
    <3>1. k \in 1..L /\ k - 1 \in 0..n /\ k \in 0..n
      BY <1>1, <1>5
    <3>2. Handles(q2[k], R[k - 1], R[k])
      BY <1>4, <3>1 DEF AxiChain
    <3> QED
      BY <1>6, <3>1, <3>2
  <2>3. P[0] = R[0] /\ P[n] = R[n]
    BY <1>5
  <2> HIDE DEF P
  <2>4. AxiChain(moved, P)
    BY <1>6, <2>1, <2>2 DEF AxiChain
  <2>5. \A k \in 1..Len(moved) : HasBeats(moved[k])
    BY <1>5, <1>6
  <2>6. P[0].m = mem /\ P[0].out = resp_q
    BY <1>1, <1>3, <2>3
  <2>7. Axi!Served(moved) = [m |-> P[Len(moved)].m, out |-> P[Len(moved)].out]
    BY <1>6, <2>4, <2>5, <2>6, ServedIs
  <2> QED
    BY <1>6, <2>3, <2>7
<1>10. ~Axi!BeatAlone(aw, ar, w)
  BY <1>2 DEF Axi!BeatAlone
<1>11. ~\E k \in 1..n : Axi!InvalidAccess(moved[k])
  <2>1. ASSUME NEW k \in 1..n PROVE ~Axi!InvalidAccess(moved[k])
    <3>1. moved[k] \in AxiReqs
      BY <1>6
    <3> QED
      BY <3>1 DEF AxiReqs, Axi!InvalidAccess
  <2> QED
    BY <2>1
<1>12. /\ wait_q' = SubSeq(q2, n + 1, Len(q2))
       /\ mem' = Axi!Served(moved).m
       /\ Axi!SendResp(Axi!Served(moved).out, rdy)
       /\ status' \in IF n = Len(q2) THEN {"run", "undefined"} ELSE {"run"}
  BY <1>10, <1>11 DEF Axi!Eval, q1, q2, n, moved
<1>13. /\ mem' = R[n].m
       /\ port' = (IF R[n].out = << >> THEN None ELSE Head(R[n].out))
       /\ popped' = (R[n].out # << >> /\ rdy)
       /\ resp_q' = (IF R[n].out # << >> /\ rdy THEN Tail(R[n].out) ELSE R[n].out)
  <2>1. Axi!Served(moved).m = R[n].m /\ Axi!Served(moved).out = R[n].out
    BY <1>9
  <2> QED
    BY <1>12, <2>1 DEF Axi!SendResp
<1> DEFINE some == R[n].out # << >> /\ rdy
<1>14. /\ wait_q' \in Seq(AxiReqs) /\ Len(wait_q') = L - n /\ R[n].todo = << >>
       /\ some => R[L].out # << >> /\ Head(R[L].out) = Head(R[n].out)
       /\ \E T : AxiChain(wait_q', T) /\ T[0] = Unsent(R[n], some) /\ T[L - n] = Unsent(R[L], some)
  <2> DEFINE p == SubSeq(q2, n + 1, Len(q2))
  <2>1. /\ R[0].todo = << >> /\ n \in 0..Len(q2)
        /\ some \in BOOLEAN /\ (some => R[n].out # << >>)
    BY <1>1, <1>3, <1>4, <1>5
  <2> HIDE DEF some
  <2>2. /\ p \in Seq(AxiReqs) /\ Len(p) = Len(q2) - n /\ R[n].todo = << >>
        /\ some => /\ R[Len(q2)].out # << >> /\ Head(R[Len(q2)].out) = Head(R[n].out)
        /\ \E T : /\ AxiChain(p, T) /\ T[0] = Unsent(R[n], some)
                  /\ T[Len(q2) - n] = Unsent(R[Len(q2)], some)
    BY <1>4, <1>5, <2>1, MoveFits
  <2>3. wait_q' = p
    BY <1>12
  <2> HIDE DEF p
  <2> QED
    BY <1>4, <2>2, <2>3
<1>15. PICK T : AxiChain(wait_q', T) /\ T[0] = Unsent(R[n], some) /\ T[L - n] = Unsent(R[L], some)
  BY <1>14
<1>16. /\ some => port' = Head(R[n].out)
       /\ some => popped'
       /\ ~some => ~popped'
       /\ resp_q' = (IF some THEN Tail(R[n].out) ELSE R[n].out)
  BY <1>13
<1>17. T[0] = [m |-> mem', out |-> resp_q', todo |-> << >>]
  BY <1>13, <1>14, <1>15, <1>16 DEF Unsent
<1>18. R[L].m = S[L].m /\ R[L].out = S[L].out /\ R[L].todo = IF w = None THEN S[L].todo ELSE Tail(S[L].todo)
  BY <1>3 DEF t, LessABeat
<1>19. T[L - n].m = S[L].m /\ T[L - n].todo = IF w = None THEN S[L].todo ELSE Tail(S[L].todo)
  BY <1>15, <1>18 DEF Unsent
<1>20. R[L].out = Gone(port', popped') \o T[L - n].out
  <2>1. R[L].out \in Seq(Axi!Answers)
    BY <1>1, <1>7 DEF AxiStages
  <2>2. CASE some
    <3>1. port' = Head(R[L].out) /\ Head(R[n].out) \in Axi!Answers /\ port' = Head(R[n].out)
      BY <1>8, <1>14, <1>16, <2>2
    <3>2. port' # None
      BY <3>1, AxiSizes
    <3>3. T[L - n].out = Tail(R[L].out)
      BY <1>15, <2>2 DEF Unsent
    <3>4. R[L].out # << >>
      BY <1>14, <2>2
    <3>5. R[L].out = <<Head(R[L].out)>> \o Tail(R[L].out)
      BY <2>1, <3>4
    <3> HIDE DEF some
    <3> QED
      BY <1>16, <2>2, <3>1, <3>2, <3>3, <3>5 DEF Gone
  <2>3. CASE ~some
    <3>1. ~popped'
      BY <1>16, <2>3
    <3>2. T[L - n].out = R[L].out
      BY <1>15, <2>3 DEF Unsent
    <3> HIDE DEF some
    <3> QED
      BY <2>1, <3>1, <3>2, ConcatEmptySeq DEF Gone
  <2> QED
    BY <2>2, <2>3
<1>22. port' \in Axi!Answers \union {None} /\ PortFirst(port', popped', resp_q')
  <2>1. R[n].out # << >> => Head(R[n].out) \in Axi!Answers
    BY <1>8
  <2> QED
    BY <1>13, <2>1 DEF PortFirst
<1>21. status' \in {"run", "undefined"}
  BY <1>12
<1> HIDE DEF some
<1> QED
  BY <1>14, <1>15, <1>17, <1>18, <1>19, <1>20, <1>21, <1>22 DEF EvalLeaves

\* At the start nothing waits.
LEMMA AxiStarts == Axi!Init => AxiInv
<1> SUFFICES ASSUME Axi!Init PROVE AxiInv
  OBVIOUS
<1> DEFINE S == [k \in 0..0 |-> [m |-> mem, out |-> resp_q, todo |-> << >>]]
<1>1. AxiRequests \in Nat /\ Len(wait_q) = 0 /\ wait_q = << >> /\ resp_q = << >>
  BY AxiSizes DEF Axi!Init
<1>2. mem \in AxiMemory /\ mem = latest /\ w_todo = << >>
  BY <1>1, VersionType DEF Axi!Init, AxiMemory
<1>3. S[0] = [m |-> mem, out |-> resp_q, todo |-> << >>] /\ DOMAIN S = 0..0 /\ S = [k \in 0..0 |-> S[k]]
  OBVIOUS
<1> HIDE DEF S
<1>7. S[0] \in AxiStages
  BY <1>1, <1>2, <1>3, EmptySeq DEF AxiStages
<1>4. AxiChain(wait_q, S)
  <2>1. 0..0 = {0} /\ 1..0 = {}
    OBVIOUS
  <2> QED
    BY <1>1, <1>3, <1>7, <2>1 DEF AxiChain
<1>5. due = Gone(port, popped) \o << >> /\ PortFirst(port, popped, resp_q)
  BY DEF Axi!Init, Gone, PortFirst
<1>6. AxiStaged(S)
  <2>1. S[0].m = mem /\ S[0].out = << >> /\ S[0].todo = << >>
    BY <1>1, <1>3
  <2>2. S[Len(wait_q)] = S[0]
    BY <1>1
  <2> QED
    BY <1>1, <1>2, <1>3, <1>4, <1>5, <2>1, <2>2 DEF AxiStaged
<1> QED
  BY <1>1, <1>5, <1>6, EmptySeq DEF AxiInv, Axi!Init

\* An edge keeps the invariant.
LEMMA EdgeFits ==
  ASSUME AxiInv, NEW aw \in Axi!AwChoices(sent),
         NEW ar \in Axi!ArChoices(IF aw = None THEN sent ELSE sent + 1),
         NEW beat \in BOOLEAN, NEW rdy \in BOOLEAN, Axi!Edge(aw, ar, beat, rdy)
  PROVE  AxiInv'
<1> DEFINE now == WrittenBy(aw, latest, sent)
           todo == ToSend(aw, w_todo, now)
           w == IF beat THEN Head(todo) ELSE None
           q1 == wait_q \o Given(aw)
           q == q1 \o Given(ar)
<1>1. /\ status \in {"run", "undefined"} /\ sent \in 0..AxiRequests
      /\ wait_q \in Seq(AxiReqs) /\ port \in Axi!Answers \union {None}
  BY DEF AxiInv
<1>2. PICK S : AxiStaged(S)
  BY DEF AxiInv
<1> DEFINE O == S[Len(wait_q)].out
<1>3. /\ AxiChain(wait_q, S) /\ S[0] = [m |-> mem, out |-> resp_q, todo |-> << >>]
      /\ S[Len(wait_q)].m = latest /\ S[Len(wait_q)].todo = w_todo
      /\ due = Gone(port, popped) \o O
  BY <1>2 DEF AxiStaged
<1>4. O \in Seq(Axi!Answers)
  <2>1. S[Len(wait_q)] \in AxiStages
    BY <1>1, <1>3 DEF AxiChain
  <2> QED
    BY <2>1 DEF AxiStages
<1>5. /\ q1 \in Seq(AxiReqs)
      /\ \E T : AxiChain(q1, T) /\ T[0] = S[0] /\ T[Len(q1)] = [m |-> now, out |-> O \o OwedFor(aw), todo |-> todo]
  <2> DEFINE s == S[Len(wait_q)]
             now0 == WrittenBy(aw, s.m, sent)
  <2>1. /\ q1 \in Seq(AxiReqs)
        /\ \E T : /\ AxiChain(q1, T) /\ T[0] = S[0]
                  /\ T[Len(q1)] = [m |-> now0, out |-> s.out \o OwedFor(aw), todo |-> ToSend(aw, s.todo, now0)]
    BY <1>1, <1>3, AwFits
  <2> QED
    BY <1>3, <2>1
<1>6. PICK T1 : AxiChain(q1, T1) /\ T1[0] = S[0] /\ T1[Len(q1)] = [m |-> now, out |-> O \o OwedFor(aw), todo |-> todo]
  BY <1>5
<1>7. OwedFor(aw) \in Seq(Axi!Answers)
  <2>1. Axi!BResp \in Axi!Answers
    BY DEF Axi!BResp, Axi!Answers
  <2> QED
    BY <2>1, EmptySeq DEF OwedFor
<1> HIDE DEF q1, now, todo, O
<1>8. T1[Len(q1)].m = now /\ T1[Len(q1)].out = O \o OwedFor(aw) /\ T1[Len(q1)].todo = todo
  BY <1>6
<1>9. /\ q \in Seq(AxiReqs) /\ OwedOf(ar, now) \in Seq(Axi!Answers)
      /\ \E T : /\ AxiChain(q, T) /\ T[0] = T1[0]
                /\ T[Len(q)] = [m |-> now, out |-> (O \o OwedFor(aw)) \o OwedOf(ar, now), todo |-> todo]
  <2> DEFINE s == T1[Len(q1)]
  <2>1. /\ q \in Seq(AxiReqs) /\ OwedOf(ar, s.m) \in Seq(Axi!Answers)
        /\ \E T : /\ AxiChain(q, T) /\ T[0] = T1[0]
                  /\ T[Len(q)] = [m |-> s.m, out |-> s.out \o OwedOf(ar, s.m), todo |-> s.todo]
    BY <1>5, <1>6, ArFits
  <2> QED
    BY <1>8, <2>1
<1> DEFINE owed == OwedFor(aw) \o OwedOf(ar, now)
<1>10. PICK T : AxiChain(q, T) /\ T[0] = S[0]
                /\ T[Len(q)] = [m |-> now, out |-> (O \o OwedFor(aw)) \o OwedOf(ar, now), todo |-> todo]
  BY <1>6, <1>9
<1>11. T[Len(q)].m = now /\ T[Len(q)].todo = todo /\ T[Len(q)].out = O \o owed
  BY <1>4, <1>7, <1>9, <1>10, ConcatAssociative
<1>12. q = Axi!Arrived(aw, ar)
  BY DEF Axi!Arrived, q1, Given
<1>13. /\ beat => todo # << >>
       /\ Axi!Eval(aw, ar, w, rdy)
       /\ w_todo' = (IF beat THEN Tail(todo) ELSE todo)
       /\ latest' = now
       /\ due' = SubSeq(due, (IF port # None /\ popped THEN 1 ELSE 0) + 1, Len(due)) \o owed
       /\ sent' = sent + (IF aw = None THEN 0 ELSE 1) + (IF ar = None THEN 0 ELSE 1)
  BY DEF Axi!Edge, now, todo, WrittenBy, ToSend, OwedFor, OwedOf
<1> HIDE DEF q, owed
<1>14. todo \in Seq(Axi!Beats)
  <2>0. q \in Seq(AxiReqs)
    BY <1>9
  <2>1. T[Len(q)] \in AxiStages
    BY <2>0, <1>10 DEF AxiChain
  <2> QED
    BY <1>11, <2>1 DEF AxiStages
<1>15. beat => w = Head(todo) /\ w # None
  BY <1>13, <1>14, HeadTailProperties, AxiSizes
<1>16. ~beat => w = None
  OBVIOUS
<1>17. w # None => T[Len(q)].todo # << >> /\ w = Head(T[Len(q)].todo)
  BY <1>11, <1>13, <1>15, <1>16
<1> HIDE DEF w
<1>18. T[0] = [m |-> mem, out |-> resp_q, todo |-> << >>]
  BY <1>3, <1>10
<1>19. EvalLeaves(q, T, w)
  <2>1. EvalFinds(q, T, w)
    BY <1>9, <1>10, <1>17, <1>18 DEF EvalFinds
  <2>2. Axi!Eval(aw, ar, w, rdy)
    BY <1>13
  <2>3. PICK x : x = q
    OBVIOUS
  <2>4. PICK y : y = w
    OBVIOUS
  <2>5. x = Axi!Arrived(aw, ar) /\ EvalFinds(x, T, y) /\ Axi!Eval(aw, ar, y, rdy)
    BY <1>12, <2>1, <2>2, <2>3, <2>4
  <2>6. EvalLeaves(x, T, y)
    BY <2>5, EvalFits
  <2> QED
    BY <2>3, <2>4, <2>6
<1>20. due' = O \o owed
  <2>1. SubSeq(due, (IF port # None /\ popped THEN 1 ELSE 0) + 1, Len(due)) = O
    <3>1. CASE ~(port # None /\ popped)
      <4>1. due = O
        BY <1>3, <1>4, <3>1, ConcatEmptySeq DEF Gone
      <4>2. SubSeq(O, 1, Len(O)) = O
        BY <1>4, SubSeqFull
      <4> QED
        BY <3>1, <4>1, <4>2
    <3>2. CASE port # None /\ popped
      <4>1. due = <<port>> \o O
        BY <1>3, <3>2 DEF Gone
      <4>2. port \in Axi!Answers /\ <<port>> \in Seq(Axi!Answers)
        BY <1>1, <3>2
      <4>3. due \in Seq(Axi!Answers) /\ due # << >> /\ Tail(due) = O
        BY <1>4, <4>1, <4>2
      <4>4. Tail(due) = SubSeq(due, 2, Len(due))
        BY <4>3, TailIsSubSeq
      <4> QED
        BY <3>2, <4>3, <4>4
    <3> QED
      BY <3>1, <3>2
  <2> QED
    BY <1>13, <2>1
<1>21. sent' \in 0..AxiRequests
  <2>1. aw # None => sent < AxiRequests
    BY DEF Axi!AwChoices
  <2>2. ar # None => (IF aw = None THEN sent ELSE sent + 1) < AxiRequests
    BY DEF Axi!ArChoices
  <2> QED
    BY <1>1, <1>13, <2>1, <2>2, AxiSizes
<1>22. PICK U : /\ AxiChain(wait_q', U)
                /\ U[0] = [m |-> mem', out |-> resp_q', todo |-> << >>]
                /\ U[Len(wait_q')].m = T[Len(q)].m
                /\ U[Len(wait_q')].todo = IF w = None THEN T[Len(q)].todo ELSE Tail(T[Len(q)].todo)
                /\ T[Len(q)].out = Gone(port', popped') \o U[Len(wait_q')].out
  BY <1>19 DEF EvalLeaves
<1>23. U[Len(wait_q')].todo = w_todo'
  BY <1>11, <1>13, <1>15, <1>16, <1>22
<1>24. AxiStaged(U)'
  BY <1>11, <1>13, <1>20, <1>22, <1>23 DEF AxiStaged
<1> QED
  BY <1>19, <1>21, <1>24 DEF AxiInv, EvalLeaves

\* AxiInv is inductive.
LEMMA AxiInvInductive ==
  /\ Axi!Init => AxiInv
  /\ AxiInv /\ (Axi!Next \/ UNCHANGED Axi!vars) => AxiInv'
<1>1. ASSUME AxiInv, UNCHANGED Axi!vars PROVE AxiInv'
  BY <1>1 DEF AxiInv, AxiStaged, Axi!vars, Axi!memVars
<1>2. ASSUME AxiInv, Axi!Tick PROVE AxiInv'
  BY <1>2, EdgeFits DEF Axi!Tick
<1> QED
  BY <1>1, <1>2, AxiStarts DEF Axi!Next, Axi!Stopped

\* AxiInv gives the properties.
LEMMA AxiInvSuffices == AxiInv => Axi!AnswersInOrder /\ Axi!NoThrow
<1> SUFFICES ASSUME AxiInv PROVE Axi!AnswersInOrder /\ Axi!NoThrow
  OBVIOUS
<1>1. Axi!NoThrow
  BY DEF AxiInv, Axi!NoThrow
<1>2. ASSUME port # None PROVE due # << >> /\ port = Head(due)
  <2>1. PICK S : AxiStaged(S)
    BY DEF AxiInv
  <2>2. S[Len(wait_q)] \in AxiStages /\ wait_q \in Seq(AxiReqs)
    BY <2>1 DEF AxiStaged, AxiChain, AxiInv
  <2>3. S[Len(wait_q)].out \in Seq(Axi!Answers) /\ port \in Axi!Answers
    BY <1>2, <2>2 DEF AxiStages, AxiInv
  <2>4. CASE popped
    <3>1. due = <<port>> \o S[Len(wait_q)].out
      BY <1>2, <2>1, <2>4 DEF AxiStaged, Gone
    <3>2. <<port>> \in Seq(Axi!Answers) /\ <<port>> # << >> /\ Head(<<port>>) = port
      BY <2>3
    <3> QED
      BY <2>3, <3>1, <3>2, HeadOfConcat
  <2>5. CASE ~popped
    <3>1. due = S[Len(wait_q)].out
      BY <2>1, <2>3, <2>5, ConcatEmptySeq DEF AxiStaged, Gone
    <3>2. S[0].out # << >> /\ port = Head(S[0].out)
      BY <1>2, <2>1, <2>5 DEF AxiInv, AxiStaged, PortFirst
    <3> DEFINE f == [k \in 0..Len(wait_q) |-> S[k].out]
    <3>3. Growing(f, Len(wait_q), Axi!Answers)
      BY <2>1, <2>2, ChainGrows DEF AxiStaged
    <3>4. Len(wait_q) \in Nat /\ f[0] = S[0].out /\ f[Len(wait_q)] = S[Len(wait_q)].out
      BY <2>2
    <3> HIDE DEF f
    <3> QED
      BY <3>1, <3>2, <3>3, <3>4, GrowingHead
  <2> QED
    BY <2>4, <2>5
<1> QED
  BY <1>1, <1>2 DEF Axi!AnswersInOrder

-----------------------------------------------------------------------------
(* The unit test of the back end.                                          *)

\* What is assumed of the parameters.
LEMMA UtSizes ==
  /\ CsvLength \in Nat /\ UtRobSize \in Nat /\ UtRobSize >= 1 /\ UtMemLines \in Nat
  /\ \A l \in CsvLines : l.load \in BOOLEAN /\ l.size \in 0..3 /\ l.addr \in Ut!Addresses
  /\ None \notin [n : Nat, load : BOOLEAN, addr : Ut!Addresses, size : 0..3]
  /\ \A r \in Ut!Requests : Ut!Answer(r) = None => r = None
  /\ \A a \in Ut!Addresses : a \in Nat
BY PartsAssumption DEF Ut!BackendAssumption, Ut!AnswerAssumption, Ut!Addresses

\* A load of up to a word from the start of a line gets its digits.
LEMMA LowLoad ==
  ASSUME NEW a \in Ut!Addresses, NEW z \in 0..2, a % 8 = 0
  PROVE  Ut!resp_data(a, z) = Ut!BytesAt(a, z)
<1> DEFINE D == Ut!Digits(z)
           x == a \div 8
           s == Ut!m_mem(x)
<1>1. a \in Nat /\ x \in Nat /\ a = 8 * x
  BY UtSizes
<1>2. D \in {2, 4, 8} /\ D \in Nat /\ D \div 2 \in {1, 2, 4} /\ D = 2 * (D \div 2)
  <2>1. CASE z = 0
    BY <2>1 DEF Ut!Digits
  <2>2. CASE z = 1
    BY <2>2 DEF Ut!Digits
  <2>3. CASE z = 2
    BY <2>3 DEF Ut!Digits
  <2> QED
    BY <2>1, <2>2, <2>3
<1> HIDE DEF D, x
<1>3. Ut!Start(a, z) = 16 - D /\ Ut!End(a) = 15
  BY <1>1, <1>2 DEF Ut!Start, Ut!End, D
<1>4. s \in [1..16 -> Nat \X Nat] /\ \A p \in 1..16 : s[p] = <<x, p - 1>>
  BY <1>1 DEF Ut!m_mem
<1> HIDE DEF s
<1>5. s \in Seq(Nat \X Nat) /\ Len(s) = 16
  <2>1. s \in [1..16 -> Nat \X Nat] /\ 16 \in Nat
    BY <1>4
  <2>2. s \in Seq(Nat \X Nat)
    BY <2>1, SeqDef
  <2>3. DOMAIN s = 1..16 /\ DOMAIN s = 1..Len(s) /\ Len(s) \in Nat
    BY <2>1, <2>2, LenProperties
  <2> QED
    BY <2>2, <2>3
<1>6. Ut!resp_data(a, z) = SubSeq(s, 16 - D + 1, 16)
  <2>1. Ut!resp_data(a, z) = Ut!substr(s, 16 - D, 15)
    BY <1>2, <1>3 DEF Ut!resp_data, s, x
  <2>2. ~(16 - D + 15 < 16)
    BY <1>2
  <2> QED
    BY <1>5, <2>1, <2>2 DEF Ut!substr
<1> DEFINE u == SubSeq(s, 16 - D + 1, 16)
<1>7. u \in Seq(Nat \X Nat) /\ Len(u) = D /\ \A p \in 1..D : u[p] = <<x, 16 - D + p - 1>>
  <2>1. \A p \in (16 - D + 1)..16 : s[p] \in Nat \X Nat
    BY <1>2, <1>4
  <2>2. /\ u \in Seq(Nat \X Nat) /\ Len(u) = (IF 16 - D + 1 <= 16 THEN 16 - (16 - D + 1) + 1 ELSE 0)
        /\ \A p \in 1..(16 - (16 - D + 1) + 1) : u[p] = s[16 - D + 1 + p - 1]
    BY <1>2, <2>1, SubSeqProperties
  <2> HIDE DEF u
  <2>3. Len(u) = D
    BY <1>2, <2>2
  <2>4. ASSUME NEW p \in 1..D PROVE u[p] = <<x, 16 - D + p - 1>>
    <3>1. p \in 1..(16 - (16 - D + 1) + 1) /\ 16 - D + 1 + p - 1 = 16 - D + p /\ 16 - D + p \in 1..16
      BY <1>2
    <3>2. u[p] = s[16 - D + p]
      BY <2>2, <3>1
    <3>3. s[16 - D + p] = <<x, (16 - D + p) - 1>>
      BY <1>4, <3>1
    <3> QED
      BY <1>2, <3>2, <3>3
  <2> QED
    BY <2>2, <2>3, <2>4
<1>8. ASSUME NEW p \in 1..D
      PROVE  LET y == a + D \div 2 - 1 - (p - 1) \div 2
             IN <<y \div 8, 14 - 2 * (y % 8) + ((p - 1) % 2)>> = <<x, 16 - D + p - 1>>
  <2> DEFINE h == (p - 1) \div 2
             k == D \div 2 - 1 - h
             y == a + D \div 2 - 1 - h
  <2>1. h \in Nat /\ p - 1 = 2 * h + ((p - 1) % 2) /\ (p - 1) % 2 \in 0..1
    BY <1>2
  <2>2. k \in 0..3 /\ D = 2 * (k + 1 + h) /\ D \in Nat
    BY <1>2, <2>1
  <2>3. y = 8 * x + k
    BY <1>1, <1>2, <2>1
  <2> HIDE DEF y, k, h
  <2>4. y \div 8 = x /\ y % 8 = k
    BY <1>1, <2>2, <2>3
  <2>5. 14 - 2 * k + ((p - 1) % 2) = 16 - D + p - 1
    BY <2>1, <2>2
  <2> QED
    BY <2>4, <2>5 DEF y, h
<1>9. Ut!BytesAt(a, z) = [p \in 1..D |-> <<x, 16 - D + p - 1>>]
  BY <1>8 DEF Ut!BytesAt, D
<1>10. u = [p \in 1..D |-> u[p]]
  <2> HIDE DEF u
  <2> QED
    BY <1>7
<1> HIDE DEF u
<1> QED
  BY <1>6, <1>7, <1>9, <1>10 DEF u

\* Entries of the back end's ROB, and the instruction on its ports.
UtEntries == [lsq : 0..(UtRobSize - 1), load : BOOLEAN, addr : Ut!Addresses, size : 0..3,
              sent : BOOLEAN, done : BOOLEAN]
UtShown == [n : Nat, load : BOOLEAN, addr : Ut!Addresses, size : 0..3]

UtTypes ==
  /\ half \in {"neg", "pos"} /\ nread \in Nat /\ rob \in Seq(UtEntries)
  /\ shown = None \/ (shown \in UtShown /\ shown.n = nread)
  /\ req = None \/ req \in Ut!Requests
  /\ pend = None \/ pend \in Ut!Requests

\* Before the back end's edge the line on the ports is still to be taken if there
\* is room for it; after it none is.
UtTaken ==
  /\ taken \in Seq(Nat) /\ \A k \in 1..Len(taken) : taken[k] = k
  /\ Len(taken) \in {nread, nread - 1}
  /\ half = "neg" => Len(taken) = nread
  /\ status = "run" /\ half = "pos" =>
       Len(taken) = IF shown # None /\ Ut!rob_ready_out THEN nread - 1 ELSE nread

\* The request noted is the one on the ports, and the answer is that to a request.
UtAnswers ==
  /\ status = "run" /\ half = "neg" => pend = req
  /\ Ut!AnswerOfThisRequest
  /\ resp = None \/ \E r \in Ut!Requests : resp = Ut!Answer(r)

UtInv == UtTypes /\ UtTaken /\ UtAnswers

\* The loop starts before a rising edge, with nothing on the ports.
LEMMA UtStarts == Ut!Init => UtInv
BY UtSizes, EmptySeq DEF Ut!Init, UtInv, UtTypes, UtTaken, UtAnswers, Ut!AnswerOfThisRequest

\* The falling edge.
LEMMA UtNegEdge ==
  ASSUME UtInv, NEW l \in CsvLines, Ut!NegEdge(l)
  PROVE  UtInv'
<1>1. /\ status = "run" /\ half = "neg" /\ half' = "pos" /\ rob' = rob /\ req' = req /\ taken' = taken
      /\ pend = req /\ Len(taken) = nread
  BY DEF Ut!NegEdge, UtInv, UtTaken, UtAnswers
<1>2. Ut!rob_ready_out' = Ut!rob_ready_out
  BY <1>1 DEF Ut!rob_ready_out
<1>3. CASE ~Ut!rob_ready_out
  <2>1. pend' = req /\ nread' = nread /\ shown' = shown /\ resp' = resp /\ status' = status
    BY <1>3 DEF Ut!NegEdge, Ut!ReadsLine, Ut!Noted
  <2>2. UtTypes'
    BY <1>1, <2>1 DEF UtInv, UtTypes
  <2>3. UtTaken'
    BY <1>1, <1>2, <1>3, <2>1 DEF UtInv, UtTaken
  <2>4. UtAnswers'
    BY <1>1, <1>2, <1>3, <2>1 DEF UtInv, UtAnswers, Ut!AnswerOfThisRequest
  <2> QED
    BY <2>2, <2>3, <2>4 DEF UtInv
<1>4. CASE Ut!rob_ready_out /\ (nread = CsvLength \/ (nread < CsvLength /\ Ut!OutOfRange(pend)))
  <2>1. status' \in {"end", "thrown"} /\ nread' = nread /\ shown' = shown /\ resp' = resp /\ pend' = pend
    BY <1>4, UtSizes DEF Ut!NegEdge, Ut!ReadsLine, UtInv, UtTypes
  <2>2. UtTypes'
    BY <1>1, <2>1 DEF UtInv, UtTypes
  <2>3. UtTaken'
    BY <1>1, <2>1 DEF UtInv, UtTaken
  <2>4. UtAnswers'
    BY <1>1, <2>1 DEF UtInv, UtAnswers, Ut!AnswerOfThisRequest
  <2> QED
    BY <2>2, <2>3, <2>4 DEF UtInv
<1>5. CASE Ut!rob_ready_out /\ ~(nread = CsvLength \/ (nread < CsvLength /\ Ut!OutOfRange(pend)))
  <2>1. /\ nread' = nread + 1 /\ resp' = Ut!Answer(pend) /\ pend' = req /\ status' = status
        /\ shown' = [n |-> nread + 1, load |-> l.load, addr |-> l.addr, size |-> l.size]
    BY <1>5 DEF Ut!NegEdge, Ut!ReadsLine, Ut!Noted
  <2>2. nread \in Nat /\ shown' \in UtShown /\ shown'.n = nread' /\ shown' # None
    BY <2>1, UtSizes DEF UtInv, UtTypes, UtShown
  <2>3. UtTypes'
    BY <1>1, <2>1, <2>2 DEF UtInv, UtTypes
  <2>4. UtTaken'
    BY <1>1, <1>2, <1>5, <2>1, <2>2 DEF UtInv, UtTaken
  <2>5. CASE req = None
    <3>1. resp' = None
      BY <1>1, <2>1, <2>5 DEF Ut!Answer
    <3> QED
      BY <1>1, <2>1, <2>3, <2>4, <2>5, <3>1 DEF UtInv, UtAnswers, Ut!AnswerOfThisRequest
  <2>6. CASE req # None
    <3>1. req \in Ut!Requests /\ resp' = Ut!Answer(req)
      BY <1>1, <2>1, <2>6 DEF UtInv, UtTypes
    <3>2. resp' # None /\ resp'.lsq = req.lsq
      BY <2>6, <3>1, UtSizes DEF Ut!Answer
    <3>3. Ut!AnswerOfThisRequest'
      BY <1>1, <2>6, <3>2 DEF Ut!AnswerOfThisRequest
    <3>4. UtAnswers'
      BY <1>1, <3>1, <3>3 DEF UtAnswers
    <3> QED
      BY <2>3, <2>4, <3>4 DEF UtInv
  <2> QED
    BY <2>5, <2>6
<1> QED
  BY <1>3, <1>4, <1>5

\* The rising edge.
LEMMA UtPosEdge ==
  ASSUME UtInv, NEW com \in BOOLEAN, NEW pos \in 0..UtRobSize, Ut!PosEdge(com, pos)
  PROVE  UtInv'
<1> DEFINE told == [k \in DOMAIN rob |->
                      IF req # None /\ rob[k].load /\ rob[k].lsq = req.lsq
                      THEN [rob[k] EXCEPT !.sent = TRUE] ELSE rob[k]]
           answered == [k \in DOMAIN told |->
                          IF resp # None /\ told[k].sent /\ told[k].lsq = resp.lsq
                          THEN [told[k] EXCEPT !.done = TRUE] ELSE told[k]]
           takes == shown # None /\ Ut!rob_ready_out
           entered == IF takes THEN Append(answered, Ut!Accepted(shown)) ELSE answered
<1>1. /\ status = "run" /\ half = "pos" /\ half' = "neg"
      /\ nread' = nread /\ shown' = shown /\ resp' = resp /\ status' = status /\ pend' = req'
  BY DEF Ut!PosEdge, Ut!Noted
<1>2. /\ com => rob # << >>
      /\ pos # 0 => pos \in DOMAIN entered
      /\ req' = (IF pos = 0 THEN None
                 ELSE [lsq |-> entered[pos].lsq, addr |-> entered[pos].addr, size |-> entered[pos].size])
      /\ rob' = (IF com THEN Tail(entered) ELSE entered)
      /\ taken' = (IF takes THEN Append(taken, shown.n) ELSE taken)
  BY DEF Ut!PosEdge, Ut!BackendEdge
<1>3. /\ rob \in Seq(UtEntries) /\ nread \in Nat /\ taken \in Seq(Nat)
      /\ shown # None => shown \in UtShown /\ shown.n = nread
  BY DEF UtInv, UtTypes, UtTaken
<1>4. told \in Seq(UtEntries) /\ Len(told) = Len(rob)
  <2>1. ASSUME NEW k \in 1..Len(rob) PROVE told[k] \in UtEntries
    <3>1. rob[k] \in UtEntries /\ DOMAIN rob = 1..Len(rob)
      BY <1>3
    <3>2. [rob[k] EXCEPT !.sent = TRUE] \in UtEntries
      BY <3>1 DEF UtEntries
    <3> QED
      BY <3>1, <3>2
  <2>2. DOMAIN rob = 1..Len(rob) /\ Len(rob) \in Nat
    BY <1>3
  <2>3. told = [k \in 1..Len(rob) |-> told[k]]
    BY <2>2
  <2> HIDE DEF told
  <2>4. told \in [1..Len(rob) -> UtEntries]
    BY <2>1, <2>3
  <2> QED
    BY <2>2, <2>4
<1> HIDE DEF told
<1>5. answered \in Seq(UtEntries) /\ Len(answered) = Len(rob)
  <2>1. ASSUME NEW k \in 1..Len(told) PROVE answered[k] \in UtEntries
    <3>1. told[k] \in UtEntries /\ DOMAIN told = 1..Len(told)
      BY <1>4
    <3>2. [told[k] EXCEPT !.done = TRUE] \in UtEntries
      BY <3>1 DEF UtEntries
    <3> QED
      BY <3>1, <3>2
  <2>2. DOMAIN told = 1..Len(told) /\ Len(told) \in Nat
    BY <1>4
  <2>3. answered = [k \in 1..Len(told) |-> answered[k]]
    BY <2>2
  <2> HIDE DEF answered
  <2>4. answered \in [1..Len(told) -> UtEntries]
    BY <2>1, <2>3
  <2> QED
    BY <1>4, <2>2, <2>4
<1> HIDE DEF answered
<1>6. entered \in Seq(UtEntries) /\ (com => entered # << >>)
  <2>1. CASE takes
    <3>1. shown \in UtShown
      BY <1>3, <2>1
    <3>2. Ut!Accepted(shown) \in UtEntries
      <4>1. shown.n % UtRobSize \in 0..(UtRobSize - 1)
        BY <3>1, UtSizes DEF UtShown
      <4> QED
        BY <3>1, <4>1 DEF UtShown, UtEntries, Ut!Accepted
    <3> QED
      BY <1>5, <2>1, <3>2, AppendProperties
  <2>2. CASE ~takes
    <3>1. com => Len(rob) # 0
      BY <1>2, <1>3, EmptySeq
    <3>2. entered = answered
      BY <2>2
    <3> QED
      BY <1>5, <3>1, <3>2
  <2> QED
    BY <2>1, <2>2
<1> HIDE DEF entered
<1>7. rob' \in Seq(UtEntries)
  BY <1>2, <1>6, HeadTailProperties
<1>8. req' = None \/ req' \in Ut!Requests
  <2>1. CASE pos = 0
    BY <1>2, <2>1
  <2>2. CASE pos # 0
    <3>1. entered[pos] \in UtEntries
      BY <1>2, <1>6, <2>2
    <3> QED
      BY <1>2, <2>2, <3>1 DEF UtEntries, Ut!Requests
  <2> QED
    BY <2>1, <2>2
<1>9. UtTypes'
  BY <1>1, <1>7, <1>8 DEF UtInv, UtTypes
<1>10. UtTaken'
  <2>1. CASE takes
    <3>1. Len(taken) = nread - 1 /\ shown.n = nread
      BY <1>1, <1>3, <2>1 DEF UtInv, UtTaken
    <3>2. /\ taken' \in Seq(Nat) /\ Len(taken') = Len(taken) + 1
          /\ \A k \in 1..Len(taken) : taken'[k] = taken[k]
          /\ taken'[Len(taken) + 1] = nread
      BY <1>2, <1>3, <2>1, <3>1, AppendProperties
    <3>3. \A k \in 1..Len(taken') : taken'[k] = k
      BY <1>3, <3>1, <3>2 DEF UtInv, UtTaken
    <3> QED
      BY <1>1, <1>3, <3>1, <3>2, <3>3 DEF UtTaken
  <2>2. CASE ~takes
    <3>1. Len(taken) = nread /\ taken' = taken
      BY <1>1, <1>2, <2>2 DEF UtInv, UtTaken
    <3> QED
      BY <1>1, <3>1 DEF UtInv, UtTaken
  <2> QED
    BY <2>1, <2>2
<1>11. UtAnswers'
  BY <1>1 DEF UtInv, UtAnswers, Ut!AnswerOfThisRequest
<1> QED
  BY <1>9, <1>10, <1>11 DEF UtInv

\* UtInv is inductive.
LEMMA UtInvInductive ==
  /\ Ut!Init => UtInv
  /\ UtInv /\ (Ut!Next \/ UNCHANGED Ut!vars) => UtInv'
<1>1. ASSUME UtInv, UNCHANGED Ut!vars PROVE UtInv'
  BY <1>1 DEF UtInv, UtTypes, UtTaken, UtAnswers, Ut!AnswerOfThisRequest, Ut!rob_ready_out,
              Ut!vars, Ut!benchVars
<1>2. ASSUME UtInv, Ut!TimeOut PROVE UtInv'
  BY <1>2 DEF UtInv, UtTypes, UtTaken, UtAnswers, Ut!AnswerOfThisRequest, Ut!TimeOut
<1> QED
  BY <1>1, <1>2, UtStarts, UtNegEdge, UtPosEdge DEF Ut!Next, Ut!Exited

\* UtInv gives the properties.
LEMMA UtInvSuffices == UtInv => Ut!LinesTakenOnce /\ Ut!AnswerOfThisRequest /\ Ut!LowLoadsRight
<1> SUFFICES ASSUME UtInv PROVE Ut!LinesTakenOnce /\ Ut!LowLoadsRight
  BY DEF UtInv, UtAnswers
<1>1. Ut!LinesTakenOnce
  <2>1. taken \in Seq(Nat) /\ DOMAIN taken = 1..Len(taken)
    BY DEF UtInv, UtTaken
  <2>2. taken = [k \in DOMAIN taken |-> k]
    BY <2>1 DEF UtInv, UtTaken
  <2> QED
    BY <2>2 DEF UtInv, UtTaken, Ut!LinesTakenOnce
<1>2. Ut!LowLoadsRight
  <2> SUFFICES ASSUME resp # None, resp.addr % 8 = 0, resp.size < 3
               PROVE  resp.data = Ut!BytesAt(resp.addr, resp.size)
    BY DEF Ut!LowLoadsRight
  <2>1. PICK r \in Ut!Requests : resp = Ut!Answer(r)
    BY DEF UtInv, UtAnswers
  <2>2. r # None
    BY <2>1 DEF Ut!Answer
  <2>3. resp.addr = r.addr /\ resp.size = r.size /\ resp.data = Ut!resp_data(r.addr, r.size)
    BY <2>1, <2>2 DEF Ut!Answer
  <2>4. r.addr \in Ut!Addresses /\ r.size \in 0..2 /\ r.addr % 8 = 0
    BY <2>3 DEF Ut!Requests
  <2> QED
    BY <2>3, <2>4, LowLoad
<1> QED
  BY <1>1, <1>2

-----------------------------------------------------------------------------
(* The trace log.                                                          *)

\* Instructions in flight, of the kinds K, for the write ports U.
LogEntries(U, K) ==
  {e \in [pc : Nat, kind : K, rd : {0, 1}, prd : LogPRegs \cup {0}, unit : U,
          csr : LogCsrs \cup {None}, writes : BOOLEAN, val : LogValues, wval : LogValues,
          st : {"wait", "issued", "done"}] :
     /\ e.rd = 0 <=> e.prd = 0
     /\ e.kind \in {"store", "fence"} => e.rd = 0
     /\ IF e.kind = "csr" THEN e.unit = "alu" ELSE ~e.writes}

\* What is in flight (r) and the register file (f): no register is the destination of
\* two instructions, a finished one finds its value there, and a CSR access that was
\* issued is the oldest instruction.
StreamOK(r, f, U, K) ==
  /\ r \in Seq(LogEntries(U, K)) /\ DOMAIN f = LogPRegs
  /\ \A j, k \in 1..Len(r) : j # k /\ r[j].prd # 0 => r[j].prd # r[k].prd
  /\ \A k \in 1..Len(r) :
       /\ r[k].st = "done" /\ r[k].prd # 0 => f[r[k].prd] = r[k].val
       /\ r[k].st = "issued" => r[k].kind = "csr"
       /\ r[k].st # "wait" /\ r[k].kind = "csr" => k = 1

\* What an edge does: n commits, the instructions S write back, and the CSR access at
\* the head, if it moves, gets the state h.
LogMoves(r, S, n, h) ==
  /\ n \in {0, 1} /\ n <= Len(r) /\ (n = 1 => r[1].st = "done")
  /\ S \subseteq {k \in 1..Len(r) : r[k].st = "wait" /\ r[k].kind # "csr"}
  /\ \/ h = "stay"
     \/ h = "issued" /\ n = 0 /\ r # << >> /\ r[1].kind = "csr" /\ r[1].st = "wait"
     \/ h = "done" /\ n = 0 /\ r # << >> /\ r[1].kind = "csr" /\ r[1].st = "issued"

Become(e, s) == [e EXCEPT !.st = s]

Moved(r, S, h) ==
  [k \in 1..Len(r) |-> IF k \in S THEN Become(r[k], "done")
                       ELSE IF k = 1 /\ h # "stay" THEN Become(r[k], h) ELSE r[k]]

\* The instructions that write a register.
Writing(S, h) == S \cup (IF h = "done" THEN {1} ELSE {})

\* The register file f becomes g.
LogWritten(r, W, f, g) ==
  /\ DOMAIN g = DOMAIN f
  /\ \A p \in LogPRegs : \/ \E k \in W : r[k].prd = p /\ g[p] = r[k].val
                         \/ (\A k \in W : r[k].prd # p) /\ g[p] = f[p]

\* At most one instruction enters, with a register of its own.
Entering(r, fresh, U, K) ==
  \/ fresh = << >>
  \/ \E e \in LogEntries(U, K) : /\ fresh = <<e>> /\ e.st = "wait"
                                 /\ \A k \in 1..Len(r) : e.prd # 0 => r[k].prd # e.prd

\* What an edge leaves of an instruction in flight.
LEMMA MovedIs ==
  ASSUME NEW U, NEW K, NEW r \in Seq(LogEntries(U, K)), NEW S, NEW n, NEW h, LogMoves(r, S, n, h)
  PROVE  /\ Moved(r, S, h) \in Seq(LogEntries(U, K)) /\ Len(Moved(r, S, h)) = Len(r)
         /\ \A k \in 1..Len(r) :
              /\ Moved(r, S, h)[k] \in LogEntries(U, K) /\ r[k] \in LogEntries(U, K)
              /\ Moved(r, S, h)[k].prd = r[k].prd /\ Moved(r, S, h)[k].val = r[k].val
              /\ Moved(r, S, h)[k].kind = r[k].kind /\ Moved(r, S, h)[k].csr = r[k].csr
              /\ Moved(r, S, h)[k].writes = r[k].writes /\ Moved(r, S, h)[k].wval = r[k].wval
              /\ Moved(r, S, h)[k].st = IF k \in S THEN "done"
                                        ELSE IF k = 1 /\ h # "stay" THEN h ELSE r[k].st
<1> DEFINE M == Moved(r, S, h)
<1>1. \A k \in 1..Len(r) : r[k] \in LogEntries(U, K)
  OBVIOUS
<1>2. ASSUME NEW e \in LogEntries(U, K), NEW s \in {"wait", "issued", "done"}
      PROVE  /\ Become(e, s) \in LogEntries(U, K)
             /\ Become(e, s).prd = e.prd /\ Become(e, s).val = e.val
             /\ Become(e, s).kind = e.kind /\ Become(e, s).csr = e.csr
             /\ Become(e, s).writes = e.writes /\ Become(e, s).wval = e.wval
             /\ Become(e, s).st = s
  BY DEF LogEntries, Become
<1>3. h \in {"stay", "issued", "done"}
  BY DEF LogMoves
<1>4. Len(r) \in Nat
  OBVIOUS
<1>5. ASSUME NEW k \in 1..Len(r)
      PROVE  /\ M[k] \in LogEntries(U, K) /\ M[k].prd = r[k].prd /\ M[k].val = r[k].val
             /\ M[k].kind = r[k].kind /\ M[k].csr = r[k].csr
             /\ M[k].writes = r[k].writes /\ M[k].wval = r[k].wval
             /\ M[k].st = IF k \in S THEN "done" ELSE IF k = 1 /\ h # "stay" THEN h ELSE r[k].st
  <2>1. CASE k \in S
    BY <1>1, <1>2, <2>1 DEF Moved
  <2>2. CASE k \notin S /\ k = 1 /\ h # "stay"
    <3>1. h \in {"wait", "issued", "done"}
      BY <1>3, <2>2
    <3>2. M[k] = Become(r[k], h)
      BY <2>2 DEF Moved
    <3>3. M[k] \in LogEntries(U, K) /\ M[k].prd = r[k].prd /\ M[k].val = r[k].val
          /\ M[k].kind = r[k].kind /\ M[k].csr = r[k].csr
          /\ M[k].writes = r[k].writes /\ M[k].wval = r[k].wval /\ M[k].st = h
      BY <1>1, <1>2, <3>1, <3>2
    <3> QED
      BY <2>2, <3>3
  <2>3. CASE k \notin S /\ ~(k = 1 /\ h # "stay")
    BY <1>1, <2>3 DEF Moved
  <2> QED
    BY <2>1, <2>2, <2>3
<1>6. DOMAIN M = 1..Len(r)
  BY DEF Moved
<1>7. M \in Seq(LogEntries(U, K)) /\ Len(M) = Len(r)
  <2>1. M \in [1..Len(r) -> LogEntries(U, K)]
    BY <1>5 DEF Moved
  <2> QED
    BY <1>4, <2>1
<1> QED
  BY <1>1, <1>5, <1>7

\* An edge keeps the destinations apart and the values of finished instructions.
LEMMA StreamStep ==
  ASSUME NEW U, NEW K, NEW r \in Seq(LogEntries(U, K)), NEW f, NEW g,
         NEW n \in {0, 1}, n <= Len(r), NEW S \in SUBSET (1..Len(r)),
         NEW h \in {"stay", "issued", "done"}, NEW fresh \in Seq(LogEntries(U, K)),
         StreamOK(r, f, U, K), LogMoves(r, S, n, h), LogWritten(r, Writing(S, h), f, g),
         Entering(r, fresh, U, K)
  PROVE  StreamOK(SubSeq(Moved(r, S, h), n + 1, Len(r)) \o fresh, g, U, K)
<1> DEFINE M == Moved(r, S, h)
           D == SubSeq(M, n + 1, Len(r))
           Q == D \o fresh
<1>1. Len(r) \in Nat /\ n \in Nat /\ Len(r) - n \in Nat
  OBVIOUS
<1>2. /\ M \in Seq(LogEntries(U, K)) /\ Len(M) = Len(r)
      /\ \A k \in 1..Len(r) :
           /\ M[k] \in LogEntries(U, K) /\ r[k] \in LogEntries(U, K)
           /\ M[k].prd = r[k].prd /\ M[k].val = r[k].val /\ M[k].kind = r[k].kind
           /\ M[k].st = IF k \in S THEN "done" ELSE IF k = 1 /\ h # "stay" THEN h ELSE r[k].st
  BY <1>1, MovedIs
<1>3. D \in Seq(LogEntries(U, K)) /\ Len(D) = Len(r) - n /\ \A k \in 1..Len(D) : D[k] = M[k + n]
  BY <1>1, <1>2, SubSeqProperties
<1>4. fresh \in Seq(LogEntries(U, K)) /\ Len(fresh) \in {0, 1}
  BY DEF Entering
<1>5. /\ Q \in Seq(LogEntries(U, K)) /\ Len(Q) = Len(r) - n + Len(fresh)
      /\ \A k \in 1..(Len(r) - n) : Q[k] = M[k + n] /\ k + n \in 1..Len(r)
      /\ Len(fresh) = 1 => Q[Len(r) - n + 1] = fresh[1]
  <2>1. /\ Q \in Seq(LogEntries(U, K)) /\ Len(Q) = Len(D) + Len(fresh)
        /\ \A k \in 1..(Len(D) + Len(fresh)) :
             Q[k] = IF k <= Len(D) THEN D[k] ELSE fresh[k - Len(D)]
    BY <1>3, <1>4, ConcatProperties
  <2>2. Len(Q) = Len(r) - n + Len(fresh)
    BY <2>1, <1>3
  <2>3. ASSUME NEW k \in 1..(Len(r) - n) PROVE Q[k] = M[k + n] /\ k + n \in 1..Len(r)
    BY <1>1, <1>3, <1>4, <2>1
  <2>4. ASSUME Len(fresh) = 1 PROVE Q[Len(r) - n + 1] = fresh[1]
    <3> DEFINE m == Len(D)
    <3>1. m \in Nat /\ m = Len(r) - n
      BY <1>1, <1>3
    <3> HIDE DEF m, Q
    <3>2. Q[m + 1] = IF m + 1 <= m THEN D[m + 1] ELSE fresh[m + 1 - m]
      <4>1. m + 1 \in 1..(m + Len(fresh))
        BY <2>4, <3>1
      <4> HIDE DEF D
      <4> QED
        BY <2>1, <4>1 DEF m
    <3>3. ~(m + 1 <= m) /\ m + 1 - m = 1
      BY <3>1
    <3> QED
      BY <3>1, <3>2, <3>3
  <2> QED
    BY <2>1, <2>2, <2>3, <2>4
<1>6. Len(fresh) = 1 => /\ fresh[1] \in LogEntries(U, K) /\ fresh[1].st = "wait"
                      /\ \A k \in 1..Len(r) : fresh[1].prd # 0 => r[k].prd # fresh[1].prd
  <2>1. ASSUME Len(fresh) = 1
        PROVE  \E e \in LogEntries(U, K) :
                 /\ fresh = <<e>> /\ e.st = "wait"
                 /\ \A k \in 1..Len(r) : e.prd # 0 => r[k].prd # e.prd
    <3>1. fresh # << >>
      BY <2>1
    <3> QED
      BY <3>1 DEF Entering
  <2>2. ASSUME NEW e \in LogEntries(U, K), fresh = <<e>> PROVE fresh[1] = e
    BY <2>2
  <2> QED
    BY <2>1, <2>2
<1>7. DOMAIN g = LogPRegs
  BY DEF StreamOK, LogWritten
<1> HIDE DEF Q, D, M
<1>8. ASSUME NEW k \in 1..Len(Q)
      PROVE  \/ k + n \in 1..Len(r) /\ Q[k] = M[k + n]
             \/ k = Len(r) - n + 1 /\ Len(fresh) = 1 /\ Q[k] = fresh[1]
  <2> DEFINE m == Len(r) - n
  <2>1. m \in Nat /\ Len(Q) \in {m, m + 1} /\ (Len(Q) = m + 1 => Len(fresh) = 1)
    <3>1. m \in Nat /\ Len(Q) = m + Len(fresh)
      BY <1>1, <1>5
    <3> HIDE DEF m
    <3>2. CASE Len(fresh) = 0
      BY <3>1, <3>2
    <3>3. CASE Len(fresh) = 1
      BY <3>1, <3>3
    <3> QED
      BY <1>4, <3>2, <3>3
  <2>2. k \in 1..m \/ (k = m + 1 /\ Len(Q) = m + 1)
    <3> HIDE DEF m
    <3> QED
      BY <2>1
  <2>3. k \in 1..m => Q[k] = M[k + n] /\ k + n \in 1..Len(r)
    BY <1>5
  <2>4. ASSUME k = m + 1, Len(fresh) = 1 PROVE Q[k] = fresh[1]
    BY <1>5, <2>4
  <2> QED
    BY <2>1, <2>2, <2>3, <2>4
<1>9. ASSUME NEW j \in 1..Len(Q), NEW k \in 1..Len(Q), j # k, Q[j].prd # 0
       PROVE  Q[j].prd # Q[k].prd
  <2>1. CASE j + n \in 1..Len(r) /\ Q[j] = M[j + n] /\ k + n \in 1..Len(r) /\ Q[k] = M[k + n]
    <3>1. Q[j].prd = r[j + n].prd /\ Q[k].prd = r[k + n].prd
      BY <1>2, <2>1
    <3>2. j + n # k + n
      BY <1>1, <1>9
    <3> QED
      BY <2>1, <3>1, <3>2, <1>9 DEF StreamOK
  <2>2. CASE j + n \in 1..Len(r) /\ Q[j] = M[j + n] /\ Len(fresh) = 1 /\ Q[k] = fresh[1]
    <3>1. Q[j].prd = r[j + n].prd
      BY <1>2, <2>2
    <3> QED
      BY <2>2, <3>1, <1>6, <1>9
  <2>3. CASE k + n \in 1..Len(r) /\ Q[k] = M[k + n] /\ Len(fresh) = 1 /\ Q[j] = fresh[1]
    <3>1. Q[k].prd = r[k + n].prd
      BY <1>2, <2>3
    <3> QED
      BY <2>3, <3>1, <1>6, <1>9
  <2> QED
    BY <1>8, <1>9, <2>1, <2>2, <2>3
<1>10. ASSUME NEW k \in 1..Len(Q)
      PROVE  /\ Q[k].st = "done" /\ Q[k].prd # 0 => g[Q[k].prd] = Q[k].val
             /\ Q[k].st = "issued" => Q[k].kind = "csr"
             /\ Q[k].st # "wait" /\ Q[k].kind = "csr" => k = 1
  <2>1. CASE Len(fresh) = 1 /\ Q[k] = fresh[1]
    <3>1. Q[k].st = "wait"
      BY <1>6, <2>1
    <3> QED
      BY <3>1
  <2>2. CASE k + n \in 1..Len(r) /\ Q[k] = M[k + n]
    <3> DEFINE j == k + n
    <3>1. /\ j \in 1..Len(r) /\ Q[k].prd = r[j].prd /\ Q[k].val = r[j].val /\ Q[k].kind = r[j].kind
          /\ Q[k].st = IF j \in S THEN "done" ELSE IF j = 1 /\ h # "stay" THEN h ELSE r[j].st
      BY <1>2, <2>2
    <3> HIDE DEF j
    <3>2. ASSUME Q[k].st = "done", Q[k].prd # 0 PROVE g[Q[k].prd] = Q[k].val
      <4>1. r[j].prd \in LogPRegs
        BY <1>2, <3>1, <3>2 DEF LogEntries
      <4>2. CASE \E i1 \in Writing(S, h) : r[i1].prd = r[j].prd /\ g[r[j].prd] = r[i1].val
        <5>1. PICK i1 \in Writing(S, h) : r[i1].prd = r[j].prd /\ g[r[j].prd] = r[i1].val
          BY <4>2
        <5>2. i1 \in 1..Len(r)
          <6>1. h = "done" => 1 \in 1..Len(r)
            BY <1>1 DEF LogMoves
          <6> QED
            BY <5>1, <6>1 DEF Writing
        <5>3. i1 = j
          BY <3>1, <3>2, <5>1, <5>2 DEF StreamOK
        <5> QED
          BY <5>1, <5>3, <3>1
      <4>3. CASE (\A i1 \in Writing(S, h) : r[i1].prd # r[j].prd) /\ g[r[j].prd] = f[r[j].prd]
        <5>1. j \notin Writing(S, h)
          BY <4>3
        <5>2. r[j].st = "done"
          BY <3>1, <3>2, <5>1 DEF Writing, LogMoves
        <5> QED
          BY <3>1, <3>2, <4>3, <5>2 DEF StreamOK
      <4> QED
        BY <4>1, <4>2, <4>3 DEF LogWritten
    <3>3. ASSUME Q[k].st = "issued" PROVE Q[k].kind = "csr"
      BY <3>1, <3>3 DEF StreamOK, LogMoves
    <3>4. ASSUME Q[k].st # "wait", Q[k].kind = "csr" PROVE k = 1
      <4>1. j = 1
        BY <3>1, <3>4 DEF StreamOK, LogMoves
      <4> QED
        BY <4>1, <1>1 DEF j
    <3> QED
      BY <3>2, <3>3, <3>4
  <2> QED
    BY <1>8, <2>1, <2>2
<1> QED
  <2>1. StreamOK(Q, g, U, K)
    BY <1>5, <1>7, <1>10, <1>9 DEF StreamOK
  <2> QED
    BY <2>1 DEF Q, D, M

\* The same values.
Alike(f, g) == \A p \in LogPRegs : g[p] = f[p]

\* Two register files that are written by the same instructions stay equal.
LEMMA CopiesAgree ==
  ASSUME NEW U, NEW K, NEW r, NEW f, NEW g, NEW f2, NEW g2, NEW W,
         StreamOK(r, f, U, K), W \subseteq 1..Len(r), 0 \notin LogPRegs,
         LogWritten(r, W, f, f2), LogWritten(r, W, g, g2), Alike(f, g)
  PROVE  Alike(f2, g2)
<1> SUFFICES ASSUME NEW p \in LogPRegs PROVE g2[p] = f2[p]
  BY DEF Alike
<1>1. ASSUME NEW j \in W, NEW k \in W, r[j].prd = p, r[k].prd = p PROVE j = k
  BY <1>1 DEF StreamOK
<1>2. CASE \E k \in W : r[k].prd = p
  <2>1. PICK k \in W : r[k].prd = p
    BY <1>2
  <2>2. PICK j \in W : r[j].prd = p /\ f2[p] = r[j].val
    BY <2>1 DEF LogWritten
  <2>3. PICK l \in W : r[l].prd = p /\ g2[p] = r[l].val
    BY <2>1 DEF LogWritten
  <2> QED
    BY <1>1, <2>2, <2>3
<1>3. CASE \A k \in W : r[k].prd # p
  BY <1>3 DEF LogWritten, Alike
<1> QED
  BY <1>2, <1>3

\* The oldest instruction after an edge (Q) is the one before, or one that is not a CSR
\* access under way.
HeadKept(r, n, M, Q) ==
  IF n = 0 /\ r # << >> THEN Q # << >> /\ Q[1] = M[1]
  ELSE Q = << >> \/ Q[1].kind # "csr" \/ Q[1].st = "wait"

\* The oldest instruction leaves only by its commit.
LEMMA HeadAfter ==
  ASSUME NEW U, NEW K, NEW r \in Seq(LogEntries(U, K)), NEW f,
         NEW n \in {0, 1}, n <= Len(r), NEW S \in SUBSET (1..Len(r)),
         NEW h \in {"stay", "issued", "done"}, NEW fresh \in Seq(LogEntries(U, K)),
         StreamOK(r, f, U, K), LogMoves(r, S, n, h), Entering(r, fresh, U, K),
         NEW Q, Q = SubSeq(Moved(r, S, h), n + 1, Len(r)) \o fresh
  PROVE  HeadKept(r, n, Moved(r, S, h), Q)
<1> DEFINE M == Moved(r, S, h)
           D == SubSeq(M, n + 1, Len(r))
<1>1. Len(r) \in Nat /\ n \in Nat /\ Len(r) - n \in Nat
  OBVIOUS
<1>2. /\ M \in Seq(LogEntries(U, K)) /\ Len(M) = Len(r)
      /\ \A k \in 1..Len(r) :
           /\ M[k].kind = r[k].kind
           /\ M[k].st = IF k \in S THEN "done" ELSE IF k = 1 /\ h # "stay" THEN h ELSE r[k].st
  <2>1. LogMoves(r, S, n, h) /\ r \in Seq(LogEntries(U, K))
    OBVIOUS
  <2> HIDE DEF M
  <2>2. M = Moved(r, S, h)
    BY DEF M
  <2> QED
    BY <2>1, <2>2, MovedIs
<1>3. D \in Seq(LogEntries(U, K)) /\ Len(D) = Len(r) - n /\ \A k \in 1..Len(D) : D[k] = M[k + n]
  BY <1>1, <1>2, SubSeqProperties
<1>4. /\ Q \in Seq(LogEntries(U, K)) /\ Len(Q) = Len(D) + Len(fresh)
      /\ \A k \in 1..(Len(D) + Len(fresh)) :
           Q[k] = IF k <= Len(D) THEN D[k] ELSE fresh[k - Len(D)]
  BY <1>3, ConcatProperties
<1> HIDE DEF D
<1>5. CASE Len(D) > 0
  <2>1. Q # << >> /\ Q[1] = M[1 + n] /\ 1 + n \in 1..Len(r)
    <3>1. 1 \in 1..Len(D) /\ 1 \in 1..(Len(D) + Len(fresh)) /\ Len(Q) # 0
      BY <1>3, <1>4, <1>5
    <3>2. Q[1] = D[1] /\ D[1] = M[1 + n]
      BY <1>3, <1>4, <3>1
    <3>3. 1 + n \in 1..Len(r)
      BY <1>1, <1>3, <1>5
    <3> QED
      BY <3>1, <3>2, <3>3
  <2>2. n = 0 => Q[1] = M[1]
    BY <2>1
  <2>3. ASSUME n = 1 PROVE Q[1].kind # "csr" \/ Q[1].st = "wait"
    <3>1. 2 \in 1..Len(r) /\ Q[1] = M[2]
      BY <2>1, <2>3
    <3>2. r[2].kind # "csr" \/ r[2].st = "wait"
      BY <3>1 DEF StreamOK
    <3>3. 2 \in S => r[2].kind # "csr"
      BY DEF LogMoves
    <3> QED
      BY <1>2, <3>1, <3>2, <3>3
  <2>4. r # << >>
    BY <2>1
  <2> QED
    BY <2>1, <2>2, <2>3, <2>4 DEF HeadKept
<1>6. CASE Len(D) = 0
  <2>1. ASSUME Q # << >> PROVE Q[1].st = "wait"
    <3>1. Len(Q) \in Nat /\ Len(Q) # 0
      BY <1>4, <2>1
    <3>2. fresh # << >>
      BY <1>4, <1>6, <3>1
    <3>3. PICK e \in LogEntries(U, K) : fresh = <<e>> /\ e.st = "wait"
      BY <3>2 DEF Entering
    <3>4. fresh[1] = e /\ Len(fresh) = 1
      BY <3>3
    <3>5. Q[1] = fresh[1]
      BY <1>4, <1>6, <3>4
    <3> QED
      BY <3>3, <3>4, <3>5
  <2>2. n = 0 => r = << >>
    BY <1>3, <1>6
  <2> QED
    BY <2>1, <2>2 DEF HeadKept
<1>7. Len(D) \in Nat
  BY <1>3
<1>8. Len(D) > 0 \/ Len(D) = 0
  BY <1>7
<1> QED
  BY <1>5, <1>6, <1>8

\* The write ports U: a port shows the instruction of W that uses it, if there is one.
PortsShow(r, W, U, w) ==
  /\ \A u \in U : \/ w[u] = 0 /\ \A k \in W : r[k].unit = u => r[k].prd = 0
                  \/ w[u] # 0 /\ w[u] \in W /\ r[w[u]].unit = u /\ r[w[u]].prd # 0
  /\ \A x, y \in W : r[x].unit = r[y].unit => x = y

\* The register file f after the writes that the ports show.
FileAfter(r, f, U, w) ==
  [p \in LogPRegs |-> IF \E u \in U : w[u] # 0 /\ r[w[u]].prd = p
                      THEN r[CHOOSE k \in DOMAIN r : r[k].prd = p].val ELSE f[p]]

\* The register file of the core is written by the instructions that write back.
LEMMA FileWritten ==
  ASSUME NEW U, NEW K, NEW r \in Seq(LogEntries(U, K)), NEW f \in [LogPRegs -> LogValues],
         NEW W \in SUBSET (1..Len(r)), NEW w, StreamOK(r, f, U, K), PortsShow(r, W, U, w),
         0 \notin LogPRegs, NEW g, g = FileAfter(r, f, U, w)
  PROVE  LogWritten(r, W, f, g) /\ g \in [LogPRegs -> LogValues]
<1>1. ASSUME NEW p \in LogPRegs
      PROVE  /\ \/ \E k \in W : r[k].prd = p /\ g[p] = r[k].val
                \/ (\A k \in W : r[k].prd # p) /\ g[p] = f[p]
             /\ g[p] \in LogValues
  <2>1. CASE \E u \in U : w[u] # 0 /\ r[w[u]].prd = p
    <3>1. PICK u \in U : w[u] # 0 /\ r[w[u]].prd = p
      BY <2>1
    <3> DEFINE k == w[u]
               c == CHOOSE j \in DOMAIN r : r[j].prd = p
    <3>2. k \in W /\ k \in 1..Len(r) /\ r[k].prd = p
      BY <3>1 DEF PortsShow
    <3>3. DOMAIN r = 1..Len(r)
      OBVIOUS
    <3>4. c \in 1..Len(r) /\ r[c].prd = p
      BY <3>2, <3>3
    <3>5. g[p] = r[c].val
      BY <2>1 DEF FileAfter
    <3> HIDE DEF c, k
    <3>6. c = k
      BY <3>2, <3>4 DEF StreamOK
    <3>7. r[k].val \in LogValues
      BY <3>2 DEF LogEntries
    <3> QED
      BY <3>2, <3>5, <3>6, <3>7
  <2>2. CASE ~(\E u \in U : w[u] # 0 /\ r[w[u]].prd = p)
    <3>1. g[p] = f[p]
      BY <2>2 DEF FileAfter
    <3>2. ASSUME NEW k \in W, r[k].prd = p PROVE FALSE
      <4>1. r[k].unit \in U
        BY DEF LogEntries
      <4>2. w[r[k].unit] # 0 /\ w[r[k].unit] = k
        BY <3>2, <4>1 DEF PortsShow
      <4> QED
        BY <2>2, <3>2, <4>1, <4>2
    <3> QED
      BY <3>1, <3>2
  <2> QED
    BY <2>1, <2>2
<1>2. DOMAIN g = LogPRegs /\ g = [p \in LogPRegs |-> g[p]]
  BY DEF FileAfter
<1> QED
  BY <1>1, <1>2 DEF LogWritten

\* A copy of an instruction's result into a register file.
Noted(f, e) == [f EXCEPT ![e.prd] = e.val]

\* Port A is copied, then port B.
CopyA(c, r, w, A) == IF w[A] = 0 THEN c ELSE Noted(c, r[w[A]])
CopyAfter(c, r, w, A, B) == CopyA(CopyA(c, r, w, A), r, w, B)

\* The C++ copy is written by the same instructions, port A before port B.
LEMMA CopyWritten ==
  ASSUME NEW A, NEW B, A # B, NEW K, NEW r \in Seq(LogEntries({A, B}, K)), NEW f,
         NEW W \in SUBSET (1..Len(r)), NEW w, StreamOK(r, f, {A, B}, K),
         PortsShow(r, W, {A, B}, w), 0 \notin LogPRegs,
         NEW c \in [LogPRegs \cup {0} -> LogValues], NEW g,
         g = CopyAfter(c, r, w, A, B)
  PROVE  LogWritten(r, W, c, g) /\ g \in [LogPRegs \cup {0} -> LogValues]
<1> DEFINE F == [LogPRegs \cup {0} -> LogValues]
           m == CopyA(c, r, w, A)
<1>1. m = (IF w[A] = 0 THEN c ELSE Noted(c, r[w[A]]))
  BY DEF CopyA
<1>2. g = (IF w[B] = 0 THEN m ELSE Noted(m, r[w[B]]))
  BY DEF CopyA, CopyAfter
<1> HIDE DEF m
<1>3. ASSUME NEW o \in F, NEW k \in 1..Len(r)
      PROVE  /\ Noted(o, r[k]) \in F
             /\ \A p \in LogPRegs : Noted(o, r[k])[p] = IF p = r[k].prd THEN r[k].val ELSE o[p]
  <2>1. r[k].prd \in LogPRegs \cup {0} /\ r[k].val \in LogValues
    BY DEF LogEntries
  <2> QED
    BY <2>1 DEF Noted
<1>4. /\ w[A] # 0 => w[A] \in W /\ w[A] \in 1..Len(r)
      /\ w[B] # 0 => w[B] \in W /\ w[B] \in 1..Len(r)
  BY DEF PortsShow
<1>5. m \in F /\ \A p \in LogPRegs :
        m[p] = IF w[A] # 0 /\ p = r[w[A]].prd THEN r[w[A]].val ELSE c[p]
  <2>1. CASE w[A] = 0
    BY <1>1, <2>1
  <2>2. CASE w[A] # 0
    <3>1. m = Noted(c, r[w[A]]) /\ w[A] \in 1..Len(r)
      BY <1>4, <1>1, <2>2
    <3>2. /\ Noted(c, r[w[A]]) \in F
          /\ \A p \in LogPRegs :
               Noted(c, r[w[A]])[p] = IF p = r[w[A]].prd THEN r[w[A]].val ELSE c[p]
      BY <1>3, <3>1
    <3> QED
      BY <2>2, <3>1, <3>2
  <2> QED
    BY <2>1, <2>2
<1>6. g \in F /\ \A p \in LogPRegs :
        g[p] = IF w[B] # 0 /\ p = r[w[B]].prd THEN r[w[B]].val ELSE m[p]
  <2>1. CASE w[B] = 0
    BY <1>5, <1>2, <2>1
  <2>2. CASE w[B] # 0
    <3>1. g = Noted(m, r[w[B]]) /\ w[B] \in 1..Len(r)
      BY <1>4, <1>2, <2>2
    <3>2. /\ Noted(m, r[w[B]]) \in F
          /\ \A p \in LogPRegs :
               Noted(m, r[w[B]])[p] = IF p = r[w[B]].prd THEN r[w[B]].val ELSE m[p]
      BY <1>3, <1>5, <3>1
    <3> QED
      BY <2>2, <3>1, <3>2
  <2> QED
    BY <2>1, <2>2
<1>7. ASSUME NEW p \in LogPRegs
      PROVE  \/ \E k \in W : r[k].prd = p /\ g[p] = r[k].val
             \/ (\A k \in W : r[k].prd # p) /\ g[p] = c[p]
  <2>1. CASE w[B] # 0 /\ p = r[w[B]].prd
    BY <1>4, <1>6, <2>1
  <2>2. CASE ~(w[B] # 0 /\ p = r[w[B]].prd) /\ w[A] # 0 /\ p = r[w[A]].prd
    BY <1>4, <1>5, <1>6, <2>2
  <2>3. CASE ~(w[B] # 0 /\ p = r[w[B]].prd) /\ ~(w[A] # 0 /\ p = r[w[A]].prd)
    <3>1. g[p] = c[p]
      BY <1>5, <1>6, <2>3
    <3>2. ASSUME NEW k \in W, r[k].prd = p PROVE FALSE
      <4>1. r[k].unit \in {A, B}
        BY DEF LogEntries
      <4>2. w[r[k].unit] # 0 /\ w[r[k].unit] = k
        BY <3>2, <4>1 DEF PortsShow
      <4> QED
        BY <2>3, <3>2, <4>1, <4>2
    <3> QED
      BY <3>1, <3>2
  <2> QED
    BY <2>1, <2>2, <2>3
<1>8. DOMAIN g = DOMAIN c
  BY <1>6
<1> QED
  BY <1>6, <1>7, <1>8 DEF LogWritten

TraceUnits == {"alu", "lsu"}
TraceKinds == {"alu", "load", "store", "fence", "csr"}

\* The CSR access at the head was issued.
CsrUnderWay == rob # << >> /\ rob[1].kind = "csr" /\ rob[1].st # "wait"

\* What log_print and csr_monitor have noted belongs to the CSR access under way, but for
\* the write of an access that was thrown out.
CsrNoted ==
  /\ csr_monitor_read \in BOOLEAN /\ csr_need_print \in BOOLEAN /\ orphan \in BOOLEAN
  /\ orphan => csr_need_print
  /\ CsrUnderWay => /\ csr_monitor_read <=> rob[1].csr \in Trace!Traced
                    /\ csr_monitor_read => csr_name = rob[1].csr
  /\ ~orphan => /\ csr_need_print <=> /\ CsrUnderWay /\ rob[1].csr \in Trace!Traced
                                      /\ rob[1].st = "done" /\ rob[1].writes
                /\ csr_need_print => csr_value = Trace!Masked(rob[1].csr, rob[1].wval)

TraceFiles ==
  /\ pc \in Nat /\ StreamOK(rob, prf, TraceUnits, TraceKinds)
  /\ prf \in [LogPRegs -> LogValues] /\ preg \in [LogPRegs \cup {0} -> LogValues]
  /\ Trace!CopyInSync

TraceInv == TraceFiles /\ CsrNoted /\ Trace!TraceIsProgram

\* What moves at an edge of the core that is traced.
TraceMove(n) ==
  IF Trace!CsrIssues(n) THEN "issued" ELSE IF Trace!CsrWrites(n) THEN "done" ELSE "stay"

\* The registers and values of the core that is logged.
LEMMA LogConstants == 0 \notin LogPRegs /\ LogValues \subseteq Nat /\ 0 \in LogValues
<1>1. Trace!StreamAssumption
  BY PartsAssumption
<1> QED
  BY <1>1 DEF Trace!StreamAssumption

\* An edge of the core, in the terms of the lemmas above.
LEMMA TraceMoves ==
  ASSUME rob \in Seq(LogEntries(TraceUnits, TraceKinds)),
         NEW S \in Trace!WriteBacks, NEW n \in Trace!Commits
  PROVE  /\ n \in {0, 1} /\ n <= Len(rob) /\ S \in SUBSET (1..Len(rob))
         /\ TraceMove(n) \in {"stay", "issued", "done"}
         /\ LogMoves(rob, S, n, TraceMove(n))
         /\ Writing(S, TraceMove(n)) \in SUBSET (1..Len(rob))
<1>1. DOMAIN rob = 1..Len(rob) /\ Len(rob) \in Nat
  OBVIOUS
<1>2. n \in {0, 1} /\ n <= Len(rob) /\ \A k \in 1..n : rob[k].st = "done"
  BY DEF Trace!Commits
<1>3. n = 1 => rob[1].st = "done"
  BY <1>2
<1>4. S \subseteq {k \in 1..Len(rob) : rob[k].st = "wait" /\ rob[k].kind # "csr"}
  BY <1>1 DEF Trace!WriteBacks
<1>5. TraceMove(n) \in {"stay", "issued", "done"}
  BY DEF TraceMove
<1>6. /\ TraceMove(n) = "issued" => n = 0 /\ rob # << >> /\ rob[1].kind = "csr" /\ rob[1].st = "wait"
      /\ TraceMove(n) = "done" => n = 0 /\ rob # << >> /\ rob[1].kind = "csr" /\ rob[1].st = "issued"
  BY DEF TraceMove, Trace!CsrIssues, Trace!CsrWrites, Trace!CsrAtHead
<1>7. LogMoves(rob, S, n, TraceMove(n))
  BY <1>2, <1>3, <1>4, <1>5, <1>6 DEF LogMoves
<1>8. TraceMove(n) = "done" => 1 \in 1..Len(rob)
  BY <1>1, <1>6
<1> QED
  BY <1>2, <1>4, <1>5, <1>7, <1>8 DEF Writing

\* The ports show what writes back, and entries move as Moved says.
LEMMA TracePorts ==
  ASSUME rob \in Seq(LogEntries(TraceUnits, TraceKinds)),
         NEW S \in Trace!WriteBacks, NEW n \in Trace!Commits
  PROVE  /\ PortsShow(rob, Writing(S, TraceMove(n)), TraceUnits,
                      [u \in TraceUnits |-> Trace!Writer(S, n, u)])
         /\ [k \in DOMAIN rob |-> Trace!Progress(rob[k], k, S, n)] = Moved(rob, S, TraceMove(n))
<1> DEFINE h == TraceMove(n)
           W == Writing(S, h)
<1>1. DOMAIN rob = 1..Len(rob) /\ Len(rob) \in Nat
  OBVIOUS
<1>2. /\ S \in SUBSET (1..Len(rob)) /\ LogMoves(rob, S, n, h) /\ W \in SUBSET (1..Len(rob))
      /\ h \in {"stay", "issued", "done"}
  BY TraceMoves
<1>3. h = "done" <=> Trace!CsrWrites(n)
  BY DEF TraceMove, Trace!CsrIssues, Trace!CsrWrites, Trace!CsrAtHead
<1>4. h = "issued" <=> Trace!CsrIssues(n)
  BY DEF TraceMove
<1>5. W = S \cup (IF Trace!CsrWrites(n) THEN {1} ELSE {})
  BY <1>3 DEF Writing
<1>6. ASSUME NEW u \in TraceUnits
      PROVE  \/ Trace!Writer(S, n, u) = 0 /\ \A k \in W : rob[k].unit = u => rob[k].prd = 0
             \/ /\ Trace!Writer(S, n, u) # 0 /\ Trace!Writer(S, n, u) \in W
                /\ rob[Trace!Writer(S, n, u)].unit = u /\ rob[Trace!Writer(S, n, u)].prd # 0
  <2> DEFINE P == {k \in W : rob[k].unit = u /\ Trace!WritesRd(rob[k])}
  <2>1. Trace!Writer(S, n, u) = IF P = {} THEN 0 ELSE CHOOSE k \in P : TRUE
    BY <1>5 DEF Trace!Writer
  <2>2. \A k \in W : k \in P <=> rob[k].unit = u /\ rob[k].prd # 0
    BY DEF Trace!WritesRd
  <2>3. P \subseteq W
    OBVIOUS
  <2> HIDE DEF P
  <2>4. CASE P = {}
    BY <2>1, <2>2, <2>4
  <2>5. CASE P # {}
    <3>1. Trace!Writer(S, n, u) \in P
      BY <2>1, <2>5
    <3>2. Trace!Writer(S, n, u) \in W /\ Trace!Writer(S, n, u) \in 1..Len(rob)
      BY <1>2, <2>3, <3>1
    <3> QED
      BY <1>1, <2>2, <3>1, <3>2
  <2> QED
    BY <2>4, <2>5
<1>7. ASSUME NEW x \in W, NEW y \in W, rob[x].unit = rob[y].unit PROVE x = y
  <2>1. \A a, b \in S : rob[a].unit = rob[b].unit => a = b
    BY DEF Trace!WriteBacks
  <2>2. ASSUME h = "done" PROVE rob[1].unit = "alu" /\ \A a \in S : rob[a].unit # "alu"
    <3>1. Trace!CsrAtHead("issued") /\ 1 \in 1..Len(rob)
      BY <1>1, <1>3, <2>2 DEF Trace!CsrWrites, Trace!CsrAtHead
    <3>2. rob[1].unit = "alu"
      BY <3>1 DEF Trace!CsrAtHead, LogEntries
    <3> QED
      BY <3>1, <3>2 DEF Trace!WriteBacks
  <2> QED
    BY <1>7, <2>1, <2>2 DEF Writing
<1>8. PortsShow(rob, W, TraceUnits, [u \in TraceUnits |-> Trace!Writer(S, n, u)])
  BY <1>6, <1>7 DEF PortsShow
<1>9. ASSUME NEW k \in 1..Len(rob)
      PROVE  Trace!Progress(rob[k], k, S, n) =
               IF k \in S THEN Become(rob[k], "done")
               ELSE IF k = 1 /\ h # "stay" THEN Become(rob[k], h) ELSE rob[k]
  <2> HIDE DEF h
  <2>1. rob[k] \in LogEntries(TraceUnits, TraceKinds)
    OBVIOUS
  <2>2. ASSUME NEW e \in LogEntries(TraceUnits, TraceKinds)
        PROVE  Trace!Progress(e, k, S, n) =
               IF k \in S THEN Become(e, "done")
               ELSE IF k = 1 /\ h # "stay" THEN Become(e, h) ELSE e
    <3>1. CASE k \in S
      <4>1. ~(k = 1 /\ (Trace!CsrIssues(n) \/ Trace!CsrWrites(n)))
        BY <1>2, <1>3, <1>4, <3>1 DEF LogMoves
      <4>2. Trace!Progress(e, k, S, n) = Become(e, "done")
        BY <3>1, <4>1 DEF Trace!Progress, Become
      <4> QED
        BY <3>1, <4>2
    <3>2. CASE k \notin S /\ k = 1 /\ h = "issued"
      <4>1. Trace!Progress(e, k, S, n) = Become(e, "issued")
        BY <1>3, <1>4, <3>2 DEF Trace!Progress, Become
      <4> QED
        BY <3>2, <4>1
    <3>3. CASE k \notin S /\ k = 1 /\ h = "done"
      <4>1. Trace!Progress(e, k, S, n) = Become(e, "done")
        BY <1>3, <1>4, <3>3 DEF Trace!Progress, Become
      <4> QED
        BY <3>3, <4>1
    <3>4. CASE k \notin S /\ ~(k = 1 /\ h # "stay")
      BY <1>2, <1>3, <1>4, <3>4 DEF Trace!Progress, Become
    <3> QED
      BY <1>2, <3>1, <3>2, <3>3, <3>4
  <2> QED
    BY <2>1, <2>2
<1>10. [k \in DOMAIN rob |-> Trace!Progress(rob[k], k, S, n)] = Moved(rob, S, h)
  BY <1>1, <1>9 DEF Moved
<1> QED
  BY <1>8, <1>10

\* What is allocated has a register that nothing in flight has.
LEMMA TraceEnters ==
  ASSUME rob \in Seq(LogEntries(TraceUnits, TraceKinds)), pc \in Nat,
         NEW fresh \in Trace!Allocations
  PROVE  /\ fresh \in Seq(LogEntries(TraceUnits, TraceKinds)) /\ Len(fresh) \in {0, 1}
         /\ Entering(rob, fresh, TraceUnits, TraceKinds)
<1>1. CASE fresh = << >>
  BY <1>1 DEF Entering
<1>2. CASE fresh # << >>
  <2> DEFINE q == CHOOSE p \in Trace!FreePRegs : TRUE
  <2>1. Trace!FreePRegs # {} /\ \E e \in Trace!Instructions(pc, q) : fresh = <<e>>
    BY <1>2 DEF Trace!Allocations, Trace!Room
  <2>2. PICK e \in Trace!Instructions(pc, q) : fresh = <<e>>
    BY <2>1
  <2>3. q \in Trace!FreePRegs
    BY <2>1
  <2> HIDE DEF q
  <2>4. q \in LogPRegs /\ \A k \in 1..Len(rob) : rob[k].prd # q
    BY <2>3 DEF Trace!FreePRegs
  <2>5. e \in LogEntries(TraceUnits, TraceKinds) /\ e.st = "wait" /\ e.prd \in {0, q}
    BY <2>4 DEF Trace!Instructions, LogEntries, TraceUnits, TraceKinds
  <2>6. Entering(rob, fresh, TraceUnits, TraceKinds)
    BY <2>2, <2>4, <2>5 DEF Entering
  <2>7. fresh \in Seq(LogEntries(TraceUnits, TraceKinds)) /\ Len(fresh) = 1
    BY <2>2, <2>5
  <2> QED
    BY <2>6, <2>7
<1> QED
  BY <1>1, <1>2

\* What is in flight after an edge.
RobAfter(S, n, fresh, fault) ==
  IF fault THEN << >> ELSE SubSeq(Moved(rob, S, TraceMove(n)), n + 1, Len(rob)) \o fresh

\* An edge keeps the register file, its copy and the instructions in flight.
LEMMA TraceFilesStep ==
  ASSUME TraceFiles, NEW S \in Trace!WriteBacks, NEW n \in Trace!Commits,
         NEW fresh \in Trace!Allocations, NEW fault \in BOOLEAN,
         Trace!CoreEdge(S, n, fresh, fault), preg' = Trace!Sync(preg, S, n)
  PROVE  /\ TraceFiles'
         /\ rob' = RobAfter(S, n, fresh, fault)
<1> DEFINE E == LogEntries(TraceUnits, TraceKinds)
           h == TraceMove(n)
           W == Writing(S, h)
           w == [u \in TraceUnits |-> Trace!Writer(S, n, u)]
<1>1. /\ rob \in Seq(E) /\ pc \in Nat /\ StreamOK(rob, prf, TraceUnits, TraceKinds)
      /\ prf \in [LogPRegs -> LogValues] /\ preg \in [LogPRegs \cup {0} -> LogValues]
  BY DEF TraceFiles, StreamOK
<1>2. /\ n \in {0, 1} /\ n <= Len(rob) /\ S \in SUBSET (1..Len(rob))
      /\ h \in {"stay", "issued", "done"} /\ LogMoves(rob, S, n, h) /\ W \in SUBSET (1..Len(rob))
  BY <1>1, TraceMoves
<1>3. /\ PortsShow(rob, W, TraceUnits, w)
      /\ [k \in DOMAIN rob |-> Trace!Progress(rob[k], k, S, n)] = Moved(rob, S, h)
  BY <1>1, TracePorts
<1>4. /\ fresh \in Seq(E) /\ Len(fresh) \in {0, 1}
      /\ Entering(rob, fresh, TraceUnits, TraceKinds)
  BY <1>1, TraceEnters
<1>5. rob' = RobAfter(S, n, fresh, fault) /\ pc' \in Nat
  <2>1. pc' = pc + Len(fresh)
    BY DEF Trace!CoreEdge
  <2>2. pc' \in Nat
    BY <1>1, <1>4, <2>1
  <2>3. rob' = IF fault THEN << >>
               ELSE SubSeq([k \in DOMAIN rob |-> Trace!Progress(rob[k], k, S, n)], n + 1, Len(rob))
                      \o fresh
    BY DEF Trace!CoreEdge
  <2> QED
    BY <1>3, <2>2, <2>3 DEF RobAfter
<1>6. LogWritten(rob, W, prf, prf') /\ prf' \in [LogPRegs -> LogValues]
  <2>1. prf' = FileAfter(rob, prf, TraceUnits, w)
    BY DEF Trace!CoreEdge, TraceUnits, FileAfter
  <2> HIDE DEF w, W
  <2> QED
    BY <1>1, <1>2, <1>3, <2>1, LogConstants, FileWritten
<1>7. LogWritten(rob, W, preg, preg') /\ preg' \in [LogPRegs \cup {0} -> LogValues]
  <2>1. preg' = CopyAfter(preg, rob, w, "alu", "lsu")
    BY DEF Trace!Sync, TraceUnits, Noted, CopyA, CopyAfter
  <2> HIDE DEF w, W
  <2>2. "alu" # "lsu"
    OBVIOUS
  <2>3. /\ rob \in Seq(LogEntries({"alu", "lsu"}, TraceKinds))
        /\ StreamOK(rob, prf, {"alu", "lsu"}, TraceKinds) /\ PortsShow(rob, W, {"alu", "lsu"}, w)
        /\ W \in SUBSET (1..Len(rob)) /\ preg \in [LogPRegs \cup {0} -> LogValues]
        /\ 0 \notin LogPRegs
    BY <1>1, <1>2, <1>3, LogConstants DEF TraceUnits
  <2> QED
    BY <2>1, <2>2, <2>3, CopyWritten
<1>8. StreamOK(rob', prf', TraceUnits, TraceKinds)
  <2>1. CASE fault
    <3>1. rob' = << >>
      BY <1>5, <2>1 DEF RobAfter
    <3> QED
      BY <1>6, <3>1 DEF StreamOK
  <2>2. CASE ~fault
    <3>1. rob' = SubSeq(Moved(rob, S, h), n + 1, Len(rob)) \o fresh
      BY <1>5, <2>2 DEF RobAfter
    <3> QED
      BY <1>1, <1>2, <1>4, <1>6, <3>1, StreamStep
  <2> QED
    BY <2>1, <2>2
<1>9. Trace!CopyInSync'
  <2>1. Alike(prf, preg)
    BY DEF TraceFiles, Trace!CopyInSync, Alike
  <2> HIDE DEF W
  <2>2. Alike(prf', preg')
    BY <1>1, <1>2, <1>6, <1>7, <2>1, LogConstants, CopiesAgree
  <2> QED
    BY <2>2 DEF Trace!CopyInSync, Alike
<1> QED
  BY <1>5, <1>6, <1>7, <1>8, <1>9 DEF TraceFiles

\* The bits of a CSR write that the trace keeps are those that the CSR holds.
LEMMA MaskedIsHeld == \A c, v : v \in Nat => Trace!Held(c, v) = Trace!Masked(c, v)
<1> SUFFICES ASSUME NEW c, NEW v \in Nat PROVE Trace!Held(c, v) = Trace!Masked(c, v)
  OBVIOUS
<1>1. (CHOOSE x \in 0..v : x % 4 = 0 /\ v - x < 4) = v - (v % 4)
  <2>1. v - (v % 4) \in 0..v /\ (v - (v % 4)) % 4 = 0 /\ v - (v - (v % 4)) < 4
    OBVIOUS
  <2>2. \A x \in 0..v : x % 4 = 0 /\ v - x < 4 => x = v - (v % 4)
    OBVIOUS
  <2> QED
    BY <2>1, <2>2
<1>2. (CHOOSE x \in 0..15 : \E q \in 0..v : v = 16 * q + x) = v % 16
  <2>1. v % 16 \in 0..15 /\ v \div 16 \in 0..v /\ v = 16 * (v \div 16) + (v % 16)
    OBVIOUS
  <2>2. \A x \in 0..15 : \A q \in 0..v : v = 16 * q + x => x = v % 16
    OBVIOUS
  <2> QED
    BY <2>1, <2>2
<1> QED
  BY <1>1, <1>2 DEF Trace!Held, Trace!Masked

\* The entry of a commit is what the trace should gain.
LEMMA EntryIsExpected ==
  ASSUME TraceFiles, CsrNoted, rob # << >>, rob[1].st = "done"
  PROVE  Trace!Agree(Trace!Entry(rob[1]), Trace!Expected(rob[1]))
<1>1. 1 \in 1..Len(rob) /\ rob[1] \in LogEntries(TraceUnits, TraceKinds)
  BY DEF TraceFiles, StreamOK
<1>2. /\ rob[1].kind \in TraceKinds /\ rob[1].rd \in {0, 1} /\ rob[1].writes \in BOOLEAN
      /\ rob[1].wval \in Nat /\ (rob[1].rd # 0 => rob[1].prd \in LogPRegs /\ rob[1].prd # 0)
      /\ rob[1].kind \in {"store", "fence"} => rob[1].rd = 0
      /\ rob[1].kind # "csr" => ~rob[1].writes
  BY <1>1, LogConstants DEF LogEntries
<1>3. ASSUME rob[1].rd # 0 PROVE preg[rob[1].prd] = rob[1].val
  <2>1. prf[rob[1].prd] = rob[1].val
    BY <1>1, <1>2, <1>3 DEF TraceFiles, StreamOK
  <2> QED
    BY <1>2, <1>3, <2>1 DEF TraceFiles, Trace!CopyInSync
<1> DEFINE T == rob[1].csr \in Trace!Traced
           A == IF rob[1].kind = "csr" /\ csr_need_print THEN <<csr_name, csr_value>> ELSE << >>
           B == IF rob[1].writes /\ T
                THEN <<rob[1].csr, Trace!Held(rob[1].csr, rob[1].wval)>> ELSE << >>
           C == IF \/ rob[1].kind \in {"alu", "load"} /\ rob[1].rd # 0
                   \/ rob[1].kind = "csr" /\ rob[1].rd # 0 /\ csr_monitor_read
                THEN <<preg[rob[1].prd]>> ELSE << >>
           D == IF rob[1].rd # 0 /\ (rob[1].kind = "csr" => T) THEN <<rob[1].val>> ELSE << >>
<1>4. rob[1].kind = "csr" => /\ csr_monitor_read <=> T
                             /\ ~orphan => (csr_need_print <=> (T /\ rob[1].writes))
  BY DEF CsrNoted, CsrUnderWay
<1>5. ASSUME ~orphan, csr_need_print
      PROVE  csr_name = rob[1].csr /\ csr_value = Trace!Held(rob[1].csr, rob[1].wval)
  <2>1. csr_value = Trace!Masked(rob[1].csr, rob[1].wval) /\ csr_name = rob[1].csr
    BY <1>5 DEF CsrNoted
  <2> QED
    BY <1>2, <2>1, MaskedIsHeld
<1>6. ASSUME ~orphan PROVE A = B
  <2>1. (rob[1].kind = "csr" /\ csr_need_print) <=> (rob[1].writes /\ T)
    BY <1>2, <1>4, <1>6
  <2> QED
    BY <1>5, <1>6, <2>1
<1>7. C = D
  <2>1. (\/ rob[1].kind \in {"alu", "load"} /\ rob[1].rd # 0
         \/ rob[1].kind = "csr" /\ rob[1].rd # 0 /\ csr_monitor_read)
        <=> (rob[1].rd # 0 /\ (rob[1].kind = "csr" => T))
    BY <1>2, <1>4 DEF TraceKinds
  <2> QED
    BY <1>3, <2>1
<1>8. Trace!Entry(rob[1]) = [pc |-> rob[1].pc, csr |-> A, x |-> C]
  BY DEF Trace!Entry, Trace!Register
<1>9. Trace!Expected(rob[1]) = [pc |-> rob[1].pc, csr |-> B, x |-> D, sure |-> ~orphan]
  BY DEF Trace!Expected
<1> HIDE DEF A, B, C, D
<1>10. Trace!Entry(rob[1]).csr = A /\ Trace!Entry(rob[1]).x = C /\ Trace!Entry(rob[1]).pc = rob[1].pc
  BY <1>8
<1>11. /\ Trace!Expected(rob[1]).csr = B /\ Trace!Expected(rob[1]).x = D
       /\ Trace!Expected(rob[1]).pc = rob[1].pc /\ Trace!Expected(rob[1]).sure = ~orphan
  BY <1>9
<1>12. ASSUME Trace!Expected(rob[1]).sure PROVE A = B
  BY <1>6, <1>11, <1>12
<1> QED
  BY <1>7, <1>10, <1>11, <1>12 DEF Trace!Agree

\* The notes about a CSR access are made with its issue and its write, and dropped with
\* its commit; a fault orphans them.
LEMMA CsrNotedStep ==
  ASSUME TraceFiles, CsrNoted, NEW S \in Trace!WriteBacks, NEW n \in Trace!Commits,
         NEW fresh \in Trace!Allocations, NEW fault \in BOOLEAN,
         Trace!csr_monitor(n), Trace!log_print(n), Trace!LeavesOrphan(n, fault),
         rob' = RobAfter(S, n, fresh, fault)
  PROVE  CsrNoted'
<1> DEFINE E == LogEntries(TraceUnits, TraceKinds)
           h == TraceMove(n)
           M == Moved(rob, S, h)
<1>1. rob \in Seq(E) /\ pc \in Nat /\ StreamOK(rob, prf, TraceUnits, TraceKinds)
  BY DEF TraceFiles, StreamOK
<1>2. /\ n \in {0, 1} /\ n <= Len(rob) /\ S \in SUBSET (1..Len(rob))
      /\ h \in {"stay", "issued", "done"} /\ LogMoves(rob, S, n, h)
  BY <1>1, TraceMoves
<1>3. fresh \in Seq(E) /\ Entering(rob, fresh, TraceUnits, TraceKinds)
  BY <1>1, TraceEnters
<1>4. /\ n = 0 /\ rob # << >> /\ ~fault => rob' # << >> /\ rob'[1] = M[1]
      /\ n = 1 \/ rob = << >> \/ fault
           => rob' = << >> \/ rob'[1].kind # "csr" \/ rob'[1].st = "wait"
  <2>1. fault => rob' = << >>
    BY DEF RobAfter
  <2>2. ASSUME ~fault PROVE HeadKept(rob, n, M, rob')
    <3>1. rob' = SubSeq(M, n + 1, Len(rob)) \o fresh
      BY <2>2 DEF RobAfter
    <3> QED
      BY <1>1, <1>2, <1>3, <3>1, HeadAfter
  <2> QED
    BY <1>2, <2>1, <2>2 DEF HeadKept
<1>5. rob # << >> => /\ M[1].kind = rob[1].kind /\ M[1].csr = rob[1].csr
                     /\ M[1].writes = rob[1].writes /\ M[1].wval = rob[1].wval
                     /\ M[1].st = IF 1 \in S THEN "done" ELSE IF h # "stay" THEN h ELSE rob[1].st
  <2>1. rob # << >> => 1 \in 1..Len(rob)
    BY <1>1
  <2> QED
    BY <1>1, <1>2, <2>1, MovedIs
<1> HIDE DEF M, h
<1>6. 1 \in S => rob[1].kind # "csr"
  BY <1>2 DEF LogMoves
<1>7. /\ csr_need_print' \in BOOLEAN /\ orphan' \in BOOLEAN
      /\ csr_need_print' <=> (Trace!Seen(n) \/ (csr_need_print /\ ~Trace!CommitsCsr(n)))
      /\ orphan' <=> (csr_need_print' /\ (fault \/ (orphan /\ ~Trace!Seen(n))))
  BY DEF CsrNoted, Trace!csr_monitor, Trace!LeavesOrphan
<1>8. csr_monitor_read' \in BOOLEAN
  <2>1. CASE Trace!CsrIssues(n)
    BY <2>1 DEF Trace!log_print, Trace!Issue
  <2>2. CASE ~Trace!CsrIssues(n)
    BY <2>2 DEF Trace!log_print, Trace!ReadAfter
  <2> QED
    BY <2>1, <2>2
<1>9. CASE n = 1 \/ rob = << >> \/ fault
  <2>1. ~CsrUnderWay'
    BY <1>4, <1>9 DEF CsrUnderWay
  <2>2. ASSUME ~orphan' PROVE ~csr_need_print'
    <3> SUFFICES ASSUME csr_need_print' PROVE FALSE
      OBVIOUS
    <3>1. ~fault /\ ~(orphan /\ ~Trace!Seen(n))
      BY <1>7, <2>2
    <3>2. ~Trace!Seen(n)
      BY <1>9, <3>1 DEF Trace!Seen, Trace!CsrWrites, Trace!CsrAtHead
    <3>3. csr_need_print /\ ~Trace!CommitsCsr(n) /\ ~orphan
      BY <1>7, <3>1, <3>2
    <3>4. CsrUnderWay
      BY <3>3 DEF CsrNoted
    <3> QED
      BY <1>9, <3>1, <3>3, <3>4 DEF CsrUnderWay, Trace!CommitsCsr
  <2> QED
    BY <1>7, <1>8, <2>1, <2>2 DEF CsrNoted
<1>10. CASE n = 0 /\ rob # << >> /\ ~fault
  <2>1. rob' # << >> /\ rob'[1] = M[1] /\ ~Trace!CommitsCsr(n)
    BY <1>4, <1>10 DEF Trace!CommitsCsr
  <2>2. CASE Trace!CsrIssues(n)
    <3>1. /\ h = "issued" /\ rob[1].kind = "csr" /\ rob[1].st = "wait" /\ ~Trace!Seen(n)
      BY <2>2 DEF h, TraceMove, Trace!CsrIssues, Trace!CsrWrites, Trace!CsrAtHead, Trace!Seen
    <3>2. CsrUnderWay' /\ rob'[1].st = "issued" /\ rob'[1].csr = rob[1].csr
      BY <1>5, <1>6, <1>10, <2>1, <3>1 DEF CsrUnderWay
    <3>3. ~orphan => ~csr_need_print
      BY <3>1 DEF CsrNoted, CsrUnderWay
    <3>4. ~orphan' => ~csr_need_print'
      BY <1>7, <3>1, <3>3
    <3>5. csr_monitor_read' <=> rob[1].csr \in Trace!Traced
      <4> DEFINE T == rob[1].csr \in Trace!Traced
      <4>1. csr_monitor_read' = T
        BY <2>2 DEF Trace!log_print, Trace!Issue
      <4>2. T \in BOOLEAN
        OBVIOUS
      <4> HIDE DEF T
      <4>3. csr_monitor_read' <=> T
        BY <4>1, <4>2
      <4> QED
        BY <4>3 DEF T
    <3>6. rob[1].csr \in Trace!Traced => csr_name' = rob[1].csr
      BY <2>2 DEF Trace!log_print, Trace!Issue
    <3> QED
      BY <1>7, <1>8, <3>2, <3>4, <3>5, <3>6 DEF CsrNoted
  <2>3. CASE Trace!CsrWrites(n)
    <3>1. /\ h = "done" /\ rob[1].kind = "csr" /\ rob[1].st = "issued" /\ ~Trace!CsrIssues(n)
      BY <2>3 DEF h, TraceMove, Trace!CsrIssues, Trace!CsrWrites, Trace!CsrAtHead
    <3>2. /\ CsrUnderWay' /\ rob'[1].st = "done" /\ rob'[1].csr = rob[1].csr
          /\ rob'[1].writes = rob[1].writes /\ rob'[1].wval = rob[1].wval
      BY <1>5, <1>6, <1>10, <2>1, <3>1 DEF CsrUnderWay
    <3>3. /\ ~orphan => ~csr_need_print
          /\ csr_monitor_read <=> rob[1].csr \in Trace!Traced
          /\ csr_monitor_read \in BOOLEAN /\ (csr_monitor_read => csr_name = rob[1].csr)
      BY <1>10, <3>1 DEF CsrNoted, CsrUnderWay
    <3>4. csr_monitor_read' = csr_monitor_read /\ csr_name' = csr_name
      BY <2>1, <3>1, <3>3 DEF Trace!log_print, Trace!ReadAfter
    <3>5. Trace!Seen(n) <=> (rob[1].writes /\ csr_monitor_read)
      BY <2>3 DEF Trace!Seen
    <3>6. Trace!Seen(n) => csr_value' = Trace!Masked(rob[1].csr, rob[1].wval)
      BY <3>3, <3>5 DEF Trace!csr_monitor
    <3>7. ~orphan' => (csr_need_print' <=> Trace!Seen(n))
      BY <1>7, <1>10, <3>3
    <3> QED
      BY <1>7, <1>8, <3>2, <3>3, <3>4, <3>5, <3>6, <3>7 DEF CsrNoted
  <2>4. CASE ~Trace!CsrIssues(n) /\ ~Trace!CsrWrites(n)
    <3>1. h = "stay" /\ ~Trace!Seen(n)
      BY <2>4 DEF h, TraceMove, Trace!Seen
    <3>2. /\ CsrUnderWay' <=> CsrUnderWay
          /\ CsrUnderWay => /\ rob'[1].st = rob[1].st /\ rob'[1].csr = rob[1].csr
                            /\ rob'[1].writes = rob[1].writes /\ rob'[1].wval = rob[1].wval
      BY <1>5, <1>6, <1>10, <2>1, <3>1 DEF CsrUnderWay
    <3>3. csr_monitor_read \in BOOLEAN /\ csr_need_print \in BOOLEAN /\ orphan \in BOOLEAN
      BY DEF CsrNoted
    <3>4. csr_monitor_read' = csr_monitor_read /\ csr_name' = csr_name
      BY <2>1, <2>4, <3>3 DEF Trace!log_print, Trace!ReadAfter
    <3>5. /\ csr_need_print' <=> csr_need_print
          /\ ~orphan' /\ csr_need_print' => ~orphan
          /\ csr_value' = csr_value
      BY <1>7, <2>1, <3>1 DEF Trace!csr_monitor
    <3>6. ASSUME ~orphan'
          PROVE  /\ csr_need_print' <=> /\ CsrUnderWay' /\ rob'[1].csr \in Trace!Traced
                                        /\ rob'[1].st = "done" /\ rob'[1].writes
                 /\ csr_need_print' => csr_value' = Trace!Masked(rob'[1].csr, rob'[1].wval)
      <4>1. CASE ~orphan
        BY <3>2, <3>5, <4>1 DEF CsrNoted
      <4>2. CASE orphan
        BY <1>7, <2>1, <3>1, <3>6, <4>2 DEF CsrNoted
      <4> QED
        BY <4>1, <4>2
    <3> QED
      BY <1>7, <1>8, <3>2, <3>3, <3>4, <3>6 DEF CsrNoted
  <2> QED
    BY <2>2, <2>3, <2>4
<1> QED
  BY <1>2, <1>9, <1>10

\* TraceInv is inductive.
LEMMA TraceInvInductive ==
  /\ Trace!Init => TraceInv
  /\ TraceInv /\ (Trace!Next \/ UNCHANGED Trace!vars) => TraceInv'
<1>1. ASSUME Trace!Init PROVE TraceInv
  <2>1. /\ rob = << >> /\ pc = 0 /\ prf = [p \in LogPRegs |-> 0]
        /\ preg = [p \in LogPRegs \cup {0} |-> 0] /\ logged = << >> /\ due = << >>
        /\ csr_monitor_read = FALSE /\ csr_need_print = FALSE /\ orphan = FALSE
    BY <1>1, Zenon DEF Trace!Init, Trace!CoreInit
  <2>2. StreamOK(rob, prf, TraceUnits, TraceKinds)
    BY <2>1 DEF StreamOK
  <2>3. TraceFiles
    BY <2>1, <2>2, LogConstants DEF TraceFiles, Trace!CopyInSync
  <2>4. CsrNoted
    BY <2>1 DEF CsrNoted, CsrUnderWay
  <2> QED
    BY <2>1, <2>3, <2>4 DEF TraceInv, Trace!TraceIsProgram
<1>2. ASSUME TraceInv, Trace!Edge PROVE TraceInv'
  <2>1. PICK S \in Trace!WriteBacks, n \in Trace!Commits, fresh \in Trace!Allocations,
             fault \in BOOLEAN :
          /\ Trace!CoreEdge(S, n, fresh, fault) /\ preg' = Trace!Sync(preg, S, n)
          /\ Trace!csr_monitor(n) /\ Trace!log_print(n)
          /\ due' = [k \in 1..n |-> Trace!Expected(rob[k])]
          /\ Trace!LeavesOrphan(n, fault)
    BY <1>2 DEF Trace!Edge
  <2>2. TraceFiles /\ CsrNoted
    BY <1>2 DEF TraceInv
  <2>3. TraceFiles' /\ rob' = RobAfter(S, n, fresh, fault)
    BY <2>1, <2>2, TraceFilesStep
  <2>4. CsrNoted'
    BY <2>1, <2>2, <2>3, CsrNotedStep
  <2>5. Trace!TraceIsProgram'
    <3>1. rob \in Seq(LogEntries(TraceUnits, TraceKinds))
      BY <2>2 DEF TraceFiles, StreamOK
    <3>2. n \in {0, 1} /\ n <= Len(rob) /\ LogMoves(rob, S, n, TraceMove(n))
      BY <3>1, TraceMoves
    <3>3. ASSUME NEW k \in 1..n PROVE Trace!Agree(Trace!Entry(rob[k]), Trace!Expected(rob[k]))
      <4>1. k = 1 /\ n = 1 /\ rob # << >>
        BY <3>1, <3>2
      <4>2. rob[1].st = "done"
        BY <3>2, <4>1 DEF LogMoves
      <4> QED
        BY <2>2, <4>1, <4>2, EntryIsExpected
    <3>4. logged' = [k \in 1..n |-> Trace!Entry(rob[k])]
      BY <2>1 DEF Trace!log_print
    <3>5. Len(logged') = n /\ Len(due') = n
      BY <2>1, <3>2, <3>4
    <3>6. ASSUME NEW k \in 1..n PROVE Trace!Agree(logged'[k], due'[k])
      <4>1. logged'[k] = Trace!Entry(rob[k]) /\ due'[k] = Trace!Expected(rob[k])
        BY <2>1, <3>4
      <4> QED
        BY <3>3, <4>1
    <3>7. ASSUME NEW k \in 1..n PROVE Trace!Agree(logged[k], due[k])'
      BY <3>6 DEF Trace!Agree
    <3> QED
      BY <3>5, <3>7 DEF Trace!TraceIsProgram
  <2> QED
    BY <2>3, <2>4, <2>5 DEF TraceInv
<1>3. ASSUME TraceInv, UNCHANGED Trace!vars PROVE TraceInv'
  BY <1>3 DEF TraceInv, TraceFiles, CsrNoted, CsrUnderWay, Trace!CopyInSync, Trace!TraceIsProgram,
     Trace!vars, Trace!coreVars, Trace!logVars
<1> QED
  BY <1>1, <1>2, <1>3 DEF Trace!Next, Trace!Finished
=============================================================================
