--------------------------- MODULE RingBenchProofs ---------------------------
(***************************************************************************)
(* Proofs about RingBench and RingExperiment, for any number of devices,   *)
(* any host with any mappings missing or broken, any list of cases and any *)
(* number of repeats.                                                      *)
(***************************************************************************)
EXTENDS RingExperiment, FunctionTheorems, FiniteSetTheorems, TLAPS

HasBadEdge(o) == \E i \in 1 .. ngpu : ~EdgeIsGood(o, i)

Results == {"unset", "inputs", "nan", "wrong", "sum", "grown"}
CaseSet == [impl : STRING, sub : Nat]
RowSet  ==
  [latency : BOOLEAN, mismatches : BOOLEAN, moved : Nat, result : Results \cup {"none"}]
LineSet ==
  [case : CaseSet, repeat : Nat, latency : BOOLEAN, mismatches : BOOLEAN, moved : Nat,
   result : Results \cup {"none"}]

TypeInv ==
  /\ phase \in {"search", "test", "chosen", "next", "reset", "called", "validated", "checked",
               "timed", "exit"}
  /\ host.broken \subseteq host.can
  /\ edge \in 1 .. ngpu
  /\ transport \in {"none", "p2p-direct", "host-staged", "refused"}
  /\ at \in [case : 1 .. Len(Cases), repeat : 1 .. Repeats]
  /\ data \in Results
  /\ counter \in Nat /\ calls \in 0 .. TimedCalls
  /\ row \in RowSet
  /\ rows \in Seq(LineSet)

(* The search: orders given up have an edge that does not work, and the    *)
(* order under test works up to its edge.                                  *)
SearchInv ==
  /\ \A o \in tried : HasBadEdge(o)
  /\ phase \in {"search", "test"} =>
       transport = "none" /\ \A j \in 1 .. edge - 1 : EdgeIsGood(order, j)
  /\ phase = "test" => <<From(order, edge), To(order, edge)>> \in host.can
  /\ transport \in {"refused", "host-staged"} => Orders \subseteq tried
  /\ transport = "p2p-direct" => \A i \in 1 .. ngpu : EdgeIsGood(order, i)

(* What is enabled: the mapping under test, later those of the ring.       *)
EnabledInv ==
  /\ phase = "test" => enabled = {TestedMapping(order, edge)} \cap host.can
  /\ OnlyRingMappingsStayEnabled

(* The counter holds the correctness call alone until it has been read,    *)
(* and the row that is being made belongs to the case in progress.         *)
CountInv ==
  /\ phase = "reset" => counter = 0
  /\ phase \in {"called", "validated"} => counter = Counts(Cases[at.case])
  /\ phase \in {"checked", "timed"} => row.moved = Counts(Cases[at.case])
  /\ RowCountsOneCall

(* On a sound host the buffers hold the inputs, then the sum, until they   *)
(* have been verified.                                                     *)
SoundInv ==
  /\ phase = "reset" => data = "inputs"
  /\ host.broken = {} /\ phase = "called" => data = "sum"
  /\ host.broken = {} /\ phase \in {"validated", "checked", "timed"} =>
       row.result = "sum" /\ ~row.mismatches
  /\ host.broken = {} /\ phase = "timed" => row.latency
  /\ SoundHostsAreMeasured

(* Rows are printed case by case and repeat by repeat, none is left out,   *)
(* and only mismatches leave one untimed.                                  *)
L == Len(Cases)
PlaceInv ==
  /\ \A i \in 1 .. Len(rows) :
       \E c \in 1 .. L : rows[i].case = Cases[c] /\ i = L * rows[i].repeat + c
  /\ phase # "exit" => Len(rows) = L * (at.repeat - 1) + at.case - 1
  /\ phase = "exit" /\ transport # "refused" => Len(rows) = L * Repeats
  /\ phase = "timed" => row.latency \/ row.mismatches
  /\ \A i \in 1 .. Len(rows) : rows[i].latency \/ rows[i].mismatches

(* The runner: what it has judged is what the program left.                *)
StageInv ==
  /\ stage \in {"start", "running", "gate", "over"} /\ rc \in 0 .. 2
  /\ stage = "start" => rows = << >>
  /\ stage = "gate" /\ rc = 0 => phase = "exit" /\ transport # "refused"
  /\ stage # "over" => manifest = << >>
  /\ stage = "over" /\ manifest = << >> => status = 1 /\ rows = << >>
  /\ stage = "over" /\ manifest # << >> =>
       /\ manifest.exit_code = rc /\ status = Verdict(Bad)
       /\ rc = 0 => phase = "exit" /\ transport # "refused"

-----------------------------------------------------------------------------
(* The place after i in the ring.                                          *)
LEMMA NextPlace ==
  ASSUME NEW i \in 1 .. ngpu
  PROVE  (i % ngpu) + 1 = IF i < ngpu THEN i + 1 ELSE 1
<1>1. ngpu \in Nat \ {0}
  BY GpuAssumption
<1>2. CASE i < ngpu
  <2>1. i % ngpu = i
    BY <1>1, <1>2
  <2>2. QED
    BY <1>2, <2>1
<1>3. CASE i = ngpu
  <2>1. i % ngpu = 0
    BY <1>1, <1>3
  <2>2. QED
    BY <1>3, <2>1
<1>4. QED
  BY <1>1, <1>2, <1>3

(* An order of the devices has device 0 in it.                             *)
LEMMA DeviceZeroIsThere ==
  ASSUME NEW o \in AllOrders
  PROVE  \E k \in 1 .. ngpu : o[k] = 0
<1>1. ngpu \in Nat \ {0}
  BY GpuAssumption
<1>2. IsFiniteSet(1 .. ngpu) /\ Cardinality(1 .. ngpu) = ngpu
      /\ IsFiniteSet(Devices) /\ Cardinality(Devices) = ngpu
  BY <1>1, FS_Interval DEF Devices
<1>3. o \in Injection(1 .. ngpu, Devices)
  BY DEF AllOrders, Injection, IsInjective
<1>4. o \in Surjection(1 .. ngpu, Devices)
  BY <1>2, <1>3, FS_Injection
<1>5. 0 \in Devices
  BY <1>1 DEF Devices
<1>6. QED
  BY <1>4, <1>5 DEF Surjection

(* The order rotated to begin at its k-th place has the same edges.        *)
LEMMA RotationsHaveTheSameEdges ==
  ASSUME NEW o \in AllOrders, NEW k \in 1 .. ngpu, o[k] = 0
  PROVE  \E p \in Orders : \A i \in 1 .. ngpu :
           \E j \in 1 .. ngpu : From(p, i) = From(o, j) /\ To(p, i) = To(o, j)
<1> DEFINE place(i) == IF i + k - 1 <= ngpu THEN i + k - 1 ELSE i + k - 1 - ngpu
           next(i)  == IF i < ngpu THEN i + 1 ELSE 1
           p == [i \in 1 .. ngpu |-> o[place(i)]]
<1>1. ngpu \in Nat \ {0}
  BY GpuAssumption
<1>2. \A i \in 1 .. ngpu : place(i) \in 1 .. ngpu /\ next(i) \in 1 .. ngpu
  BY <1>1
<1>3. \A i, j \in 1 .. ngpu : place(i) = place(j) => i = j
  BY <1>1
<1>4. \A i \in 1 .. ngpu : place(next(i)) = next(place(i))
  BY <1>1
<1>5. place(1) = k /\ 1 \in 1 .. ngpu
  BY <1>1
<1>6. \A i \in 1 .. ngpu : (i % ngpu) + 1 = next(i)
  BY NextPlace
<1>7. o \in [1 .. ngpu -> Devices] /\ \A i, j \in 1 .. ngpu : o[i] = o[j] => i = j
  BY DEF AllOrders
<1> HIDE DEF place, next
<1>8. p \in Orders
  <2>1. p \in [1 .. ngpu -> Devices] /\ p[1] = 0
    BY <1>2, <1>5, <1>7
  <2>2. \A i, j \in 1 .. ngpu : p[i] = p[j] => i = j
    BY <1>2, <1>3, <1>7
  <2>3. QED
    BY <2>1, <2>2 DEF Orders, AllOrders
<1>9. \A i \in 1 .. ngpu : From(p, i) = From(o, place(i)) /\ To(p, i) = To(o, place(i))
  BY <1>2, <1>4, <1>6 DEF From, To
<1> HIDE DEF p
<1>10. QED
  BY <1>2, <1>8, <1>9

(* Hence it is enough to try the orders that begin with device 0.          *)
LEMMA EnoughToTry ==
  ASSUME \A p \in Orders : HasBadEdge(p), NEW o \in AllOrders
  PROVE  HasBadEdge(o)
<1>1. PICK p \in Orders : \A i \in 1 .. ngpu :
        \E j \in 1 .. ngpu : From(p, i) = From(o, j) /\ To(p, i) = To(o, j)
  BY DeviceZeroIsThere, RotationsHaveTheSameEdges
<1>2. PICK i \in 1 .. ngpu : ~EdgeIsGood(p, i)
  BY DEF HasBadEdge
<1>3. PICK j \in 1 .. ngpu : From(p, i) = From(o, j) /\ To(p, i) = To(o, j)
  BY <1>1
<1>4. ~EdgeIsGood(o, j)
  BY <1>2, <1>3 DEF EdgeIsGood, TestedMapping
<1>5. QED
  BY <1>4 DEF HasBadEdge

-----------------------------------------------------------------------------
(* Types.                                                                  *)
LEMMA TypeStep == TypeInv /\ [Next]_vars => TypeInv'
<1> SUFFICES ASSUME TypeInv, [Next]_vars PROVE TypeInv'
  OBVIOUS
<1>0. /\ ngpu \in Nat \ {0} /\ Repeats \in Nat \ {0} /\ Cases \in Seq(CaseSet)
      /\ Len(Cases) \in Nat \ {0} /\ TimedCalls \in Nat \ {0}
  BY GpuAssumption DEF CaseSet
<1> USE DEF TypeInv, caseVars, searchVars
<1>1. ASSUME GiveUpOrder
      PROVE  edge' \in 1 .. ngpu
             /\ transport' \in {"none", "p2p-direct", "host-staged", "refused"}
             /\ phase' \in {"search", "chosen", "exit"}
  BY <1>0, <1>1 DEF GiveUpOrder
<1>2. CASE NoCapability
  BY <1>1, <1>2 DEF NoCapability
<1>3. CASE StartTest
  BY <1>3 DEF StartTest
<1>4. CASE EdgeFails
  BY <1>1, <1>4 DEF EdgeFails
<1>5. CASE EdgeWorks
  BY <1>0, <1>5 DEF EdgeWorks
<1>6. CASE EnablePeerAccess
  BY <1>6 DEF EnablePeerAccess
<1>7. ASSUME Call PROVE data' \in Results /\ counter' \in Nat
  <2>1. Counts(Cases[at.case]) \in Nat
    BY <1>0 DEF Counts
  <2>2. Outcomes(Cases[at.case], data) \subseteq Results
    BY DEF Outcomes, Sum, Results
  <2>3. QED
    BY <1>7, <2>1, <2>2 DEF Call
<1>8. CASE ResetForCase
  BY <1>8 DEF ResetForCase, Reset, Results
<1>9. CASE CorrectnessCall
  BY <1>7, <1>9 DEF CorrectnessCall
<1>10. CASE Validate
  <2>1. row' = [row EXCEPT !.mismatches = Mismatches(data), !.result = data]
    BY <1>10 DEF Validate
  <2>2. Mismatches(data) \in BOOLEAN
    BY DEF Mismatches
  <2>3. row' \in RowSet
    BY <2>1, <2>2 DEF RowSet
  <2>4. QED
    BY <1>10, <2>3 DEF Validate
<1>14. CASE ReadCounter
  <2>1. row' \in RowSet
    BY <1>14 DEF ReadCounter, RowSet
  <2>2. QED
    BY <1>14, <2>1 DEF ReadCounter
<1>15. CASE TimedCall
  <2>1. calls + 1 \in 0 .. TimedCalls
    BY <1>0, <1>15 DEF TimedCall
  <2>2. QED
    BY <1>7, <1>15, <2>1 DEF TimedCall
<1>16. CASE EndTiming
  <2>1. row' \in RowSet
    BY <1>16 DEF EndTiming, RowSet
  <2>2. calls' \in 0 .. TimedCalls
    BY <1>0, <1>16 DEF EndTiming
  <2>3. QED
    BY <1>16, <2>1, <2>2 DEF EndTiming
<1>17. CASE SkipTiming
  BY <1>17 DEF SkipTiming
<1>11. CASE PrintRow
  <2>1. Cases[at.case] \in CaseSet
    BY <1>0
  <2>2. Line \in LineSet
    BY <1>0, <2>1 DEF Line, BytesMoved, LineSet, RowSet
  <2>3. rows' \in Seq(LineSet)
    BY <1>11, <2>2 DEF PrintRow
  <2>4. row' \in RowSet
    BY <1>11 DEF PrintRow, NoRow, RowSet, Results
  <2>5. at' \in [case : 1 .. Len(Cases), repeat : 1 .. Repeats] /\ phase' \in {"next", "exit"}
    <3>1. CASE at.case < Len(Cases) /\ at' = [at EXCEPT !.case = @ + 1] /\ phase' = "next"
      <4>1. at.case + 1 \in 1 .. Len(Cases)
        BY <1>0, <3>1
      <4>2. QED
        BY <3>1, <4>1
    <3>2. CASE /\ at.repeat < Repeats /\ phase' = "next"
               /\ at' = [case |-> 1, repeat |-> at.repeat + 1]
      <4>1. at.repeat + 1 \in 1 .. Repeats /\ 1 \in 1 .. Len(Cases)
        BY <1>0, <3>2
      <4>2. QED
        BY <3>2, <4>1
    <3>3. CASE phase' = "exit" /\ at' = at
      BY <3>3
    <3>4. QED
      BY <1>11, <3>1, <3>2, <3>3 DEF PrintRow
  <2>6. data' \in Results /\ counter' \in Nat /\ calls' \in 0 .. TimedCalls
    BY <1>11 DEF PrintRow, Results
  <2>7. UNCHANGED <<host, edge, transport>>
    BY <1>11 DEF PrintRow
  <2>8. QED
    BY <2>3, <2>4, <2>5, <2>6, <2>7
<1>12. CASE UNCHANGED vars
  BY <1>12 DEF vars
<1>13. QED
  BY <1>2, <1>3, <1>4, <1>5, <1>6, <1>8, <1>9, <1>10, <1>11, <1>12, <1>14, <1>15, <1>16, <1>17
     DEF Next

(* An order is given up for an edge that does not work.                    *)
LEMMA GivenUpForAReason ==
  ASSUME TypeInv, SearchInv, GiveUpOrder, host' = host, ~EdgeIsGood(order, edge),
         phase \in {"search", "test"}
  PROVE  SearchInv'
<1>1. \A o : \A i : EdgeIsGood(o, i)' <=> EdgeIsGood(o, i)
  BY DEF EdgeIsGood, TestedMapping, From, To
<1>2. \A o : HasBadEdge(o)' <=> HasBadEdge(o)
  BY <1>1 DEF HasBadEdge
<1>3. HasBadEdge(order)
  BY DEF TypeInv, HasBadEdge
<1>4. \A o \in tried' : HasBadEdge(o)'
  BY <1>2, <1>3 DEF GiveUpOrder, SearchInv
<1>5. transport = "none"
  BY DEF SearchInv
<1>6. CASE Orders \subseteq tried'
  BY <1>4, <1>6 DEF GiveUpOrder, SearchInv
<1>7. CASE ~(Orders \subseteq tried')
  <2>1. edge' = 1 /\ transport' = "none" /\ phase' = "search"
    BY <1>5, <1>7 DEF GiveUpOrder
  <2>2. QED
    BY <1>4, <2>1 DEF SearchInv
<1>8. QED
  BY <1>6, <1>7

(* The search.                                                             *)
LEMMA SearchStep == TypeInv /\ EnabledInv /\ SearchInv /\ [Next]_vars => SearchInv'
<1> SUFFICES ASSUME TypeInv, EnabledInv, SearchInv, [Next]_vars PROVE SearchInv'
  OBVIOUS
<1>0. ngpu \in Nat \ {0} /\ edge \in 1 .. ngpu
  BY GpuAssumption DEF TypeInv
<1>1. ASSUME host' = host
      PROVE  /\ \A o : \A i : EdgeIsGood(o, i)' <=> EdgeIsGood(o, i)
             /\ \A o : HasBadEdge(o)' <=> HasBadEdge(o)
  BY <1>1 DEF EdgeIsGood, TestedMapping, From, To, HasBadEdge
<1>2. CASE NoCapability
  BY <1>2, GivenUpForAReason DEF NoCapability, EdgeIsGood
<1>3. CASE EdgeFails
  <2>1. /\ phase = "test" /\ host' = host /\ GiveUpOrder
        /\ TestedMapping(order, edge) \notin enabled \ host.broken
    BY <1>3 DEF EdgeFails, EndTest
  <2>2. ~EdgeIsGood(order, edge)
    BY <2>1 DEF EnabledInv, EdgeIsGood
  <2>3. QED
    BY <2>1, <2>2, GivenUpForAReason
<1>4. CASE StartTest
  BY <1>1, <1>4 DEF StartTest, SearchInv, searchVars
<1>5. CASE EdgeWorks
  <2>1. /\ phase = "test" /\ host' = host /\ tried' = tried
        /\ TestedMapping(order, edge) \in enabled \ host.broken
    BY <1>5 DEF EdgeWorks, EndTest
  <2>2. EdgeIsGood(order, edge)
    BY <2>1 DEF EnabledInv, EdgeIsGood, SearchInv
  <2>3. \A j \in 1 .. edge : EdgeIsGood(order, j)
    BY <1>0, <2>1, <2>2 DEF SearchInv
  <2>4. CASE edge = ngpu
    <3>1. phase' = "chosen" /\ transport' = "p2p-direct" /\ order' = order
      BY <1>5, <2>4 DEF EdgeWorks
    <3>2. QED
      BY <1>1, <2>1, <2>3, <2>4, <3>1 DEF SearchInv
  <2>5. CASE edge # ngpu
    <3>1. phase' = "search" /\ edge' = edge + 1 /\ transport' = transport /\ order' = order
      BY <1>5, <2>5 DEF EdgeWorks
    <3>2. transport = "none" /\ 1 .. edge' - 1 = 1 .. edge
      BY <1>0, <2>1, <3>1 DEF SearchInv
    <3>3. QED
      BY <1>1, <2>1, <2>3, <3>1, <3>2 DEF SearchInv
  <2>6. QED
    BY <2>4, <2>5
<1>6. ASSUME host' = host, UNCHANGED searchVars, phase' \notin {"search", "test"}
      PROVE  SearchInv'
  BY <1>1, <1>6 DEF SearchInv, searchVars
<1>7. CASE EnablePeerAccess
  BY <1>6, <1>7 DEF EnablePeerAccess
<1>8. CASE ResetForCase \/ CorrectnessCall \/ Validate \/ ReadCounter
  BY <1>6, <1>8 DEF ResetForCase, CorrectnessCall, Validate, ReadCounter
<1>9. CASE TimedCall \/ EndTiming
  BY <1>6, <1>9 DEF TimedCall, EndTiming
<1>10. CASE SkipTiming
  BY <1>6, <1>10 DEF SkipTiming
<1>11. CASE PrintRow
  BY <1>6, <1>11 DEF PrintRow
<1>12. CASE UNCHANGED vars
  BY <1>1, <1>12 DEF vars, searchVars, SearchInv
<1>13. QED
  BY <1>2, <1>3, <1>4, <1>5, <1>7, <1>8, <1>9, <1>10, <1>11, <1>12 DEF Next

(* What is enabled.                                                        *)
LEMMA EnabledStep == TypeInv /\ SearchInv /\ EnabledInv /\ [Next]_vars => EnabledInv'
<1> SUFFICES ASSUME TypeInv, SearchInv, EnabledInv, [Next]_vars PROVE EnabledInv'
  OBVIOUS
<1> USE DEF EnabledInv, OnlyRingMappingsStayEnabled, Measuring
<1>1. CASE NoCapability
  <2>1. phase = "search" /\ enabled' = enabled /\ phase' \in {"search", "chosen", "exit"}
    BY <1>1 DEF NoCapability, GiveUpOrder
  <2>2. QED
    BY <2>1
<1>2. CASE StartTest
  <2>1. /\ phase = "search" /\ phase' = "test" /\ host' = host /\ order' = order /\ edge' = edge
        /\ enabled' = enabled \cup ({TestedMapping(order, edge)} \cap host.can)
    BY <1>2 DEF StartTest, searchVars
  <2>2. QED
    BY <2>1 DEF TestedMapping, From, To
<1>3. CASE EdgeFails \/ EdgeWorks
  <2>1. /\ phase = "test" /\ enabled' = enabled \ {TestedMapping(order, edge)}
        /\ phase' \in {"search", "chosen", "exit"}
    BY <1>3 DEF EdgeFails, EdgeWorks, EndTest, GiveUpOrder
  <2>2. QED
    BY <2>1
<1>4. CASE EnablePeerAccess
  <2>1. /\ phase = "chosen" /\ phase' = "next" /\ order' = order /\ transport' = transport
        /\ enabled' = IF transport = "p2p-direct" THEN enabled \cup RingMappings(order)
                      ELSE enabled
    BY <1>4 DEF EnablePeerAccess, searchVars
  <2>2. QED
    BY <2>1 DEF RingMappings, From, To
<1>5. ASSUME enabled' = enabled, UNCHANGED searchVars, Measuring, Measuring' \/ phase' = "exit"
      PROVE  EnabledInv'
  BY <1>5 DEF searchVars, RingMappings, From, To
<1>6. CASE ResetForCase \/ CorrectnessCall \/ Validate \/ ReadCounter
  BY <1>5, <1>6 DEF ResetForCase, CorrectnessCall, Validate, ReadCounter
<1>7. CASE TimedCall \/ EndTiming
  BY <1>5, <1>7 DEF TimedCall, EndTiming
<1>8. CASE SkipTiming
  BY <1>5, <1>8 DEF SkipTiming
<1>9. CASE PrintRow
  BY <1>5, <1>9 DEF PrintRow
<1>10. CASE UNCHANGED vars
  BY <1>10 DEF vars, searchVars, TestedMapping, RingMappings, From, To
<1>11. QED
  BY <1>1, <1>2, <1>3, <1>4, <1>6, <1>7, <1>8, <1>9, <1>10 DEF Next

(* Printing a row leaves the earlier ones and appends its line.            *)
LEMMA RowsPrinted ==
  ASSUME TypeInv, PrintRow
  PROVE  /\ Len(rows') = Len(rows) + 1 /\ Len(rows) \in Nat
         /\ rows'[Len(rows) + 1] = Line
         /\ \A i \in 1 .. Len(rows) : rows'[i] = rows[i]
         /\ \A i \in 1 .. Len(rows') : i \in 1 .. Len(rows) \/ i = Len(rows) + 1
<1>1. rows \in Seq(LineSet) /\ rows' = Append(rows, Line)
  BY DEF TypeInv, PrintRow
<1>2. Len(rows) \in Nat /\ Len(rows') = Len(rows) + 1
  BY <1>1
<1>3. rows'[Len(rows) + 1] = Line
  BY <1>1
<1>4. \A i \in 1 .. Len(rows) : rows'[i] = rows[i]
  BY <1>1
<1>5. QED
  BY <1>2, <1>3, <1>4

(* The byte counts.                                                        *)
LEMMA CountStep == TypeInv /\ CountInv /\ [Next]_vars => CountInv'
<1> SUFFICES ASSUME TypeInv, CountInv, [Next]_vars PROVE CountInv'
  OBVIOUS
<1> DEFINE counted == {"reset", "called", "validated", "checked", "timed"}
<1>1. ASSUME rows' = rows, phase' \notin counted
      PROVE  CountInv'
  BY <1>1 DEF CountInv, RowCountsOneCall, BytesExpected
<1>2. CASE NoCapability
  BY <1>1, <1>2 DEF NoCapability, GiveUpOrder, caseVars
<1>3. CASE StartTest
  BY <1>1, <1>3 DEF StartTest, caseVars
<1>4. CASE EdgeFails
  BY <1>1, <1>4 DEF EdgeFails, GiveUpOrder, caseVars
<1>5. CASE EdgeWorks
  BY <1>1, <1>5 DEF EdgeWorks, caseVars
<1>6. CASE EnablePeerAccess
  BY <1>1, <1>6 DEF EnablePeerAccess, caseVars
<1>7. CASE ResetForCase
  BY <1>7 DEF ResetForCase, CountInv, RowCountsOneCall, BytesExpected
<1>8. CASE CorrectnessCall
  <2>1. counter = 0 /\ at' = at /\ rows' = rows /\ phase' = "called"
    BY <1>8 DEF CorrectnessCall, CountInv
  <2>2. counter' = Counts(Cases[at.case])
    <3>1. ngpu \in Nat
      BY GpuAssumption
    <3>2. Counts(Cases[at.case]) \in Int
      BY <3>1 DEF Counts
    <3>3. counter' = counter + Counts(Cases[at.case])
      BY <1>8 DEF CorrectnessCall, Call
    <3>4. QED
      BY <2>1, <3>2, <3>3
  <2>3. QED
    BY <2>1, <2>2 DEF CountInv, RowCountsOneCall, BytesExpected, Counts
<1>9. CASE Validate
  BY <1>9 DEF Validate, CountInv, RowCountsOneCall, BytesExpected, Counts
<1>10. CASE ReadCounter
  <2>1. /\ row'.moved = counter /\ phase = "validated" /\ phase' = "checked"
        /\ at' = at /\ rows' = rows
    BY <1>10 DEF ReadCounter, TypeInv, RowSet
  <2>2. QED
    BY <2>1 DEF CountInv, RowCountsOneCall, BytesExpected, Counts
<1>11. CASE TimedCall
  BY <1>11 DEF TimedCall, CountInv, RowCountsOneCall, BytesExpected, Counts
<1>12. CASE EndTiming
  <2>1. /\ at' = at /\ rows' = rows /\ row'.moved = row.moved
        /\ phase = "checked" /\ phase' = "timed"
    BY <1>12 DEF EndTiming, TypeInv, RowSet
  <2>2. QED
    BY <2>1 DEF CountInv, RowCountsOneCall, BytesExpected, Counts
<1>13. CASE SkipTiming
  BY <1>13 DEF SkipTiming, caseVars, CountInv, RowCountsOneCall, BytesExpected, Counts
<1>14. CASE PrintRow
  <2>1. phase' \notin counted /\ phase = "timed"
    BY <1>14 DEF PrintRow
  <2>2. Line.moved = IF Line.case.impl = "nccl-reference" THEN 0 ELSE BytesExpected
    BY <2>1 DEF CountInv, Line, BytesMoved, Counts, BytesExpected
  <2>3. \A i \in 1 .. Len(rows') :
          rows'[i].moved = IF rows'[i].case.impl = "nccl-reference" THEN 0 ELSE BytesExpected
    BY <1>14, <2>2, RowsPrinted DEF CountInv, RowCountsOneCall
  <2>4. QED
    BY <2>1, <2>3 DEF CountInv, RowCountsOneCall, BytesExpected
<1>15. CASE UNCHANGED vars
  BY <1>15 DEF vars, caseVars, CountInv, RowCountsOneCall, BytesExpected, Counts
<1>16. QED
  BY <1>2, <1>3, <1>4, <1>5, <1>6, <1>7, <1>8, <1>9, <1>10, <1>11, <1>12, <1>13, <1>14, <1>15
     DEF Next

(* The correctness of the rows on a host whose mappings all work.          *)
LEMMA SoundStep == TypeInv /\ SoundInv /\ [Next]_vars => SoundInv'
<1> SUFFICES ASSUME TypeInv, SoundInv, [Next]_vars PROVE SoundInv'
  OBVIOUS
<1>0. ASSUME UNCHANGED vars PROVE SoundInv'
  BY <1>0 DEF vars, caseVars, SoundInv, SoundHostsAreMeasured
<1>h. host' = host
  BY DEF Next, NoCapability, StartTest, EdgeFails, EdgeWorks, EnablePeerAccess,
         ResetForCase, CorrectnessCall, Validate, ReadCounter, TimedCall, EndTiming,
         SkipTiming, PrintRow, vars
<1>1. ASSUME rows' = rows, phase' \notin {"reset", "called", "validated", "checked", "timed"}
      PROVE  SoundInv'
  BY <1>1, <1>h DEF SoundInv, SoundHostsAreMeasured
<1>2. CASE NoCapability
  BY <1>1, <1>2 DEF NoCapability, GiveUpOrder, caseVars
<1>3. CASE StartTest
  BY <1>1, <1>3 DEF StartTest, caseVars
<1>4. CASE EdgeFails
  BY <1>1, <1>4 DEF EdgeFails, GiveUpOrder, caseVars
<1>5. CASE EdgeWorks
  BY <1>1, <1>5 DEF EdgeWorks, caseVars
<1>6. CASE EnablePeerAccess
  BY <1>1, <1>6 DEF EnablePeerAccess, caseVars
<1>7. CASE ResetForCase
  BY <1>7, <1>h DEF ResetForCase, Reset, SoundInv, SoundHostsAreMeasured
<1>8. CASE CorrectnessCall
  <2>1. data = "inputs" /\ rows' = rows /\ phase' = "called"
    BY <1>8 DEF CorrectnessCall, SoundInv
  <2>2. ASSUME host.broken = {} PROVE data' = "sum"
    <3>1. ~Corrupting
      BY <2>2 DEF Corrupting
    <3>2. Outcomes(Cases[at.case], data) = {"sum"}
      BY <2>1, <3>1 DEF Outcomes, Sum
    <3>3. QED
      BY <1>8, <3>2 DEF CorrectnessCall, Call
  <2>3. QED
    BY <1>h, <2>1, <2>2 DEF SoundInv, SoundHostsAreMeasured
<1>12. CASE Validate
  <2>1. /\ row'.result = data /\ row'.mismatches = Mismatches(data)
        /\ rows' = rows /\ phase = "called" /\ phase' = "validated"
    BY <1>12 DEF Validate, TypeInv, RowSet
  <2>2. ~Mismatches("sum")
    BY DEF Mismatches
  <2>3. QED
    BY <1>h, <2>1, <2>2 DEF SoundInv, SoundHostsAreMeasured
<1>13. CASE ReadCounter
  <2>1. /\ row'.result = row.result /\ row'.mismatches = row.mismatches
        /\ rows' = rows /\ phase = "validated" /\ phase' = "checked"
    BY <1>13 DEF ReadCounter, TypeInv, RowSet
  <2>2. QED
    BY <1>h, <2>1 DEF SoundInv, SoundHostsAreMeasured
<1>14. CASE TimedCall
  BY <1>14, <1>h DEF TimedCall, SoundInv, SoundHostsAreMeasured
<1>15. CASE EndTiming
  <2>1. /\ rows' = rows /\ row'.latency = TRUE /\ row'.result = row.result
        /\ row'.mismatches = row.mismatches /\ phase = "checked" /\ phase' = "timed"
    BY <1>15 DEF EndTiming, TypeInv, RowSet
  <2>2. QED
    BY <1>h, <2>1 DEF SoundInv, SoundHostsAreMeasured
<1>9. CASE SkipTiming
  BY <1>9, <1>h DEF SkipTiming, MayTime, caseVars, SoundInv, SoundHostsAreMeasured
<1>10. CASE PrintRow
  <2>1. /\ phase' \notin {"reset", "called", "validated", "checked", "timed"}
        /\ phase = "timed"
    BY <1>10 DEF PrintRow
  <2>2. host.broken = {} => Line.latency /\ Line.result = "sum"
    BY <2>1 DEF SoundInv, Line
  <2>3. host.broken = {} => \A i \in 1 .. Len(rows') : rows'[i].latency /\ rows'[i].result = "sum"
    BY <1>10, <2>2, RowsPrinted DEF SoundInv, SoundHostsAreMeasured
  <2>4. QED
    BY <1>h, <2>1, <2>3 DEF SoundInv, SoundHostsAreMeasured
<1>11. QED
  BY <1>0, <1>2, <1>3, <1>4, <1>5, <1>6, <1>7, <1>8, <1>9, <1>10, <1>12, <1>13, <1>14, <1>15
     DEF Next

(* Repeats follow each other without a gap.                                *)
LEMMA RepeatsFollow ==
  ASSUME NEW n \in Nat, NEW r \in Nat \ {0}
  PROVE  n * (r - 1) + n = n * r /\ n * (r - 1) \in Nat /\ n * r \in Nat
<1>1. PICK q \in Nat : r = q + 1
  <2>1. r - 1 \in Nat /\ r = (r - 1) + 1
    OBVIOUS
  <2>2. QED
    BY <2>1
<1>2. r - 1 = q
  BY <1>1
<1>3. n * (q + 1) = n * q + n /\ n * q \in Nat
  OBVIOUS
<1>4. QED
  BY <1>1, <1>2, <1>3

(* Where the rows are.                                                     *)
LEMMA PlaceStep == TypeInv /\ SearchInv /\ PlaceInv /\ [Next]_vars => PlaceInv'
<1> SUFFICES ASSUME TypeInv, SearchInv, PlaceInv, [Next]_vars PROVE PlaceInv'
  OBVIOUS
<1>0. /\ L \in Nat \ {0} /\ Repeats \in Nat \ {0}
      /\ at.case \in 1 .. L /\ at.repeat \in 1 .. Repeats
      /\ at = [case |-> at.case, repeat |-> at.repeat]
  BY GpuAssumption DEF L, TypeInv
<1>1. ASSUME rows' = rows, at' = at, phase # "exit",
             phase' = "exit" => transport' = "refused", phase' # "timed"
      PROVE  PlaceInv'
  BY <1>1 DEF PlaceInv, L
<1>2. CASE NoCapability \/ EdgeFails
  <2>1. GiveUpOrder /\ rows' = rows /\ at' = at /\ phase # "exit"
    BY <1>2 DEF NoCapability, EdgeFails, caseVars
  <2>2. phase' # "timed" /\ (phase' = "exit" => transport' = "refused")
    <3>1. CASE Orders \subseteq tried'
      BY <2>1, <3>1 DEF GiveUpOrder
    <3>2. CASE ~(Orders \subseteq tried')
      BY <2>1, <3>2 DEF GiveUpOrder
    <3>3. QED
      BY <3>1, <3>2
  <2>3. QED
    BY <1>1, <2>1, <2>2
<1>3. CASE StartTest
  BY <1>1, <1>3 DEF StartTest, caseVars
<1>5. CASE EdgeWorks
  BY <1>1, <1>5 DEF EdgeWorks, caseVars
<1>6. CASE EnablePeerAccess
  BY <1>1, <1>6 DEF EnablePeerAccess, caseVars
<1>7. CASE ResetForCase \/ CorrectnessCall \/ Validate \/ ReadCounter \/ TimedCall
  BY <1>1, <1>7 DEF ResetForCase, CorrectnessCall, Validate, ReadCounter, TimedCall
<1>8. CASE EndTiming
  <2>1. rows' = rows /\ at' = at /\ row'.latency = TRUE /\ phase = "checked" /\ phase' = "timed"
    BY <1>8 DEF EndTiming, TypeInv, RowSet
  <2>2. QED
    BY <2>1 DEF PlaceInv, L
<1>9. CASE SkipTiming
  BY <1>9 DEF SkipTiming, MayTime, caseVars, PlaceInv, L
<1>10. CASE PrintRow
  <2>1. /\ phase = "timed" /\ phase' # "timed"
        /\ transport' = transport
    BY <1>10 DEF PrintRow, searchVars
  <2>2. Len(rows) = L * (at.repeat - 1) + at.case - 1
    BY <2>1 DEF PlaceInv
  <2>3. L * (at.repeat - 1) + L = L * at.repeat /\ L * (at.repeat - 1) \in Nat
    BY <1>0, RepeatsFollow
  <2>4. /\ Line.case = Cases[at.case] /\ Line.repeat = at.repeat - 1
        /\ Line.latency \/ Line.mismatches
    BY <2>1 DEF Line, PlaceInv
  <2>5. Len(rows) + 1 = L * Line.repeat + at.case
    BY <1>0, <2>2, <2>3, <2>4
  <2>6. \A i \in 1 .. Len(rows') :
          \E c \in 1 .. L : rows'[i].case = Cases[c] /\ i = L * rows'[i].repeat + c
    <3>1. TAKE i \in 1 .. Len(rows')
    <3>2. CASE i \in 1 .. Len(rows)
      BY <1>10, <3>2, RowsPrinted DEF PlaceInv
    <3>3. CASE i = Len(rows) + 1
      <4>1. rows'[i] = Line
        BY <1>10, <3>3, RowsPrinted
      <4>2. rows'[i].case = Cases[at.case] /\ i = L * rows'[i].repeat + at.case
        BY <2>4, <2>5, <3>3, <4>1
      <4>3. QED
        BY <1>0, <4>2
    <3>4. QED
      BY <1>10, <3>2, <3>3, RowsPrinted
  <2>7. \A i \in 1 .. Len(rows') : rows'[i].latency \/ rows'[i].mismatches
    BY <1>10, <2>4, RowsPrinted DEF PlaceInv
  <2>8. Len(rows') = L * (at.repeat - 1) + at.case
    BY <1>0, <1>10, <2>2, <2>3, RowsPrinted
  <2>9. /\ phase' # "exit" => Len(rows') = L * (at'.repeat - 1) + at'.case - 1
        /\ phase' = "exit" => Len(rows') = L * Repeats
    <3>1. CASE at' = [at EXCEPT !.case = @ + 1] /\ phase' = "next"
      <4>1. at'.case = at.case + 1 /\ at'.repeat = at.repeat
        BY <1>0, <3>1
      <4>2. QED
        BY <1>0, <2>3, <2>8, <3>1, <4>1
    <3>2. CASE /\ at.case = L /\ phase' = "next"
               /\ at' = [case |-> 1, repeat |-> at.repeat + 1]
      <4>1. at'.case = 1 /\ at'.repeat - 1 = at.repeat
        BY <1>0, <3>2
      <4>2. Len(rows') = L * at.repeat
        BY <1>0, <2>3, <2>8, <3>2
      <4>3. L * at.repeat \in Nat
        BY <1>0, RepeatsFollow
      <4>4. L * (at'.repeat - 1) + at'.case - 1 = L * at.repeat
        BY <4>1, <4>3
      <4>5. QED
        BY <3>2, <4>2, <4>4
    <3>3. CASE at.case = L /\ at.repeat = Repeats /\ phase' = "exit"
      BY <1>0, <2>3, <2>8, <3>3
    <3>4. QED
      BY <1>10, <3>1, <3>2, <3>3 DEF PrintRow, L
  <2>10. QED
    BY <2>1, <2>6, <2>7, <2>9 DEF PlaceInv, L
<1>11. CASE UNCHANGED vars
  BY <1>11 DEF vars, caseVars, searchVars, PlaceInv, L
<1>12. QED
  BY <1>2, <1>3, <1>5, <1>6, <1>7, <1>8, <1>9, <1>10, <1>11 DEF Next

-----------------------------------------------------------------------------
BenchInv == TypeInv /\ SearchInv /\ EnabledInv /\ CountInv /\ SoundInv /\ PlaceInv

(* The program starts with the invariant,                                  *)
LEMMA BenchInit == Init => BenchInv
<1> SUFFICES ASSUME Init PROVE BenchInv
  OBVIOUS
<1>0. /\ ngpu \in Nat \ {0} /\ Repeats \in Nat \ {0}
      /\ Len(Cases) \in Nat \ {0} /\ TimedCalls \in Nat \ {0}
  BY GpuAssumption
<1>1. rows = << >> /\ Len(rows) = 0 /\ phase = "search" /\ edge = 1 /\ enabled = {}
      /\ tried = {} /\ transport = "none" /\ at = [case |-> 1, repeat |-> 1]
  BY DEF Init
<1>2. TypeInv
  <2>1. row \in RowSet
    BY DEF Init, NoRow, RowSet, Results
  <2>2. at \in [case : 1 .. Len(Cases), repeat : 1 .. Repeats]
    <3>1. 1 \in 1 .. Len(Cases) /\ 1 \in 1 .. Repeats
      BY <1>0
    <3>2. QED
      BY <1>1, <3>1
  <2>3. host.broken \subseteq host.can
    BY HostAssumption DEF Init
  <2>4. QED
    BY <1>0, <1>1, <2>1, <2>2, <2>3 DEF TypeInv, Init, Results
<1>3. SearchInv
  BY <1>1 DEF SearchInv
<1>4. EnabledInv
  BY <1>1 DEF EnabledInv, OnlyRingMappingsStayEnabled, Measuring
<1>5. CountInv /\ SoundInv
  BY <1>1 DEF CountInv, SoundInv, RowCountsOneCall, SoundHostsAreMeasured
<1>6. PlaceInv
  <2>1. L * (at.repeat - 1) + at.case - 1 = 0
    BY <1>0, <1>1 DEF L
  <2>2. QED
    BY <1>1, <2>1 DEF PlaceInv
<1>7. QED
  BY <1>2, <1>3, <1>4, <1>5, <1>6 DEF BenchInv

(* and every step of it keeps the invariant.                               *)
LEMMA BenchStep == BenchInv /\ [Next]_vars => BenchInv'
BY TypeStep, SearchStep, EnabledStep, CountStep, SoundStep, PlaceStep DEF BenchInv

(* The runner lets the program take its own steps and no others, so what   *)
(* holds of the program holds of it in the runner.                         *)
THEOREM RunnerRunsTheProgram == ExpSpec => Spec
<1>1. ExpInit => Init
  BY DEF ExpInit
<1>2. [ExpNext]_expVars => [Next]_vars
  BY DEF ExpNext, expVars, Refuse, BuildFails, Build, Run, ProgramExits, ProgramCrashes, Gate
<1>3. QED
  BY <1>1, <1>2, PTL DEF ExpSpec, Spec

(* The invariant of the program.                                           *)
THEOREM BenchInvariant == Spec => []BenchInv
<1>1. QED
  BY BenchInit, BenchStep, PTL DEF Spec

(* findP2PRing, started on the orders that keep device 0 first, gives up   *)
(* only when no order of the devices makes a ring, and returns a ring all  *)
(* of whose edges have been seen to work.                                  *)
THEOREM SearchIsComplete == Spec => []FindsARingIfThereIsOne
<1>1. SearchInv => FindsARingIfThereIsOne
  <2> SUFFICES ASSUME SearchInv PROVE FindsARingIfThereIsOne
    OBVIOUS
  <2>1. ASSUME transport \in {"refused", "host-staged"}
        PROVE  \A o \in AllOrders : HasBadEdge(o)
    <3>1. \A p \in Orders : HasBadEdge(p)
      BY <2>1 DEF SearchInv
    <3>2. QED
      BY <3>1, EnoughToTry
  <2>2. transport = "p2p-direct" => \A i \in 1 .. ngpu : EdgeIsGood(order, i)
    BY DEF SearchInv
  <2>3. QED
    BY <2>1, <2>2 DEF FindsARingIfThereIsOne, HasBadEdge
<1>2. QED
  BY <1>1, BenchInvariant, PTL DEF BenchInv

(* The tests leave no mapping enabled, and the measurements run with the   *)
(* mappings of the ring.                                                   *)
THEOREM MachineIsLeftAsFound == Spec => []OnlyRingMappingsStayEnabled
<1>1. BenchInv => OnlyRingMappingsStayEnabled
  BY DEF BenchInv, EnabledInv
<1>2. QED
  BY <1>1, BenchInvariant, PTL

(* The bytes a row prints are those one call of its case moves: when the   *)
(* counter is read it has been reset for the case and has seen its         *)
(* correctness call and no timed one.                                      *)
THEOREM CountsAreOfOneCall == Spec => []RowCountsOneCall
<1>1. BenchInv => RowCountsOneCall
  BY DEF BenchInv, CountInv
<1>2. QED
  BY <1>1, BenchInvariant, PTL

(* On a host whose mappings all work every row is correct and timed.       *)
THEOREM SoundHosts == Spec => []SoundHostsAreMeasured
<1>1. BenchInv => SoundHostsAreMeasured
  BY DEF BenchInv, SoundInv
<1>2. QED
  BY <1>1, BenchInvariant, PTL

-----------------------------------------------------------------------------
(* The runner starts with its invariant,                                   *)
LEMMA StageInit == ExpInit => StageInv
BY DEF ExpInit, Init, StageInv

(* A manifest that has been written is there.                              *)
LEMMA ManifestIsThere ==
  ASSUME NEW code, NEW bad
  PROVE  [exit_code |-> code, rows_with_mismatches |-> bad] # << >>
<1>1. "exit_code" \in DOMAIN [exit_code |-> code, rows_with_mismatches |-> bad]
  OBVIOUS
<1>2. DOMAIN << >> = {}
  OBVIOUS
<1>3. QED
  BY <1>1, <1>2

(* and every step, its own or the program's, keeps it.                     *)
LEMMA StageStep == StageInv /\ [ExpNext]_expVars => StageInv'
<1> SUFFICES ASSUME StageInv, [ExpNext]_expVars PROVE StageInv'
  OBVIOUS
<1> USE DEF StageInv
<1>0. ASSUME rows' = rows PROVE Bad' = Bad
  BY <1>0 DEF Bad
<1>1. CASE Refuse \/ BuildFails
  BY <1>1 DEF Refuse, BuildFails, vars, caseVars
<1>2. CASE Build
  BY <1>2 DEF Build, vars, caseVars
<1>3. CASE Run
  BY <1>3 DEF Run, runnerVars
<1>4. CASE ProgramExits
  BY <1>4 DEF ProgramExits, vars, searchVars, caseVars
<1>5. CASE ProgramCrashes
  BY <1>5 DEF ProgramCrashes, vars, searchVars, caseVars
<1>6. CASE Gate
  <2>1. /\ stage = "gate" /\ stage' = "over" /\ rc' = rc /\ rows' = rows /\ phase' = phase
        /\ transport' = transport /\ status' = Verdict(Bad)
        /\ manifest' = [exit_code |-> rc, rows_with_mismatches |-> Bad]
    BY <1>6 DEF Gate, vars, searchVars, caseVars
  <2>2. manifest' # << >> /\ manifest'.exit_code = rc
    BY <2>1, ManifestIsThere
  <2>3. status' = Verdict(Bad)'
    BY <1>0, <2>1 DEF Verdict
  <2>4. QED
    BY <2>1, <2>2, <2>3
<1>7. CASE UNCHANGED expVars
  <2>1. UNCHANGED <<rows, phase, transport>> /\ UNCHANGED runnerVars
    BY <1>7 DEF expVars, vars, searchVars, caseVars
  <2>2. Verdict(Bad)' = Verdict(Bad)
    BY <1>0, <2>1 DEF Verdict, runnerVars
  <2>3. QED
    BY <2>1, <2>2 DEF runnerVars
<1>8. QED
  BY <1>1, <1>2, <1>3, <1>4, <1>5, <1>6, <1>7 DEF ExpNext

-----------------------------------------------------------------------------
(* The cases of main's list carry labels of their own.                     *)
LabelsDiffer == \A c, d \in 1 .. L : LabelOf(Cases[c]) = LabelOf(Cases[d]) => c = d

KeyOf(line) == <<LabelOf(line.case), line.repeat>>
Keys == {KeyOf(rows[i]) : i \in 1 .. Len(rows)}

(* Then no two rows have the same label and repeat,                        *)
LEMMA KeysDiffer ==
  ASSUME LabelsDiffer, PlaceInv, NEW i \in 1 .. Len(rows), NEW j \in 1 .. Len(rows),
         KeyOf(rows[i]) = KeyOf(rows[j])
  PROVE  i = j
<1>1. PICK c \in 1 .. L : rows[i].case = Cases[c] /\ i = L * rows[i].repeat + c
  BY DEF PlaceInv
<1>2. PICK d \in 1 .. L : rows[j].case = Cases[d] /\ j = L * rows[j].repeat + d
  BY DEF PlaceInv
<1>3. LabelOf(Cases[c]) = LabelOf(Cases[d]) /\ rows[i].repeat = rows[j].repeat
  BY <1>1, <1>2 DEF KeyOf
<1>4. c = d
  BY <1>3 DEF LabelsDiffer
<1>5. QED
  BY <1>1, <1>2, <1>3, <1>4

(* and there are as many labels and repeats as rows.                       *)
LEMMA AsManyKeysAsRows ==
  ASSUME LabelsDiffer, PlaceInv, TypeInv
  PROVE  Cardinality(Keys) = Len(rows)
<1> DEFINE f == [i \in 1 .. Len(rows) |-> KeyOf(rows[i])]
<1>1. Len(rows) \in Nat
  BY DEF TypeInv
<1>2. IsFiniteSet(1 .. Len(rows)) /\ Cardinality(1 .. Len(rows)) = Len(rows)
  BY <1>1, FS_Interval
<1>3. f \in [1 .. Len(rows) -> Keys]
  BY DEF Keys
<1>4. \A i, j \in 1 .. Len(rows) : f[i] = f[j] => i = j
  BY KeysDiffer
<1>5. \A k \in Keys : \E i \in 1 .. Len(rows) : f[i] = k
  BY DEF Keys
<1>6. f \in Bijection(1 .. Len(rows), Keys)
  BY <1>3, <1>4, <1>5 DEF Bijection, Injection, IsInjective, Surjection
<1>7. ExistsBijection(1 .. Len(rows), Keys)
  BY <1>6 DEF ExistsBijection
<1>8. QED
  BY <1>2, <1>7, FS_Bijection

(* What the parser counts is the keys of the rows.                         *)
LEMMA ParsedKeys ==
  {<<ParsedRows[i].config_label, ParsedRows[i].repeat_index>> : i \in 1 .. Len(rows)} = Keys
<1>1. \A i \in 1 .. Len(rows) :
        <<ParsedRows[i].config_label, ParsedRows[i].repeat_index>> = KeyOf(rows[i])
  BY DEF ParsedRows, KeyOf
<1>2. QED
  BY <1>1 DEF Keys

(* No row counted as bad, no row with mismatches.                          *)
LEMMA NoneIsBad ==
  ASSUME TypeInv
  PROVE  Bad = 0 <=> \A i \in 1 .. Len(rows) : ~rows[i].mismatches
<1> DEFINE bad == {i \in 1 .. Len(rows) : rows[i].mismatches}
<1>1. Len(rows) \in Nat
  BY DEF TypeInv
<1>2. IsFiniteSet(1 .. Len(rows))
  BY <1>1, FS_Interval
<1>3. IsFiniteSet(bad)
  BY <1>2, FS_Subset
<1>4. Cardinality(bad) = 0 <=> bad = {}
  BY <1>3, FS_EmptySet
<1>5. bad = {} <=> \A i \in 1 .. Len(rows) : ~rows[i].mismatches
  OBVIOUS
<1>6. QED
  BY <1>4, <1>5 DEF Bad

(* A run that is over and has its manifest.                                *)
LEMMA WithManifest ==
  ASSUME LabelsDiffer, BenchInv, StageInv, stage = "over", manifest # << >>
  PROVE  status = 0 <=> Complete
<1>0. /\ L \in Nat \ {0} /\ Repeats \in Nat \ {0} /\ L = Len(Cases)
      /\ TypeInv /\ PlaceInv /\ Len(rows) \in Nat
  BY GpuAssumption DEF L, BenchInv, TypeInv
<1>1. Cardinality(Keys) = Len(rows)
  BY <1>0, AsManyKeysAsRows
<1>2. L * Repeats \in Nat /\ L * Repeats # 0
  BY <1>0
<1>3. manifest.exit_code = rc /\ (status = 0 <=> rc = 0 /\ Bad = 0)
  BY DEF StageInv, Verdict
<1>4. \A i \in 1 .. Len(rows) :
        /\ ParsedRows[i].correctness_ok = (~rows[i].mismatches /\ rows[i].latency)
        /\ ParsedRows[i].exit_code = rc
  BY <1>3 DEF ParsedRows, CorrectnessOk
<1>5. ASSUME rc = 0, Bad = 0 PROVE Complete
  <2>1. Len(rows) = L * Repeats
    BY <1>5 DEF StageInv, BenchInv, PlaceInv
  <2>2. \A i \in 1 .. Len(rows) : ~rows[i].mismatches /\ rows[i].latency
    BY <1>0, <1>5, NoneIsBad DEF PlaceInv
  <2>3. QED
    BY <1>0, <1>1, <1>4, <1>5, <2>1, <2>2, ParsedKeys DEF Complete
<1>6. ASSUME Complete PROVE rc = 0 /\ Bad = 0
  <2>1. Len(rows) = L * Repeats
    BY <1>0, <1>1, <1>6, ParsedKeys DEF Complete
  <2>2. 1 \in 1 .. Len(rows)
    BY <1>0, <1>2, <2>1
  <2>3. \A i \in 1 .. Len(rows) : ParsedRows[i].correctness_ok /\ ParsedRows[i].exit_code = 0
    BY <1>6 DEF Complete
  <2>4. rc = 0
    BY <1>4, <2>2, <2>3
  <2>5. Bad = 0
    BY <1>0, <1>4, <2>3, NoneIsBad
  <2>6. QED
    BY <2>4, <2>5
<1>7. QED
  BY <1>3, <1>5, <1>6

(* A run refused, or that could not be built, has no row.                  *)
LEMMA WithoutManifest ==
  ASSUME BenchInv, StageInv, stage = "over", manifest = << >>
  PROVE  status # 0 /\ ~Complete
<1>1. status = 1 /\ rows = << >>
  BY DEF StageInv
<1>2. Keys = {}
  BY <1>1 DEF Keys
<1>3. Cardinality(Keys) = 0
  BY <1>2, FS_EmptySet
<1>4. Len(Cases) * Repeats # 0
  <2>1. Len(Cases) \in Nat \ {0} /\ Repeats \in Nat \ {0}
    BY GpuAssumption
  <2>2. QED
    BY <2>1
<1>5. ASSUME Complete PROVE FALSE
  <2>1. Cardinality(Keys) = Len(Cases) * Repeats
    BY <1>5, ParsedKeys DEF Complete
  <2>2. QED
    BY <1>3, <1>4, <2>1
<1>6. QED
  BY <1>1, <1>5

(* The runner, which judges by the exit code and the mismatches, succeeds  *)
(* exactly when the parser, which judges by the exit code in the manifest  *)
(* and the latency, finds every case of every repeat and calls it correct. *)
THEOREM CompleteSuccess ==
  ASSUME LabelsDiffer
  PROVE  ExpSpec => []SuccessIsComplete
<1>1. ExpInit => BenchInv /\ StageInv
  BY BenchInit, StageInit DEF ExpInit
<1>2. BenchInv /\ StageInv /\ [ExpNext]_expVars => (BenchInv /\ StageInv)'
  <2>1. [ExpNext]_expVars => [Next]_vars
    BY DEF ExpNext, expVars, Refuse, BuildFails, Build, Run, ProgramExits, ProgramCrashes, Gate
  <2>2. QED
    BY <2>1, BenchStep, StageStep
<1>3. BenchInv /\ StageInv => SuccessIsComplete
  BY WithManifest, WithoutManifest DEF SuccessIsComplete
<1>4. QED
  BY <1>1, <1>2, <1>3, PTL DEF ExpSpec
=============================================================================
