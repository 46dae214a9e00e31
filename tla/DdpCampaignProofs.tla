------------------------- MODULE DdpCampaignProofs -------------------------
(***************************************************************************)
(* For every host, matrix and bound of DdpCampaign: what is compared was   *)
(* measured over a transport that works, and by one session once a session *)
(* has run to its end; a cost is of one launch, a noise floor is of        *)
(* launches of one configuration, and a gap above it is a gap.             *)
(***************************************************************************)
EXTENDS DdpCampaign, FiniteSetTheorems, FunctionTheorems, WellFoundedInduction, TLAPS

-----------------------------------------------------------------------------
(* The launches there may be, those whose rows are compared, and those a   *)
(* session of a tag consists of.                                           *)
Paths ==
  [mode : {"ddp", "single", "serial"}, tag : Tags \cup {"single", "serial"},
   mb : {0} \cup {Capacities[i] : i \in Int}, launch : 0 .. LAUNCHES - 1]
IsCompared(path) == path.mode = "serial" \/ path.tag = "final"
PathsOf(tag) == {path \in Paths : IsCompared(path) => tag = "final"}

Works(transport) == host[transport] = "works"

(* What a launch leaves: no more than the rows of one run in its mode and  *)
(* of the probe, and, if they are compared, measured over a transport that *)
(* works.                                                                  *)
Sound(path, file) ==
  /\ file.table \subseteq TrainRows(path.mode) \cup ProbeRows(path.mode)
  /\ IsCompared(path) => Works(file.by.transport)

Processes == {"none", "runs", "hangs"}
PreflightScripts == [name : {"preflight"}, cand : 1 .. 3, process : Processes]
SessionScripts ==
  [name : {"final"}, tag : Tags, transport : Transports, todo : Seq(Paths),
   process : Processes]

(* The script that runs, and that its process is one of a candidate or of  *)
(* a launch.                                                               *)
ScriptInv ==
  /\ script \in {Idle} \cup PreflightScripts \cup SessionScripts
  /\ Preflight /\ script.process # "none" => script.cand \in 1 .. 2
  /\ Session /\ script.process # "none" => script.todo # << >>

(* "Only a configuration that passes": the preflight's word, and that a    *)
(* session whose rows are compared has it.                                 *)
GateInv ==
  /\ preflightOK => transport_env \in Transports /\ Works(transport_env)
  /\ Session =>
       /\ script.todo \in Seq(PathsOf(script.tag))
       /\ script.tag = "final" => Works(script.transport)

FilesInv ==
  /\ DOMAIN files \subseteq Paths
  /\ files = [path \in DOMAIN files |-> files[path]]
  /\ \A path \in DOMAIN files : Sound(path, files[path])

GateStandsInv == ScriptInv /\ GateInv /\ FilesInv

-----------------------------------------------------------------------------
(* The matrix of a final session is of launches, and that of the anchor of *)
(* launches no one compares.                                               *)
LEMMA MatrixIsOfTag ==
  /\ Matrix("final", FALSE) \in Seq(PathsOf("final"))
  /\ Matrix("shm", TRUE) \in Seq(PathsOf("shm"))
<1>1. LAUNCHES \in Nat /\ Len(Capacities) \in Nat
  BY CampaignAssumption
<1>2. Len(Capacities) * LAUNCHES \in Nat
  BY <1>1
<1>3. \A mode \in {"single", "serial"} : References(mode) \in Seq(PathsOf("final"))
  BY <1>1 DEF References, Launch, PathsOf, Paths
<1>4. ASSUME NEW tag \in Tags
      PROVE  Tagged(tag) \in Seq(PathsOf(tag))
  <2>1. \A k \in 1 .. Len(Capacities) * LAUNCHES :
          /\ (k - 1) \div LAUNCHES + 1 \in Int
          /\ (k - 1) % LAUNCHES \in 0 .. LAUNCHES - 1
    BY <1>1, <1>2, CampaignAssumption
  <2>2. \A k \in 1 .. Len(Capacities) * LAUNCHES :
          Launch("ddp", tag, Capacities[(k - 1) \div LAUNCHES + 1], (k - 1) % LAUNCHES)
            \in PathsOf(tag)
    BY <2>1 DEF Launch, PathsOf, Paths, IsCompared
  <2>3. QED
    BY <1>2, <2>2 DEF Tagged
<1>5. QED
  BY <1>3, <1>4 DEF Matrix, Tags

(* Whichever way a launch ends, its output is sound.                       *)
LEMMA OutputsAreSound ==
  ASSUME NEW path \in Paths, IsCompared(path) => Works(script.transport)
  PROVE  /\ Sound(path, Printed("absent", {}))
         /\ Sound(path, Complete(path.mode))
         /\ \A out \in Partial(path.mode) \cup Killed(path.mode) : Sound(path, out)
<1>1. \A c, table :
        table \subseteq TrainRows(path.mode) \cup ProbeRows(path.mode)
          => Sound(path, Printed(c, table))
  BY DEF Printed, Sound, By
<1>2. Sound(path, Printed("absent", {}))
  BY <1>1
<1>3. Sound(path, Complete(path.mode))
  BY <1>1 DEF Complete
<1>4. \A out \in Partial(path.mode) : Sound(path, out)
  BY <1>1, <1>2 DEF Partial
<1>5. \A out \in Killed(path.mode) : Sound(path, out)
  BY <1>2, <1>3 DEF Killed
<1>6. QED
  BY <1>2, <1>3, <1>4, <1>5

-----------------------------------------------------------------------------
(* Before any script has run, there is nothing to be wrong about.          *)
LEMMA InitHolds == Init => GateStandsInv
<1> SUFFICES ASSUME Init PROVE GateStandsInv
  OBVIOUS
<1>1. ScriptInv /\ GateInv
  BY DEF Init, ScriptInv, GateInv, Idle, Preflight, Session
<1>2. DOMAIN files = {} /\ files = [path \in DOMAIN files |-> files[path]]
  BY DEF Init
<1>3. QED
  BY <1>1, <1>2 DEF GateStandsInv, FilesInv

(* What remains of a sequence of members of a set is one as well.          *)
LEMMA HeadAndTail ==
  ASSUME NEW S, NEW s \in Seq(S), s # << >>
  PROVE  Head(s) \in S /\ Tail(s) \in Seq(S)
OBVIOUS

(* The head of what a session has to do is a launch of its tag, and where  *)
(* it is compared the session's transport works.                           *)
LEMMA HeadIsOfTag ==
  ASSUME GateStandsInv, Session, script.todo # << >>
  PROVE  /\ script \in SessionScripts
         /\ Head(script.todo) \in Paths
         /\ IsCompared(Head(script.todo)) => Works(script.transport)
         /\ Tail(script.todo) \in Seq(PathsOf(script.tag))
         /\ Tail(script.todo) \in Seq(Paths)
<1>1. script \in SessionScripts
  BY DEF GateStandsInv, ScriptInv, Session, Idle, PreflightScripts
<1>2. script.todo \in Seq(PathsOf(script.tag)) /\ script.todo \in Seq(Paths)
  BY <1>1 DEF GateStandsInv, GateInv, SessionScripts
<1>3. Head(script.todo) \in PathsOf(script.tag) /\ Tail(script.todo) \in Seq(PathsOf(script.tag))
  BY <1>2, HeadAndTail
<1>4. Tail(script.todo) \in Seq(Paths)
  BY <1>2, HeadAndTail
<1>5. QED
  BY <1>1, <1>3, <1>4 DEF PathsOf, GateStandsInv, GateInv

(* A launch that ends with a sound output leaves sound files and a session *)
(* with less to do.                                                        *)
LEMMA LaunchEndsSoundly ==
  ASSUME GateStandsInv, Session, script.todo # << >>, NEW out,
         Sound(Head(script.todo), out), LaunchEnds(out),
         UNCHANGED <<host, transport_env, preflightOK>>
  PROVE  GateStandsInv'
<1> DEFINE path == Head(script.todo)
<1>1. /\ script \in SessionScripts
      /\ Tail(script.todo) \in Seq(PathsOf(script.tag))
      /\ Tail(script.todo) \in Seq(Paths)
  BY HeadIsOfTag
<1>2. /\ script' \in SessionScripts
      /\ script'.tag = script.tag /\ script'.transport = script.transport
      /\ script'.todo = Tail(script.todo) /\ script'.process = "none"
  BY <1>1 DEF LaunchEnds, SessionScripts, Processes
<1>3. ScriptInv'
  BY <1>2 DEF ScriptInv, Preflight, Session, SessionScripts
<1>4. GateInv'
  BY <1>1, <1>2 DEF GateStandsInv, GateInv, Works, Session, PathsOf, IsCompared, Paths
<1>5. FilesInv'
  <2>1. files' = [files EXCEPT ![path] = out]
    BY DEF LaunchEnds
  <2>2. ASSUME NEW p \in DOMAIN files'
        PROVE  Sound(p, files'[p])
    BY <2>1 DEF GateStandsInv, FilesInv
  <2>3. QED
    BY <2>1, <2>2 DEF FilesInv, Sound, Works, GateStandsInv
<1>6. QED
  BY <1>3, <1>4, <1>5 DEF GateStandsInv

(* A session that starts is a script like any other, and if it is a final  *)
(* one the preflight has vouched for its transport.                        *)
LEMMA SessionsStartGated ==
  ASSUME GateStandsInv, NEW tag \in Tags, NEW transport \in Transports,
         NEW skipRef \in BOOLEAN, StartSession(tag, transport, skipRef),
         Matrix(tag, skipRef) \in Seq(PathsOf(tag)),
         tag = "final" => Works(transport)
  PROVE  GateStandsInv'
<1>1. Matrix(tag, skipRef) \in Seq(Paths)
  BY DEF PathsOf
<1>2. /\ script' \in SessionScripts /\ script'.process = "none"
      /\ script'.tag = tag /\ script'.transport = transport
      /\ script'.todo = Matrix(tag, skipRef)
  BY <1>1 DEF StartSession, SessionScripts, Processes
<1>3. ScriptInv'
  BY <1>2 DEF ScriptInv, Preflight, Session, SessionScripts
<1>4. UNCHANGED <<host, transport_env, preflightOK, files>>
  BY DEF StartSession
<1>5. GateInv'
  BY <1>2, <1>4 DEF GateStandsInv, GateInv, Works, Session, PathsOf, IsCompared, Paths
<1>6. FilesInv'
  BY <1>4 DEF GateStandsInv, FilesInv, Sound, Works
<1>7. QED
  BY <1>3, <1>5, <1>6 DEF GateStandsInv

(* A preflight that turns a candidate down says nothing and goes on.       *)
LEMMA RejectKeepsGate ==
  ASSUME GateStandsInv, Preflight, script.process # "none", Reject, UNCHANGED <<host, files>>
  PROVE  GateStandsInv'
<1>1. script \in PreflightScripts /\ script.cand \in 1 .. 2
  BY DEF GateStandsInv, ScriptInv, Preflight, Idle, SessionScripts
<1>2. script' \in PreflightScripts /\ script'.process = "none" /\ script'.name = "preflight"
  <2>1. script' = [name |-> "preflight", cand |-> script.cand + 1, process |-> "none"]
    BY <1>1 DEF Reject, PreflightScripts
  <2>2. script.cand + 1 \in 1 .. 3
    BY <1>1
  <2>3. QED
    BY <2>1, <2>2 DEF PreflightScripts, Processes
<1>3. ScriptInv' /\ GateInv'
  BY <1>2 DEF GateStandsInv, ScriptInv, GateInv, Works, Preflight, Session, Reject
<1>4. FilesInv'
  BY DEF GateStandsInv, FilesInv, Sound, Works
<1>5. QED
  BY <1>3, <1>4 DEF GateStandsInv

(* A script that is over, however it ended, takes nothing back.            *)
LEMMA IdleKeepsGate ==
  ASSUME GateStandsInv, script' = Idle, UNCHANGED <<host, transport_env, preflightOK, files>>
  PROVE  GateStandsInv'
BY DEF GateStandsInv, ScriptInv, GateInv, FilesInv, Sound, Works, Idle, Preflight, Session

-----------------------------------------------------------------------------
(* Every step of a script, and every start and end of one, keeps the       *)
(* preflight's word true and what is compared measured under it.           *)
LEMMA StepKeepsGate == GateStandsInv /\ [Next]_vars => GateStandsInv'
<1> SUFFICES ASSUME GateStandsInv, [Next]_vars PROVE GateStandsInv'
  OBVIOUS
<1>1. CASE StartPreflight
  <2>1. script' \in PreflightScripts /\ script'.process = "none" /\ script'.name = "preflight"
    BY <1>1 DEF StartPreflight, PreflightScripts, Processes
  <2>2. ScriptInv' /\ GateInv'
    BY <1>1, <2>1 DEF StartPreflight, ScriptInv, GateInv, Preflight, Session
  <2>3. FilesInv'
    BY <1>1 DEF StartPreflight, GateStandsInv, FilesInv, Sound, Works
  <2>4. QED
    BY <2>2, <2>3 DEF GateStandsInv
<1>2. CASE StartFinal
  <2>1. transport_env \in Transports /\ Works(transport_env)
    BY <1>2 DEF StartFinal, GateStandsInv, GateInv
  <2>2. QED
    BY <1>2, <2>1, MatrixIsOfTag, SessionsStartGated DEF StartFinal, Tags
<1>3. CASE StartAnchor
  BY <1>3, MatrixIsOfTag, SessionsStartGated DEF StartAnchor, Tags, Transports
<1>4. CASE StartGate
  <2>1. script \in PreflightScripts /\ script.cand \in 1 .. 2
    BY <1>4 DEF StartGate, GateStandsInv, ScriptInv, Preflight, Idle, SessionScripts,
                PreflightScripts, Candidates
  <2>2. /\ script' \in PreflightScripts /\ script'.name = "preflight"
        /\ script'.cand = script.cand
    BY <1>4, <2>1 DEF StartGate, Process, PreflightScripts, Processes
  <2>3. ScriptInv' /\ GateInv'
    BY <1>4, <2>1, <2>2 DEF StartGate, GateStandsInv, ScriptInv, GateInv, Works, Preflight, Session
  <2>4. FilesInv'
    BY <1>4 DEF StartGate, GateStandsInv, FilesInv, Sound, Works
  <2>5. QED
    BY <2>3, <2>4 DEF GateStandsInv
<1>5. CASE EndGate
  <2>1. Preflight /\ script.process # "none" /\ UNCHANGED <<host, files>>
    BY <1>5 DEF EndGate
  <2>2. CASE Reject
    BY <2>1, <2>2, RejectKeepsGate
  <2>3. CASE Accepts(LogOf(host[Candidates[script.cand]])) /\ Accept
    <3>1. script.cand \in 1 .. 2
      BY <2>1 DEF GateStandsInv, ScriptInv
    <3>2. transport_env' \in Transports /\ Works(transport_env')
      BY <2>3, <3>1 DEF Accept, Accepts, LogOf, Works, Candidates, Transports
    <3>3. ScriptInv' /\ GateInv'
      BY <2>1, <2>3, <3>2 DEF Accept, ScriptInv, GateInv, Works, Idle, Preflight, Session
    <3>4. FilesInv'
      BY <2>1 DEF GateStandsInv, FilesInv, Sound, Works
    <3>5. QED
      BY <3>3, <3>4 DEF GateStandsInv
  <2>4. QED
    BY <1>5, <2>2, <2>3 DEF EndGate
<1>6. CASE FailPreflight
  BY <1>6, IdleKeepsGate DEF FailPreflight
<1>7. CASE StartLaunch
  <2> DEFINE path == Head(script.todo)
             new  == Printed("absent", {})
  <2>1. Session /\ script.todo # << >> /\ UNCHANGED <<host, transport_env, preflightOK>>
    BY <1>7 DEF StartLaunch
  <2>2. script \in SessionScripts /\ path \in Paths /\ (IsCompared(path) => Works(script.transport))
    BY <2>1, HeadIsOfTag
  <2>3. /\ script' \in SessionScripts
        /\ script'.todo = script.todo /\ script'.tag = script.tag
        /\ script'.transport = script.transport
    BY <1>7, <2>2 DEF StartLaunch, Process, SessionScripts, Processes
  <2>4. ScriptInv' /\ GateInv'
    BY <2>1, <2>2, <2>3 DEF GateStandsInv, ScriptInv, GateInv, Works, Preflight, Session,
                            SessionScripts, PathsOf, IsCompared, Paths
  <2>5. files' = [p \in DOMAIN files \cup {path} |-> IF p = path THEN new ELSE files[p]]
    BY <1>7 DEF StartLaunch
  <2>6. Sound(path, new)
    BY <2>2, OutputsAreSound
  <2>7. ASSUME NEW p \in DOMAIN files'
        PROVE  Sound(p, files'[p])
    BY <2>5, <2>6 DEF GateStandsInv, FilesInv
  <2>8. FilesInv'
    <3>1. files' = [p \in DOMAIN files' |-> files'[p]]
      BY <2>5
    <3>2. DOMAIN files' \subseteq Paths
      BY <2>2, <2>5 DEF GateStandsInv, FilesInv
    <3>3. QED
      BY <2>1, <2>7, <3>1, <3>2 DEF FilesInv, Sound, Works
  <2>9. QED
    BY <2>4, <2>8 DEF GateStandsInv
<1>8. CASE EndLaunch
  <2>1. /\ Session /\ script.todo # << >>
        /\ UNCHANGED <<host, transport_env, preflightOK>>
    BY <1>8 DEF EndLaunch, GateStandsInv, ScriptInv
  <2>2. PICK out \in {Complete(Head(script.todo).mode)} \cup Partial(Head(script.todo).mode) :
          LaunchEnds(out)
    BY <1>8 DEF EndLaunch
  <2>3. Sound(Head(script.todo), out)
    BY <2>1, HeadIsOfTag, OutputsAreSound
  <2>4. QED
    BY <2>1, <2>2, <2>3, LaunchEndsSoundly
<1>9. CASE Timeout
  <2>1. script.process # "none" /\ UNCHANGED host
    BY <1>9 DEF Timeout
  <2>2. CASE Preflight /\ Reject /\ UNCHANGED files
    BY <2>1, <2>2, RejectKeepsGate
  <2>3. CASE /\ Session
             /\ \E out \in Killed(Head(script.todo).mode) : LaunchEnds(out)
             /\ UNCHANGED <<transport_env, preflightOK>>
    <3>1. script.todo # << >>
      BY <2>1, <2>3 DEF GateStandsInv, ScriptInv
    <3>2. PICK out \in Killed(Head(script.todo).mode) : LaunchEnds(out)
      BY <2>3
    <3>3. Sound(Head(script.todo), out)
      BY <2>3, <3>1, HeadIsOfTag, OutputsAreSound
    <3>4. QED
      BY <2>1, <2>3, <3>1, <3>2, <3>3, LaunchEndsSoundly
  <2>4. QED
    BY <1>9, <2>2, <2>3 DEF Timeout
<1>10. CASE EndSession
  BY <1>10, IdleKeepsGate DEF EndSession
<1>11. CASE Interrupted
  BY <1>11, IdleKeepsGate DEF Interrupted
<1>12. CASE UNCHANGED vars
  BY <1>12 DEF vars, GateStandsInv, ScriptInv, GateInv, FilesInv, Sound, Works, Preflight, Session
<1>13. QED
  BY <1>1, <1>2, <1>3, <1>4, <1>5, <1>6, <1>7, <1>8, <1>9, <1>10, <1>11, <1>12 DEF Next, Step

-----------------------------------------------------------------------------
(* A row that is compared is one of a file whose rows are compared.        *)
LEMMA ComparedRow ==
  ASSUME GateStandsInv, NEW r \in Compared
  PROVE  \E path \in DOMAIN files : IsCompared(path) /\ r.by = files[path].by
<1>1. /\ r.workload_kind \in {"ddp-training", "serial-reduction"}
      /\ r \in UNION group(Rows, FALSE, "final")
  BY DEF Compared, CellsOf
<1>2. r \in Rows /\ Counts(r, FALSE, "final")
  BY <1>1 DEF group
<1>3. PICK path \in DOMAIN files : \E rec \in files[path].table : r = Row(path, files[path], rec)
  BY <1>2 DEF Rows, build_rows, parse_table
<1>4. PICK rec \in files[path].table : r = Row(path, files[path], rec)
  BY <1>3
<1>5. /\ path \in Paths /\ Sound(path, files[path])
      /\ rec.mode \in {path.mode, "nosync"}
  BY DEF GateStandsInv, FilesInv, Sound, TrainRows, ProbeRows
<1>6. r.workload_kind = KIND[rec.mode] /\ r.config_label.tag = path.tag /\ r.by = files[path].by
  BY <1>4 DEF Row, LabelOf
<1>7. IsCompared(path)
  <2>1. CASE r.workload_kind = "ddp-training"
    BY <1>2, <1>6, <2>1 DEF Counts, Training, NoPrefix, IsCompared
  <2>2. CASE r.workload_kind = "serial-reduction"
    <3>1. rec.mode \in {"ddp", "single", "serial", "nosync"}
      BY <1>5 DEF Paths
    <3>2. rec.mode = "serial"
      BY <1>6, <2>2, <3>1 DEF KIND
    <3>3. QED
      BY <1>5, <3>2 DEF IsCompared
  <2>3. QED
    BY <1>1, <2>1, <2>2
<1>8. QED
  BY <1>6, <1>7

(* So what is true of the compared files is true of the compared rows.     *)
LEMMA ComparedRowsAreSound == GateStandsInv => FinalRowsAreSound
<1> SUFFICES ASSUME GateStandsInv, NEW r \in Compared
             PROVE  host[r.by.transport] = "works"
  BY DEF FinalRowsAreSound
<1>1. PICK path \in DOMAIN files : IsCompared(path) /\ r.by = files[path].by
  BY ComparedRow
<1>2. QED
  BY <1>1 DEF GateStandsInv, FilesInv, Sound, Works

(* "Only a configuration that passes is allowed to be benchmarked": on any *)
(* host, with any number of launches, sessions, preflights and faults, no  *)
(* row that is compared was measured over a transport that does not work.  *)
THEOREM FinalSessionsAreSound == Spec => []FinalRowsAreSound
<1>1. Init => GateStandsInv
  BY InitHolds
<1>2. GateStandsInv /\ [Next]_vars => GateStandsInv'
  BY StepKeepsGate
<1>3. GateStandsInv => FinalRowsAreSound
  BY ComparedRowsAreSound
<1>4. QED
  BY <1>1, <1>2, <1>3, PTL DEF Spec

-----------------------------------------------------------------------------
(* One launch prints one no_sync probe at most: the rows of a file that    *)
(* are probes are one row.                                                 *)
LEMMA OneProbePerFile ==
  ASSUME GateStandsInv, NEW path \in DOMAIN files,
         NEW rec \in files[path].table, rec.mode = "nosync"
  PROVE  rec = [mode |-> "nosync", repeat |-> 0]
<1>1. path \in Paths /\ rec \in TrainRows(path.mode) \cup ProbeRows(path.mode)
  BY DEF GateStandsInv, FilesInv, Sound
<1>2. rec \in [mode : {"nosync"}, repeat : {0}]
  BY <1>1 DEF Paths, TrainRows, ProbeRows
<1>3. QED
  BY <1>2

(* A row's probes are of the file the row is of, hence of one process      *)
(* group, and at most one.                                                 *)
LEMMA ProbesAreOfOneFile == GateStandsInv => CostComesFromOwnLaunch
<1> SUFFICES ASSUME GateStandsInv, NEW r \in Rows
             PROVE  /\ \A q \in ProbesOf(Rows, r) :
                         q.by = r.by /\ q.raw_output_path = r.raw_output_path
                    /\ Cardinality(ProbesOf(Rows, r)) <= 1
  BY DEF CostComesFromOwnLaunch
<1>1. ASSUME NEW x \in Rows
      PROVE  \E path \in DOMAIN files : \E rec \in files[path].table :
               x = Row(path, files[path], rec)
  BY DEF Rows, build_rows, parse_table
<1>2. PICK path \in DOMAIN files : \E rec \in files[path].table : r = Row(path, files[path], rec)
  BY <1>1
<1>3. r.raw_output_path = path /\ r.by = files[path].by
  BY <1>2 DEF Row
<1> DEFINE probe == Row(path, files[path], [mode |-> "nosync", repeat |-> 0])
<1>4. ASSUME NEW q \in ProbesOf(Rows, r)
      PROVE  q = probe
  <2>1. q \in Rows /\ q.workload_kind = "nosync-probe" /\ q.raw_output_path = path
    BY <1>3 DEF ProbesOf
  <2>2. PICK own \in DOMAIN files : \E rec \in files[own].table : q = Row(own, files[own], rec)
    BY <1>1, <2>1
  <2>3. PICK rec \in files[own].table : q = Row(own, files[own], rec)
    BY <2>2
  <2>4. own = path /\ KIND[rec.mode] = "nosync-probe"
    BY <2>1, <2>3 DEF Row
  <2>5. rec.mode \in {"ddp", "single", "serial", "nosync"}
    BY DEF GateStandsInv, FilesInv, Sound, Paths, TrainRows, ProbeRows
  <2>6. rec.mode = "nosync"
    BY <2>4, <2>5 DEF KIND
  <2>7. rec = [mode |-> "nosync", repeat |-> 0]
    BY <2>6, OneProbePerFile
  <2>8. QED
    BY <2>3, <2>4, <2>7
<1>5. probe.by = r.by /\ probe.raw_output_path = r.raw_output_path
  BY <1>3 DEF Row
<1>6. Cardinality(ProbesOf(Rows, r)) <= 1
  <2>1. ProbesOf(Rows, r) \subseteq {probe}
    BY <1>4
  <2>2. IsFiniteSet({probe}) /\ Cardinality({probe}) = 1
    BY FS_Singleton
  <2>3. /\ Cardinality(ProbesOf(Rows, r)) <= Cardinality({probe})
    BY <2>1, <2>2, FS_Subset
  <2>4. QED
    BY <2>2, <2>3
<1>7. QED
  BY <1>4, <1>5, <1>6

(* "from its OWN launch": whatever was repeated, killed or interrupted,    *)
(* the two times a sync cost is the difference of were measured by one     *)
(* process group, and attach_sync_cost has no choice of the second.        *)
THEOREM CostsAreOfOneLaunch == Spec => []CostComesFromOwnLaunch
<1>1. Init => GateStandsInv
  BY InitHolds
<1>2. GateStandsInv /\ [Next]_vars => GateStandsInv'
  BY StepKeepsGate
<1>3. GateStandsInv => CostComesFromOwnLaunch
  BY ProbesAreOfOneFile
<1>4. QED
  BY <1>1, <1>2, <1>3, PTL DEF Spec

-----------------------------------------------------------------------------
(* A directory used again.  The launches of a sequence, and those of a     *)
(* final session.                                                          *)
Elements(s) == {s[i] : i \in 1 .. Len(s)}
FinalPaths == Elements(Matrix("final", FALSE))

FinalSession == Session /\ script.tag = "final"

(* A compared output that is there has been overwritten by the last final  *)
(* session, or that session is still to launch it; once it is over, all    *)
(* have been.                                                              *)
IsOfLast(path) == files[path].by.session = last["final"].no
SessionInv ==
  /\ last \in [Tags -> [no : Nat, over : BOOLEAN]] /\ sessions \in Nat
  /\ \A path \in DOMAIN files : IsCompared(path) => path \in FinalPaths
  /\ Session =>
       /\ \A path \in Elements(script.todo) : IsCompared(path) => path \in FinalPaths
       /\ last[script.tag].no = sessions /\ ~last[script.tag].over
  /\ FinalSession =>
       \A path \in DOMAIN files :
         IsCompared(path) => IsOfLast(path) \/ path \in Elements(script.todo)
  /\ last["final"].over => \A path \in DOMAIN files : IsCompared(path) => IsOfLast(path)

(* The elements of a sequence of members of a set are members of it.       *)
LEMMA ElementsAreOf ==
  ASSUME NEW S, NEW s \in Seq(S)
  PROVE  Elements(s) \subseteq S
BY DEF Elements

(* What is left after the head.                                            *)
LEMMA HeadOrTail ==
  ASSUME NEW S, NEW s \in Seq(S), s # << >>
  PROVE  /\ Head(s) \in Elements(s)
         /\ Elements(Tail(s)) \subseteq Elements(s)
         /\ Elements(s) \subseteq {Head(s)} \cup Elements(Tail(s))
<1>1. Len(s) \in Nat \ {0} /\ Len(Tail(s)) = Len(s) - 1 /\ Head(s) = s[1]
  OBVIOUS
<1>2. \A i \in 1 .. Len(s) - 1 : Tail(s)[i] = s[i + 1]
  OBVIOUS
<1>3. Elements(Tail(s)) \subseteq Elements(s)
  BY <1>1, <1>2 DEF Elements
<1>4. ASSUME NEW i \in 1 .. Len(s)
      PROVE  s[i] \in {Head(s)} \cup Elements(Tail(s))
  <2>1. CASE i = 1
    BY <1>1, <2>1
  <2>2. CASE i # 1
    <3>1. i - 1 \in 1 .. Len(Tail(s)) /\ Tail(s)[i - 1] = s[i]
      BY <1>1, <1>2, <2>2
    <3>2. QED
      BY <3>1 DEF Elements
  <2>3. QED
    BY <2>1, <2>2
<1>5. Head(s) \in Elements(s)
  <2>1. 1 \in 1 .. Len(s)
    BY <1>1
  <2>2. QED
    BY <1>1, <2>1 DEF Elements
<1>6. Elements(s) \subseteq {Head(s)} \cup Elements(Tail(s))
  BY <1>4 DEF Elements
<1>7. QED
  BY <1>3, <1>5, <1>6

(* A script that is no session leaves what there is.                       *)
LEMMA NoSessionKeeps ==
  ASSUME SessionInv, UNCHANGED <<files, last, sessions>>, ~Session'
  PROVE  SessionInv'
BY DEF SessionInv, FinalSession, IsOfLast, IsCompared

(* The head of what a session has to do, if it is compared, is of a final  *)
(* session, which is not over.                                             *)
LEMMA ComparedHead ==
  ASSUME GateStandsInv, SessionInv, Session, script.todo # << >>
  PROVE  /\ script \in SessionScripts /\ script.todo \in Seq(Paths)
         /\ IsCompared(Head(script.todo)) =>
              /\ script.tag = "final" /\ Head(script.todo) \in FinalPaths
              /\ last["final"].no = sessions /\ ~last["final"].over
<1>1. script \in SessionScripts
  BY HeadIsOfTag
<1>2. script.todo \in Seq(PathsOf(script.tag)) /\ script.todo \in Seq(Paths)
  BY <1>1 DEF GateStandsInv, GateInv, SessionScripts
<1>3. Head(script.todo) \in PathsOf(script.tag) /\ Head(script.todo) \in Elements(script.todo)
  BY <1>2, HeadAndTail, HeadOrTail
<1>4. QED
  BY <1>1, <1>2, <1>3 DEF PathsOf, SessionInv

(* A launch that ends, however it does, leaves an output of this session.  *)
LEMMA LaunchEndsInSession ==
  ASSUME GateStandsInv, SessionInv, Session, script.todo # << >>, NEW out,
         out.by.session = sessions, LaunchEnds(out), UNCHANGED <<last, sessions>>
  PROVE  SessionInv'
<1> DEFINE path == Head(script.todo)
<1>1. /\ script \in SessionScripts /\ script.todo \in Seq(Paths)
      /\ IsCompared(path) => /\ script.tag = "final" /\ path \in FinalPaths
                             /\ last["final"].no = sessions /\ ~last["final"].over
  BY ComparedHead
<1>2. script'.name = "final" /\ script'.tag = script.tag /\ script'.todo = Tail(script.todo)
  BY <1>1 DEF LaunchEnds, SessionScripts
<1>3. /\ Elements(Tail(script.todo)) \subseteq Elements(script.todo)
      /\ Elements(script.todo) \subseteq {path} \cup Elements(Tail(script.todo))
  BY <1>1, HeadOrTail
<1>4. DOMAIN files' = DOMAIN files
      /\ \A p \in DOMAIN files : files'[p] = IF p = path THEN out ELSE files[p]
  BY DEF LaunchEnds, GateStandsInv, FilesInv
<1>5. /\ \A p \in DOMAIN files' : IsCompared(p) => p \in FinalPaths
      /\ \A p \in Elements(script'.todo) : IsCompared(p) => p \in FinalPaths
      /\ last'[script'.tag].no = sessions' /\ ~last'[script'.tag].over
  BY <1>2, <1>3, <1>4 DEF SessionInv
<1>6. ASSUME script.tag = "final", NEW p \in DOMAIN files, IsCompared(p)
      PROVE  files'[p].by.session = last'["final"].no \/ p \in Elements(script'.todo)
  <2>1. CASE p = path
    BY <1>1, <1>4, <1>6, <2>1
  <2>2. CASE p # path
    BY <1>2, <1>3, <1>4, <1>6, <2>2 DEF SessionInv, FinalSession, IsOfLast
  <2>3. QED
    BY <2>1, <2>2
<1>7. ASSUME last["final"].over, NEW p \in DOMAIN files, IsCompared(p)
      PROVE  files'[p].by.session = last'["final"].no
  BY <1>1, <1>4, <1>7 DEF SessionInv, IsOfLast
<1>8. last' \in [Tags -> [no : Nat, over : BOOLEAN]]
  BY DEF SessionInv
<1>9. QED
  BY <1>2, <1>4, <1>5, <1>6, <1>7, <1>8 DEF SessionInv, FinalSession, Session, IsOfLast, IsCompared

(* A session that starts has its launches before it.                       *)
LEMMA SessionsStart ==
  ASSUME SessionInv, NEW tag \in Tags, NEW transport, NEW skipRef \in BOOLEAN,
         StartSession(tag, transport, skipRef),
         \A path \in Elements(Matrix(tag, skipRef)) : IsCompared(path) => path \in FinalPaths,
         tag = "final" => Elements(Matrix(tag, skipRef)) = FinalPaths
  PROVE  SessionInv'
<1>1. /\ script'.name = "final" /\ script'.tag = tag /\ script'.todo = Matrix(tag, skipRef)
      /\ last' = [last EXCEPT ![tag] = [no |-> sessions', over |-> FALSE]]
      /\ files' = files /\ sessions' = sessions + 1 /\ sessions' \in Nat
  BY DEF StartSession, SessionInv
<1>2. /\ last'[tag].no = sessions' /\ ~last'[tag].over
      /\ last' \in [Tags -> [no : Nat, over : BOOLEAN]]
      /\ tag # "final" => last'["final"] = last["final"]
  BY <1>1 DEF SessionInv, Tags
<1>3. /\ \A path \in DOMAIN files' : IsCompared(path) => path \in FinalPaths
      /\ last'["final"].over => tag # "final"
  BY <1>1, <1>2 DEF SessionInv
<1>4. last'["final"].over => \A path \in DOMAIN files' :
        IsCompared(path) => files'[path].by.session = last'["final"].no
  BY <1>1, <1>2, <1>3 DEF SessionInv, IsOfLast
<1>5. QED
  BY <1>1, <1>2, <1>3, <1>4 DEF SessionInv, FinalSession, Session, IsOfLast, IsCompared

(* Which session an output is of.                                          *)
LEMMA SessionStep == GateStandsInv /\ SessionInv /\ [Next]_vars => SessionInv'
<1> SUFFICES ASSUME GateStandsInv, SessionInv, [Next]_vars PROVE SessionInv'
  OBVIOUS
<1>1. CASE StartPreflight
  BY <1>1, NoSessionKeeps DEF StartPreflight, Session
<1>2. CASE StartFinal
  <2>1. StartSession("final", transport_env, FALSE)
    BY <1>2 DEF StartFinal
  <2>2. Elements(Matrix("final", FALSE)) = FinalPaths
    BY DEF FinalPaths
  <2>3. QED
    BY <2>1, <2>2, SessionsStart DEF Tags
<1>3. CASE StartAnchor
  <2>1. ASSUME NEW path \in Elements(Matrix("shm", TRUE))
        PROVE  ~IsCompared(path)
    <3>1. path \in PathsOf("shm")
      BY MatrixIsOfTag, ElementsAreOf
    <3>2. QED
      BY <3>1 DEF PathsOf
  <2>2. QED
    BY <1>3, <2>1, SessionsStart DEF StartAnchor, Tags
<1>4. CASE StartGate
  <2>1. script \in PreflightScripts
    BY <1>4 DEF StartGate, GateStandsInv, ScriptInv, Preflight, Idle, SessionScripts,
                PreflightScripts
  <2>2. ~Session' /\ UNCHANGED <<files, last, sessions>>
    BY <1>4, <2>1 DEF StartGate, Session, PreflightScripts, runs
  <2>3. QED
    BY <2>2, NoSessionKeeps
<1>5. ASSUME Preflight, Accept \/ Reject, UNCHANGED <<files, last, sessions>>
      PROVE  SessionInv'
  <2>1. script \in PreflightScripts
    BY <1>5 DEF GateStandsInv, ScriptInv, Preflight, Idle, SessionScripts
  <2>2. CASE Accept
    BY <1>5, <2>2, NoSessionKeeps DEF Accept, Session, Idle
  <2>3. CASE Reject
    <3>1. script'.name = "preflight"
      BY <2>1, <2>3 DEF Reject, PreflightScripts
    <3>2. QED
      BY <1>5, <3>1, NoSessionKeeps DEF Session
  <2>4. QED
    BY <1>5, <2>2, <2>3
<1>6. CASE EndGate
  BY <1>5, <1>6 DEF EndGate
<1>7. CASE FailPreflight
  BY <1>7, NoSessionKeeps DEF FailPreflight, Session, Idle, runs
<1>8. CASE StartLaunch
  <2> DEFINE path == Head(script.todo)
             new  == Printed("absent", {})
  <2>1. Session /\ script.todo # << >> /\ UNCHANGED <<last, sessions>>
    BY <1>8 DEF StartLaunch, runs
  <2>2. /\ script \in SessionScripts /\ script.todo \in Seq(Paths)
        /\ IsCompared(path) => /\ script.tag = "final" /\ path \in FinalPaths
                               /\ last["final"].no = sessions /\ ~last["final"].over
    BY <2>1, ComparedHead
  <2>3. /\ script'.name = "final" /\ script'.tag = script.tag /\ script'.todo = script.todo
    BY <1>8, <2>2 DEF StartLaunch, SessionScripts
  <2>4. DOMAIN files' = DOMAIN files \cup {path}
        /\ \A p \in DOMAIN files' : files'[p] = IF p = path THEN new ELSE files[p]
    BY <1>8 DEF StartLaunch
  <2>5. new.by.session = sessions /\ path \in Elements(script.todo)
    BY <2>1, <2>2, HeadOrTail DEF Printed, By
  <2> HIDE DEF new, path
  <2>6. /\ \A p \in DOMAIN files' : IsCompared(p) => p \in FinalPaths
        /\ \A p \in Elements(script'.todo) : IsCompared(p) => p \in FinalPaths
        /\ last'[script'.tag].no = sessions' /\ ~last'[script'.tag].over
    BY <2>1, <2>2, <2>3, <2>4 DEF SessionInv
  <2>7. ASSUME script.tag = "final", NEW p \in DOMAIN files', IsCompared(p)
        PROVE  files'[p].by.session = last'["final"].no \/ p \in Elements(script'.todo)
    BY <2>1, <2>3, <2>4, <2>5, <2>7 DEF SessionInv, FinalSession, IsOfLast
  <2>8. ASSUME last["final"].over, NEW p \in DOMAIN files', IsCompared(p)
        PROVE  files'[p].by.session = last'["final"].no
    BY <2>1, <2>2, <2>4, <2>8 DEF SessionInv, IsOfLast
  <2>9. last' \in [Tags -> [no : Nat, over : BOOLEAN]]
    BY <2>1 DEF SessionInv
  <2>10. QED
    BY <2>1, <2>3, <2>6, <2>7, <2>8, <2>9
       DEF SessionInv, FinalSession, Session, IsOfLast, IsCompared
<1>9. \A mode : \A out \in {Complete(mode)} \cup Partial(mode) \cup Killed(mode) :
        out.by.session = sessions
  BY DEF Complete, Partial, Killed, Printed, By
<1>10. CASE EndLaunch
  <2>1. /\ Session /\ script.todo # << >> /\ UNCHANGED <<last, sessions>>
    BY <1>10 DEF EndLaunch, GateStandsInv, ScriptInv
  <2>2. PICK out \in {Complete(Head(script.todo).mode)} \cup Partial(Head(script.todo).mode) :
          LaunchEnds(out)
    BY <1>10 DEF EndLaunch
  <2>3. QED
    BY <1>9, <2>1, <2>2, LaunchEndsInSession
<1>11. CASE Timeout
  <2>1. script.process # "none" /\ UNCHANGED <<last, sessions>>
    BY <1>11 DEF Timeout
  <2>2. CASE Preflight /\ Reject /\ UNCHANGED files
    BY <1>5, <2>1, <2>2
  <2>3. CASE Session /\ \E out \in Killed(Head(script.todo).mode) : LaunchEnds(out)
    <3>1. script.todo # << >>
      BY <2>1, <2>3 DEF GateStandsInv, ScriptInv
    <3>2. PICK out \in Killed(Head(script.todo).mode) : LaunchEnds(out)
      BY <2>3
    <3>3. QED
      BY <1>9, <2>1, <2>3, <3>1, <3>2, LaunchEndsInSession
  <2>4. QED
    BY <1>11, <2>2, <2>3 DEF Timeout
<1>12. CASE EndSession
  <2>1. Session /\ script.todo = << >> /\ UNCHANGED <<files, sessions>> /\ ~Session'
        /\ last' = [last EXCEPT ![script.tag].over = TRUE] /\ script \in SessionScripts
    BY <1>12, HeadIsOfTag DEF EndSession, runs, Session, Idle, GateStandsInv, ScriptInv,
                              PreflightScripts
  <2>2. /\ last' \in [Tags -> [no : Nat, over : BOOLEAN]] /\ last'["final"].no = last["final"].no
        /\ script.tag # "final" => last'["final"] = last["final"]
    BY <2>1 DEF SessionInv, SessionScripts, Tags
  <2>3. ASSUME last'["final"].over, NEW path \in DOMAIN files, IsCompared(path)
        PROVE  IsOfLast(path)
    <3>1. CASE script.tag = "final"
      <4>1. Elements(script.todo) = {}
        BY <2>1 DEF Elements
      <4>2. QED
        BY <2>1, <2>3, <3>1, <4>1 DEF SessionInv, FinalSession
    <3>2. CASE script.tag # "final"
      BY <2>2, <2>3, <3>2 DEF SessionInv
    <3>3. QED
      BY <3>1, <3>2
  <2>4. QED
    BY <2>1, <2>2, <2>3 DEF SessionInv, FinalSession, IsOfLast, IsCompared
<1>13. CASE Interrupted
  BY <1>13, NoSessionKeeps DEF Interrupted, Session, Idle
<1>14. CASE UNCHANGED vars
  BY <1>14 DEF vars, runs, SessionInv, FinalSession, Session, IsOfLast, IsCompared
<1>15. QED
  BY <1>1, <1>2, <1>3, <1>4, <1>6, <1>7, <1>8, <1>10, <1>11, <1>12, <1>13, <1>14 DEF Next, Step

(* At first there is no session and no output.                             *)
LEMMA SessionInit == Init => SessionInv
<1> SUFFICES ASSUME Init PROVE SessionInv
  OBVIOUS
<1>1. ~Session /\ DOMAIN files = {}
  BY DEF Init, Session, Idle
<1>2. last \in [Tags -> [no : Nat, over : BOOLEAN]] /\ sessions \in Nat
  BY DEF Init
<1>3. ~last["final"].over
  BY DEF Init, Tags
<1>4. QED
  BY <1>1, <1>2, <1>3 DEF SessionInv, FinalSession

(* When the final session is over, whatever the directory has seen before, *)
(* the rows that are compared are all of that session: none is left of one *)
(* that was interrupted, went over another transport or was the anchor's.  *)
THEOREM ComparisonsOfOneSession == Spec => []ComparisonsAreOfOneSession
<1>1. Init => GateStandsInv /\ SessionInv
  BY InitHolds, SessionInit
<1>2. GateStandsInv /\ SessionInv /\ [Next]_vars => (GateStandsInv /\ SessionInv)'
  BY StepKeepsGate, SessionStep
<1>3. GateStandsInv /\ SessionInv => ComparisonsAreOfOneSession
  <2> SUFFICES ASSUME GateStandsInv, SessionInv, Over("final"), NEW r \in Compared
               PROVE  r.by.session = last["final"].no
    BY DEF ComparisonsAreOfOneSession
  <2>1. PICK path \in DOMAIN files : IsCompared(path) /\ r.by = files[path].by
    BY ComparedRow
  <2>2. QED
    BY <2>1 DEF SessionInv, Over, IsOfLast
<1>4. QED
  BY <1>1, <1>2, <1>3, PTL DEF Spec

-----------------------------------------------------------------------------
(* The cells: the training row of a file.                                  *)
TrainingRowOf(path) == Row(path, files[path], [mode |-> "ddp", repeat |-> 0])

(* A training row is the one row of its file that is.                      *)
LEMMA TrainingRow ==
  ASSUME GateStandsInv, NEW r \in Rows, Training(r)
  PROVE  \E path \in DOMAIN files : path \in Paths /\ path.mode = "ddp" /\ r = TrainingRowOf(path)
<1>1. PICK path \in DOMAIN files : \E rec \in files[path].table : r = Row(path, files[path], rec)
  BY DEF Rows, build_rows, parse_table
<1>2. PICK rec \in files[path].table : r = Row(path, files[path], rec)
  BY <1>1
<1>3. path \in Paths /\ rec \in TrainRows(path.mode) \cup ProbeRows(path.mode)
  BY DEF GateStandsInv, FilesInv, Sound
<1>4. KIND[rec.mode] = "ddp-training"
  BY <1>2 DEF Row, Training
<1>5. rec \in [mode : {path.mode}, repeat : {0}] \/ rec.mode = "nosync"
  BY <1>3 DEF TrainRows, ProbeRows, LaunchRepeats
<1>6. path.mode \in {"ddp", "single", "serial"}
  BY <1>3 DEF Paths
<1>7. rec.mode = "ddp" /\ path.mode = "ddp"
  BY <1>4, <1>5, <1>6 DEF KIND
<1>8. rec = [mode |-> "ddp", repeat |-> 0]
  BY <1>5, <1>7
<1>9. QED
  BY <1>2, <1>3, <1>7, <1>8 DEF TrainingRowOf

(* No launch has the label that the noise floor is looked for in first.    *)
LEMMA NoRelaunches ==
  ASSUME GateStandsInv, NEW prefix
  PROVE  NoiseCells(Rows, prefix) = CellsOf("ddp-training", group(Rows, FALSE, prefix))
<1>1. ASSUME NEW cell \in CellsOf("ddp-training", group(Rows, TRUE, prefix))
      PROVE  FALSE
  <2>1. /\ \A r \in cell : r.workload_kind = "ddp-training"
        /\ cell \in group(Rows, TRUE, prefix)
    BY <1>1 DEF CellsOf
  <2>2. PICK r \in Rows : r \in cell /\ Counts(r, TRUE, prefix)
    BY <2>1 DEF group
  <2>3. Training(r) /\ r.config_label.tag = "relaunch"
    BY <2>1, <2>2 DEF Training, Counts
  <2>4. PICK path \in DOMAIN files : path \in Paths /\ r = TrainingRowOf(path)
    BY <2>3, TrainingRow
  <2>5. r.config_label.tag = path.tag
    BY <2>4 DEF TrainingRowOf, Row, LabelOf
  <2>6. QED
    BY <2>3, <2>4, <2>5 DEF Paths, Tags
<1>2. CellsOf("ddp-training", group(Rows, TRUE, prefix)) = {}
  BY <1>1
<1>3. QED
  BY <1>2 DEF NoiseCells

(* A cell of training rows of one tag has rows of one capacity, one of     *)
(* each launch.                                                            *)
TrainingCells(prefix) == CellsOf("ddp-training", group(Rows, FALSE, prefix))
LaunchOf(prefix, mb, n) == Launch("ddp", prefix, mb, n)
IsCellOf(cell, prefix, mb) ==
  /\ cell = {r \in Rows : Counts(r, FALSE, prefix) /\ Key(r) = <<"MiB", mb>>}
  /\ \A r \in cell : \E n \in 0 .. LAUNCHES - 1 :
       /\ LaunchOf(prefix, mb, n) \in DOMAIN files
       /\ r = TrainingRowOf(LaunchOf(prefix, mb, n))

(* A cell is not empty, and its rows are those of one capacity.            *)
LEMMA RowsOfACell ==
  ASSUME GateStandsInv, NEW prefix \in Tags, NEW cell \in TrainingCells(prefix)
  PROVE  /\ cell # {} /\ cell \subseteq Rows
         /\ \E mb : IsCellOf(cell, prefix, mb)
<1>1. /\ cell \in group(Rows, FALSE, prefix)
      /\ \A r \in cell : Training(r)
  BY DEF TrainingCells, CellsOf, Training
<1>2. PICK q \in Rows :
        /\ Counts(q, FALSE, prefix)
        /\ cell = {r \in Rows : Counts(r, FALSE, prefix) /\ Key(r) = Key(q)}
  BY <1>1 DEF group
<1>3. q \in cell /\ Key(q) = <<"MiB", q.bucket_cap_mb>>
  BY <1>1, <1>2 DEF Key
<1>4. ASSUME NEW r \in cell
      PROVE  \E n \in 0 .. LAUNCHES - 1 :
               /\ LaunchOf(prefix, q.bucket_cap_mb, n) \in DOMAIN files
               /\ r = TrainingRowOf(LaunchOf(prefix, q.bucket_cap_mb, n))
  <2>1. /\ r \in Rows /\ Training(r) /\ Counts(r, FALSE, prefix)
        /\ r.bucket_cap_mb = q.bucket_cap_mb
    BY <1>1, <1>2, <1>3 DEF Key
  <2>2. PICK path \in DOMAIN files :
          path \in Paths /\ path.mode = "ddp" /\ r = TrainingRowOf(path)
    BY <2>1, TrainingRow
  <2>3. r.config_label.tag = path.tag /\ r.bucket_cap_mb = path.mb
    BY <2>2 DEF TrainingRowOf, Row, LabelOf
  <2>4. path.tag = prefix
    BY <2>1, <2>3 DEF Counts, Tags, NoPrefix
  <2>5. path = LaunchOf(prefix, q.bucket_cap_mb, path.launch) /\ path.launch \in 0 .. LAUNCHES - 1
    BY <2>1, <2>2, <2>3, <2>4 DEF Paths, LaunchOf, Launch
  <2>6. QED
    BY <2>2, <2>5
<1>5. IsCellOf(cell, prefix, q.bucket_cap_mb)
  BY <1>2, <1>3, <1>4 DEF IsCellOf
<1>6. QED
  BY <1>2, <1>3, <1>5

(* So it has no more rows than there are launches, all of them different.  *)
LEMMA CellsAreAcrossLaunches ==
  ASSUME GateStandsInv, NEW prefix \in Tags, NEW cell \in TrainingCells(prefix)
  PROVE  /\ IsFiniteSet(cell) /\ Cardinality(cell) <= LAUNCHES
         /\ \A q, r \in cell : q.raw_output_path = r.raw_output_path => q = r
<1>0. PICK mb : IsCellOf(cell, prefix, mb)
  BY RowsOfACell
<1>1. \A r \in cell : \E n \in 0 .. LAUNCHES - 1 : r = TrainingRowOf(LaunchOf(prefix, mb, n))
  BY <1>0 DEF IsCellOf
<1> DEFINE f == [n \in 0 .. LAUNCHES - 1 |-> TrainingRowOf(LaunchOf(prefix, mb, n))]
           all == {f[n] : n \in 0 .. LAUNCHES - 1}
<1>2. LAUNCHES \in Nat \ {0}
  BY CampaignAssumption
<1>3. IsFiniteSet(0 .. LAUNCHES - 1) /\ Cardinality(0 .. LAUNCHES - 1) = LAUNCHES
  BY <1>2, FS_Interval
<1>4. f \in Surjection(0 .. LAUNCHES - 1, all)
  BY DEF Surjection
<1>5. IsFiniteSet(all) /\ Cardinality(all) <= LAUNCHES
  BY <1>3, <1>4, FS_Surjection
<1>6. cell \in SUBSET all
  BY <1>1
<1>7. IsFiniteSet(cell) /\ Cardinality(cell) <= Cardinality(all)
  BY <1>5, <1>6, FS_Subset
<1>8. Cardinality(cell) <= LAUNCHES
  <2>1. Cardinality(cell) \in Int /\ Cardinality(all) \in Int
    BY <1>5, <1>7, FS_CardinalityType
  <2>2. QED
    BY <1>2, <1>5, <1>7, <2>1
<1>9. ASSUME NEW q \in cell, NEW r \in cell, q.raw_output_path = r.raw_output_path
      PROVE  q = r
  <2>1. \A path : TrainingRowOf(path).raw_output_path = path
    BY DEF TrainingRowOf, Row
  <2>2. QED
    BY <1>1, <1>9, <2>1
<1>10. QED
  BY <1>7, <1>8, <1>9

(* The spread of a cell, the noise floor, is one across process launches,  *)
(* each with one row, for any capacities and number of launches, whatever  *)
(* is missing: a repeat within one launch never counts.                    *)
THEOREM NoiseOfLaunches == Spec => []NoiseIsAcrossLaunches
<1>1. GateStandsInv => NoiseIsAcrossLaunches
  BY NoRelaunches, CellsAreAcrossLaunches DEF NoiseIsAcrossLaunches, TrainingCells
<1>2. QED
  BY <1>1, InitHolds, StepKeepsGate, PTL DEF Spec

-----------------------------------------------------------------------------
(* Minima and maxima.  A set of natural numbers that is not empty has a    *)
(* least element,                                                          *)
LEMMA Least ==
  ASSUME NEW T, T \subseteq Nat, T # {}
  PROVE  \E x \in T : \A y \in T : x <= y
<1> DEFINE R == OpToRel(<, Nat)
<1>1. IsWellFoundedOn(R, Nat)
  BY NatLessThanWellFounded
<1>2. PICK x \in T : \A y \in T : ~(<<y, x>> \in R)
  <2> HIDE DEF R
  <2>1. QED
    BY <1>1, WFMin
<1>3. ASSUME NEW y \in T, y < x
      PROVE  <<y, x>> \in R
  <2>1. <<y, x>> \in Nat \X Nat
    OBVIOUS
  <2>2. QED
    BY <1>3, <2>1 DEF OpToRel
<1>4. \A y \in T : ~(y < x)
  BY <1>2, <1>3
<1>5. QED
  BY <1>4

(* and so has a finite set of integers: one with the fewest below it has   *)
(* none below it.                                                          *)
LEMMA MinIsThere ==
  ASSUME NEW S, IsFiniteSet(S), S \subseteq Int, S # {}
  PROVE  Min(S) \in S /\ \A y \in S : Min(S) <= y
<1> DEFINE below(x) == {y \in S : y < x}
           T == {Cardinality(below(x)) : x \in S}
<1>1. \A x \in S : IsFiniteSet(below(x)) /\ Cardinality(below(x)) \in Nat
  BY FS_Subset, FS_CardinalityType
<1>2. T \subseteq Nat /\ T # {}
  BY <1>1
<1>3. PICK n \in T : \A m \in T : n <= m
  <2> HIDE DEF T
  <2>1. QED
    BY <1>2, Least
<1>4. PICK x \in S : \A z \in S : Cardinality(below(x)) <= Cardinality(below(z))
  BY <1>3
<1>5. ASSUME NEW y \in S, y < x
      PROVE  FALSE
  <2>1. below(y) \in SUBSET below(x)
    <3>1. ASSUME NEW z \in S, z < y PROVE z < x
      <4>1. x \in Int /\ y \in Int /\ z \in Int
        OBVIOUS
      <4>2. QED
        BY <1>5, <3>1, <4>1
    <3>2. QED
      BY <3>1
  <2>2. below(y) # below(x)
    BY <1>5
  <2>3. IsFiniteSet(below(x)) /\ IsFiniteSet(below(y))
    BY <1>1
  <2> HIDE DEF below
  <2>4. /\ Cardinality(below(y)) <= Cardinality(below(x))
        /\ Cardinality(below(x)) = Cardinality(below(y)) => below(x) = below(y)
    BY <2>1, <2>3, FS_Subset
  <2>5. Cardinality(below(y)) \in Nat /\ Cardinality(below(x)) \in Nat
    BY <2>3, FS_CardinalityType
  <2>6. Cardinality(below(x)) <= Cardinality(below(y))
    BY <1>4
  <2>7. Cardinality(below(x)) = Cardinality(below(y))
    <3> DEFINE a == Cardinality(below(x))
               b == Cardinality(below(y))
    <3>1. a \in Nat /\ b \in Nat /\ a <= b /\ b <= a
      BY <2>4, <2>5, <2>6
    <3> HIDE DEF a, b
    <3>2. a = b
      BY <3>1
    <3>3. QED
      BY <3>2 DEF a, b
  <2>8. QED
    BY <2>2, <2>4, <2>7, Zenon
<1>6. \A y \in S : x <= y
  <2>1. x \in Int /\ \A y \in S : y \in Int
    OBVIOUS
  <2>2. QED
    BY <1>5, <2>1
<1>7. QED
  BY <1>6 DEF Min

(* Its maximum is the least of the negatives.                              *)
LEMMA MaxIsThere ==
  ASSUME NEW S, IsFiniteSet(S), S \subseteq Int, S # {}
  PROVE  Max(S) \in S /\ \A y \in S : y <= Max(S)
<1> DEFINE N == {-x : x \in S}
           f == [x \in S |-> -x]
<1>1. f \in Surjection(S, N)
  BY DEF Surjection
<1>2. IsFiniteSet(N)
  BY <1>1, FS_Surjection
<1>3. N \subseteq Int /\ N # {}
  OBVIOUS
<1>4. PICK m \in N : \A y \in N : m <= y
  <2> HIDE DEF N
  <2>1. QED
    BY <1>2, <1>3, MinIsThere
<1>5. PICK x \in S : m = -x
  OBVIOUS
<1>6. \A y \in S : -y \in N
  OBVIOUS
<1>7. \A y \in S : x >= y
  BY <1>4, <1>5, <1>6
<1>8. QED
  BY <1>7 DEF Max

(* The times of a cell are a finite set,                                   *)
LEMMA TimesAreFinite ==
  ASSUME NEW cell, IsFiniteSet(cell), cell # {}, NEW time, \A r \in cell : time[r] \in Int
  PROVE  /\ IsFiniteSet(TimesIn(cell, time)) /\ TimesIn(cell, time) \subseteq Int
         /\ TimesIn(cell, time) # {}
<1> DEFINE f == [r \in cell |-> time[r]]
<1>1. f \in Surjection(cell, TimesIn(cell, time))
  BY DEF Surjection, TimesIn
<1>2. IsFiniteSet(TimesIn(cell, time))
  BY <1>1, FS_Surjection
<1>3. QED
  BY <1>2 DEF TimesIn

(* the k-th smallest is one of them,                                       *)
LEMMA SmallestIsATime ==
  ASSUME NEW cell, IsFiniteSet(cell), cell # {}, NEW time, \A r \in cell : time[r] \in Int,
         NEW k \in Int, k <= Cardinality(cell)
  PROVE  Smallest(k, cell, time) \in TimesIn(cell, time)
<1> DEFINE times == TimesIn(cell, time)
           reached == {t \in times : Cardinality({r \in cell : time[r] <= t}) >= k}
<1>1. IsFiniteSet(times) /\ times \subseteq Int /\ times # {}
  BY TimesAreFinite
<1>2. Max(times) \in times /\ \A t \in times : t <= Max(times)
  <2> HIDE DEF times
  <2>1. QED
    BY <1>1, MaxIsThere
<1>3. \A r \in cell : time[r] \in times
  BY DEF TimesIn
<1>4. {r \in cell : time[r] <= Max(times)} = cell
  BY <1>2, <1>3
<1>5. Max(times) \in reached
  <2> HIDE DEF times
  <2>1. Cardinality(cell) \in Int /\ Cardinality(cell) >= k
    BY FS_CardinalityType
  <2>2. QED
    BY <1>2, <1>4, <2>1
<1>6. IsFiniteSet(reached) /\ reached \subseteq Int /\ reached # {}
  <2> HIDE DEF times
  <2>1. reached \in SUBSET times
    OBVIOUS
  <2>2. QED
    BY <1>1, <1>5, <2>1, FS_Subset
<1>7. Min(reached) \in reached
  <2> HIDE DEF reached
  <2>1. QED
    BY <1>6, MinIsThere
<1>8. QED
  BY <1>7 DEF Smallest

(* and so the median is not below the least nor above the greatest.        *)
LEMMA MedianIsWithin ==
  ASSUME NEW cell, IsFiniteSet(cell), cell # {}, NEW time, \A r \in cell : time[r] \in Int
  PROVE  /\ Median2(cell, time) \in Int /\ Spread(cell, time) \in Int
         /\ \A r \in cell :
              /\ Median2(cell, time) - 2 * time[r] <= 2 * Spread(cell, time)
              /\ 2 * time[r] - Median2(cell, time) <= 2 * Spread(cell, time)
<1> DEFINE n == Cardinality(cell)
           times == TimesIn(cell, time)
           a == Smallest((n + 1) \div 2, cell, time)
           b == Smallest(n \div 2 + 1, cell, time)
<1>1. n \in Nat /\ n # 0
  BY FS_CardinalityType, FS_EmptySet
<1>2. /\ (n + 1) \div 2 \in Int /\ (n + 1) \div 2 <= n
      /\ n \div 2 + 1 \in Int /\ n \div 2 + 1 <= n
  <2> HIDE DEF n
  <2>1. QED
    BY <1>1
<1>3. a \in times /\ b \in times
  BY <1>2, SmallestIsATime
<1>4. IsFiniteSet(times) /\ times \subseteq Int /\ times # {}
  BY TimesAreFinite
<1>5. /\ Min(times) \in times /\ \A t \in times : Min(times) <= t
      /\ Max(times) \in times /\ \A t \in times : t <= Max(times)
  <2> HIDE DEF times
  <2>1. QED
    BY <1>4, MinIsThere, MaxIsThere
<1>6. \A r \in cell : time[r] \in times
  BY DEF TimesIn
<1>7. Median2(cell, time) = a + b /\ Spread(cell, time) = Max(times) - Min(times)
  BY DEF Median2, Spread
<1> DEFINE lo == Min(times)
           hi == Max(times)
<1> HIDE DEF a, b, times
<1>8. /\ a \in Int /\ lo <= a /\ a <= hi /\ b \in Int /\ lo <= b /\ b <= hi
      /\ lo \in Int /\ hi \in Int
  BY <1>3, <1>4, <1>5
<1>9. \A r \in cell : time[r] \in Int /\ lo <= time[r] /\ time[r] <= hi
  BY <1>4, <1>5, <1>6
<1> HIDE DEF lo, hi
<1>10. Median2(cell, time) = a + b /\ Spread(cell, time) = hi - lo
  BY <1>7 DEF lo, hi
<1>11. ASSUME NEW r \in cell
       PROVE  /\ Median2(cell, time) - 2 * time[r] <= 2 * Spread(cell, time)
              /\ 2 * time[r] - Median2(cell, time) <= 2 * Spread(cell, time)
  BY <1>8, <1>9, <1>10
<1>12. QED
  BY <1>8, <1>10, <1>11

(* The elements of a sequence are finitely many,                           *)
LEMMA ElementsAreFinite ==
  ASSUME NEW S, NEW s \in Seq(S)
  PROVE  IsFiniteSet(Elements(s))
<1> DEFINE f == [i \in 1 .. Len(s) |-> s[i]]
<1>1. IsFiniteSet(1 .. Len(s))
  BY FS_Interval
<1>2. f \in Surjection(1 .. Len(s), Elements(s))
  BY DEF Surjection, Elements
<1>3. QED
  BY <1>1, <1>2, FS_Surjection

(* so that of finitely many launches there are finitely many cells.        *)
LEMMA CellsAreFinite ==
  ASSUME GateStandsInv, SessionInv
  PROVE  IsFiniteSet(TrainingCells("final"))
<1> DEFINE cellOf(path) == {r \in Rows : Counts(r, FALSE, "final") /\ Key(r) = <<"MiB", path.mb>>}
           g == [path \in FinalPaths |-> cellOf(path)]
           all == {g[path] : path \in FinalPaths}
<1>1. Matrix("final", FALSE) \in Seq(PathsOf("final"))
  BY MatrixIsOfTag
<1>4. IsFiniteSet(FinalPaths)
  BY <1>1, ElementsAreFinite DEF FinalPaths
<1>5. g \in Surjection(FinalPaths, all)
  BY DEF Surjection
<1>6. IsFiniteSet(all)
  BY <1>4, <1>5, FS_Surjection
<1>7. ASSUME NEW cell \in TrainingCells("final")
      PROVE  cell \in all
  <2>1. cell # {} /\ \E mb : IsCellOf(cell, "final", mb)
    BY RowsOfACell DEF Tags
  <2>2. PICK mb : IsCellOf(cell, "final", mb)
    BY <2>1
  <2>3. PICK n \in 0 .. LAUNCHES - 1 : LaunchOf("final", mb, n) \in DOMAIN files
    BY <2>1, <2>2 DEF IsCellOf
  <2>4. IsCompared(LaunchOf("final", mb, n)) /\ LaunchOf("final", mb, n).mb = mb
    BY DEF IsCompared, LaunchOf, Launch
  <2>5. LaunchOf("final", mb, n) \in FinalPaths
    BY <2>3, <2>4 DEF SessionInv
  <2>6. g[LaunchOf("final", mb, n)] = cell
    BY <2>2, <2>4, <2>5 DEF IsCellOf
  <2>7. QED
    BY <2>5, <2>6
<1>8. QED
  BY <1>6, <1>7, FS_Subset

(* In finitely many finite cells, the noise floor is not below the spread  *)
(* of any, and a cell beyond it from the best is beyond it row by row.     *)
LEMMA GapsBeyondNoise ==
  ASSUME NEW cells, IsFiniteSet(cells),
         \A cell \in cells : IsFiniteSet(cell) /\ cell # {},
         NEW time, \A cell \in cells : \A r \in cell : time[r] \in Int,
         NEW cell \in cells, Resolvable(cell, cells, Noise(cells, time), time)
  PROVE  /\ \A r \in cell : 2 * time[r] > Best2(cells, time)
         /\ \A other \in cells : Median2(other, time) = Best2(cells, time) =>
              \A q \in other : 2 * time[q] < Median2(cell, time)
<1> DEFINE spreads == {Spread(c, time) : c \in cells}
           medians == {Median2(c, time) : c \in cells}
           f == [c \in cells |-> Spread(c, time)]
           g == [c \in cells |-> Median2(c, time)]
           noise == Noise(cells, time)
           best == Best2(cells, time)
<1>1. ASSUME NEW c \in cells
      PROVE  /\ Median2(c, time) \in Int /\ Spread(c, time) \in Int
             /\ \A r \in c :
                  /\ Median2(c, time) - 2 * time[r] <= 2 * Spread(c, time)
                  /\ 2 * time[r] - Median2(c, time) <= 2 * Spread(c, time)
  <2>1. IsFiniteSet(c) /\ c # {} /\ \A r \in c : time[r] \in Int
    OBVIOUS
  <2>2. QED
    BY <2>1, MedianIsWithin
<1>2. spreads \subseteq Int /\ spreads # {} /\ medians \subseteq Int /\ medians # {}
  BY <1>1
<1>3. f \in Surjection(cells, spreads) /\ g \in Surjection(cells, medians)
  BY DEF Surjection
<1>4. IsFiniteSet(spreads) /\ IsFiniteSet(medians)
  BY <1>3, FS_Surjection
<1>5. Max(spreads) \in spreads /\ (\A s \in spreads : s <= Max(spreads)) /\ Min(medians) \in medians
  <2> HIDE DEF spreads, medians
  <2>1. QED
    BY <1>2, <1>4, MinIsThere, MaxIsThere
<1>6. noise = Max(spreads) /\ best = Min(medians)
  BY DEF Noise, Best2
<1>7. noise \in Int /\ best \in Int /\ \A c \in cells : Spread(c, time) <= noise
  BY <1>2, <1>5, <1>6
<1>8. Median2(cell, time) - best > 2 * noise
  BY DEF Resolvable
<1> HIDE DEF noise, best
<1>9. ASSUME NEW r \in cell
      PROVE  2 * time[r] > best
  <2>1. /\ Median2(cell, time) \in Int /\ Spread(cell, time) \in Int /\ time[r] \in Int
        /\ Median2(cell, time) - 2 * time[r] <= 2 * Spread(cell, time)
        /\ Spread(cell, time) <= noise
    BY <1>1, <1>7
  <2>2. QED
    BY <1>7, <1>8, <2>1
<1>10. ASSUME NEW other \in cells, Median2(other, time) = best, NEW q \in other
       PROVE  2 * time[q] < Median2(cell, time)
  <2>1. /\ Median2(cell, time) \in Int /\ Spread(other, time) \in Int /\ time[q] \in Int
        /\ 2 * time[q] - best <= 2 * Spread(other, time)
        /\ Spread(other, time) <= noise
    BY <1>1, <1>7, <1>10
  <2>2. QED
    BY <1>7, <1>8, <2>1
<1>11. QED
  BY <1>9, <1>10 DEF best

(* The plateau rule keeps its word for any step times, capacities, number  *)
(* of launches, and launches missing: what it calls resolvably slower was  *)
(* slower in every launch than the best capacity's median.                 *)
THEOREM GapsAreReal == Spec => []ResolvableGapsAreReal
<1>1. GateStandsInv /\ SessionInv => ResolvableGapsAreReal
  <2> SUFFICES ASSUME GateStandsInv, SessionInv PROVE ResolvableGapsAreReal
    OBVIOUS
  <2> DEFINE cells == TrainingCells("final")
  <2>1. NoiseCells(Rows, "final") = cells
    BY NoRelaunches DEF TrainingCells
  <2>2. IsFiniteSet(cells) /\ \A cell \in cells : IsFiniteSet(cell) /\ cell # {}
    BY CellsAreFinite, CellsAreAcrossLaunches, RowsOfACell DEF Tags
  <2> HIDE DEF cells
  <2>3. ASSUME NEW time \in [UNION cells -> StepTimes], NEW cell \in cells,
               Resolvable(cell, cells, Noise(cells, time), time)
        PROVE  /\ \A r \in cell : 2 * time[r] > Best2(cells, time)
               /\ \A other \in cells : Median2(other, time) = Best2(cells, time) =>
                    \A q \in other : 2 * time[q] < Median2(cell, time)
    <3>1. \A c \in cells : \A r \in c : time[r] \in Int
      BY CampaignAssumption
    <3>2. QED
      BY <2>2, <2>3, <3>1, GapsBeyondNoise
  <2>4. QED
    BY <2>1, <2>3 DEF ResolvableGapsAreReal, TrainingCells, cells
<1>2. Init => GateStandsInv /\ SessionInv
  BY InitHolds, SessionInit
<1>3. GateStandsInv /\ SessionInv /\ [Next]_vars => (GateStandsInv /\ SessionInv)'
  BY StepKeepsGate, SessionStep
<1>4. QED
  BY <1>1, <1>2, <1>3, PTL DEF Spec
=============================================================================
