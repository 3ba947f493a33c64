---------------------------- MODULE SessionsProofs ----------------------------
(***************************************************************************)
(* Proofs about Sessions: its types; that handoff notes and the ends that  *)
(* switches write go together; that a closed session is stamped on a row,  *)
(* or closed once more, only by a command that had looked before; and that *)
(* the marker of a directory follows the sessions when its commands run    *)
(* one after another.                                                      *)
(***************************************************************************)
EXTENDS Sessions, FiniteSetTheorems, TLAPS

(* A command that has not written yet has opened no session, written no    *)
(* note and ended no session.                                              *)
Early(p) == ops[p].phase \in {"new", "resolved", "open", "ready"}

Unwritten(p) ==
  /\ sessions[p] = Null
  /\ notes[p] = Null
  /\ \A s \in SessionIds : sessions[s] # Null => sessions[s].ended # p

(* The sessions it works with exist, and a command that is about to write  *)
(* has what it needs.                                                      *)
WellRead(p) ==
  /\ ops[p].current # Null => Exists(ops[p].current)
  /\ ops[p].closing # Null => Exists(ops[p].closing)
  /\ ops[p].phase = "ready" /\ ops[p].kind = "end" => ops[p].closing # Null
  /\ ops[p].phase = "ready" /\ ops[p].kind = "note" => ops[p].target # Null

OpInv == \A p \in Procs : (Early(p) => Unwritten(p)) /\ WellRead(p)

IInv == TypeOK /\ OpInv /\ HandoffsMatchClosures

-----------------------------------------------------------------------------
LEMMA RowType ==
  ASSUME NEW row \in SessionRow
  PROVE  /\ row.experiment \in Experiments \cup {Null} /\ row.ended \in Procs \cup {Null}
         /\ row # Null
  BY NullAssumption DEF SessionRow

LEMMA EndedType ==
  ASSUME NEW op \in Op, NEW phase \in {"over", "died"}
  PROVE  /\ Ended(op, phase) \in Op
         /\ Ended(op, phase).phase = phase
         /\ Ended(op, phase).current = Null /\ Ended(op, phase).closing = Null
         /\ Ended(op, phase).kind \in {op.kind, Null}
         /\ op.closing # Null => Ended(op, phase).kind = op.kind
  BY DEF Ended, Unused, Op

(* HandoffsMatchClosures, command by command and session by session.       *)
HandoffSound(p) ==
  IsHandoff(p) =>
    /\ Closed(notes[p].session)
    /\ sessions[notes[p].session].experiment = notes[p].experiment
    /\ Exists(p)

ClosureSound(s) ==
  Closed(s) /\ ops[sessions[s].ended].kind = "switch" /\ sessions[s].experiment # Null
    => IsHandoff(sessions[s].ended) /\ notes[sessions[s].ended].session = s

LEMMA Parts ==
  HandoffsMatchClosures <=>
    (\A p \in Procs : HandoffSound(p)) /\ (\A s \in SessionIds : ClosureSound(s))
  BY DEF HandoffsMatchClosures, ClosedSessions, HandoffSound, ClosureSound

LEMMA PartsPrimed ==
  HandoffsMatchClosures' <=>
    (\A p \in Procs : HandoffSound(p)') /\ (\A s \in SessionIds : ClosureSound(s)')
  BY DEF HandoffsMatchClosures, ClosedSessions, HandoffSound, ClosureSound, SessionIds

(* A step that writes no row: one command advances.                        *)
LEMMA QuietStep ==
  ASSUME IInv, NEW p \in Procs, NEW op \in Op,
         ops' = [ops EXCEPT ![p] = op],
         UNCHANGED <<sessions, notes>>,
         archived' \subseteq Experiments,
         markers' \in [Places -> SessionIds \cup {Null}],
         op.current # Null => Exists(op.current),
         op.closing # Null => Exists(op.closing),
         op.phase = "ready" /\ op.kind = "end" => op.closing # Null,
         op.phase = "ready" /\ op.kind = "note" => op.target # Null,
         op.phase \in {"new", "resolved", "open", "ready"} => Early(p),
         Early(p) \/ op.kind = ops[p].kind \/ op.kind = Null
  PROVE  IInv'
<1>0. TypeOK /\ OpInv /\ HandoffsMatchClosures
  BY DEF IInv
<1>1. ops'[p] = op /\ \A q \in Procs : q # p => ops'[q] = ops[q]
  BY <1>0 DEF TypeOK
<1>2. TypeOK'
  BY <1>0 DEF TypeOK
<1>3. OpInv'
  BY <1>0, <1>1 DEF OpInv, Early, Unwritten, WellRead, Exists
<1>4. ASSUME NEW q \in Procs PROVE HandoffSound(q)'
  BY <1>0, Parts DEF HandoffSound, IsHandoff, Closed, Exists
<1>5. ASSUME NEW s \in SessionIds PROVE ClosureSound(s)'
  <2>1. SUFFICES ASSUME Closed(s), ops'[sessions[s].ended].kind = "switch", sessions[s].experiment # Null
                 PROVE  IsHandoff(sessions[s].ended) /\ notes[sessions[s].ended].session = s
    BY DEF ClosureSound, Closed, Exists, IsHandoff
  <2>2. sessions[s] # Null /\ sessions[s].ended \in Procs
    BY <1>0, <2>1, RowType DEF Closed, Exists, TypeOK
  <2>3. ops[sessions[s].ended].kind = "switch"
    <3>1. CASE sessions[s].ended = p
      <4>1. ~Early(p)
        BY <1>0, <2>2, <3>1 DEF OpInv, Unwritten
      <4> QED BY <1>1, <2>1, <3>1, <4>1, NullAssumption DEF Kinds
    <3>2. CASE sessions[s].ended # p
      BY <1>1, <2>1, <2>2, <3>2
    <3> QED BY <3>1, <3>2
  <2> QED BY <1>0, <2>1, <2>3, Parts DEF ClosureSound
<1>6. HandoffsMatchClosures'
  BY <1>4, <1>5, PartsPrimed
<1> QED BY <1>2, <1>3, <1>6 DEF IInv

(* A step that writes rows: p opens a session, ends others, or both, and   *)
(* leaves at most one note.                                                *)
LEMMA WriteStep ==
  ASSUME IInv, NEW p \in Procs, NEW op \in Op, Early(p),
         ops' = [ops EXCEPT ![p] = op], op.phase \notin {"new", "resolved", "open", "ready"},
         op.current = ops[p].current \/ op.current = Null,
         op.closing = ops[p].closing \/ op.closing = Null,
         archived' = archived, markers' \in [Places -> SessionIds \cup {Null}],
         sessions' \in [SessionIds -> SessionRow \cup {Null}],
         sessions'[p] # Null => sessions'[p].ended = Null,
         \A s \in SessionIds \ {p} :
           \/ sessions'[s] = sessions[s]
           \/ sessions[s] # Null /\ sessions'[s] = [sessions[s] EXCEPT !.ended = p],
         notes' \in [Procs -> NoteRow \cup {Null}],
         \A q \in Procs \ {p} : notes'[q] = notes[q],
         HandoffSound(p)',
         \A s \in SessionIds : sessions'[s] # Null /\ sessions'[s].ended = p => ClosureSound(s)'
  PROVE  IInv'
<1>0. TypeOK /\ OpInv /\ HandoffsMatchClosures /\ Unwritten(p)
  BY DEF IInv, OpInv
<1>1. ops'[p] = op /\ \A q \in Procs : q # p => ops'[q] = ops[q]
  BY <1>0 DEF TypeOK
<1>2. TypeOK'
  BY <1>0 DEF TypeOK
<1>3. ASSUME NEW s \in SessionIds, sessions[s] # Null
      PROVE  /\ s # p /\ sessions'[s] # Null
             /\ sessions'[s].experiment = sessions[s].experiment
             /\ sessions'[s].ended \in {sessions[s].ended, p}
             /\ sessions[s].ended # Null => sessions'[s].ended # Null
  <2>1. s # p /\ sessions[s] \in SessionRow
    BY <1>0, <1>3 DEF Unwritten, TypeOK
  <2>2. CASE sessions'[s] = sessions[s]
    BY <1>3, <2>1, <2>2
  <2>3. CASE sessions'[s] = [sessions[s] EXCEPT !.ended = p]
    <3>1. sessions'[s] \in SessionRow
      BY <2>1, <2>3 DEF SessionRow
    <3>2. sessions'[s].experiment = sessions[s].experiment /\ sessions'[s].ended = p
      BY <2>1, <2>3 DEF SessionRow
    <3> QED BY <2>1, <3>1, <3>2, RowType, NullAssumption
  <2> QED BY <2>1, <2>2, <2>3
<1>4. \A s \in SessionIds :
        sessions'[s] # Null =>
          \/ sessions[s] # Null /\ sessions'[s].ended \in {sessions[s].ended, p}
          \/ s = p /\ sessions'[s].ended = Null
  BY <1>3
<1>5. OpInv'
  <2>1. ASSUME NEW q \in Procs, Early(q)' PROVE Unwritten(q)'
    <3>1. q # p /\ Unwritten(q)
      BY <1>0, <1>1, <2>1 DEF Early, OpInv
    <3>2. sessions'[q] = Null /\ notes'[q] = Null
      BY <3>1 DEF Unwritten, SessionIds
    <3>3. \A s \in SessionIds : sessions'[s] # Null => sessions'[s].ended # q
      BY <1>4, <3>1, NullAssumption DEF Unwritten
    <3> QED BY <3>2, <3>3 DEF Unwritten, SessionIds
  <2>2. ASSUME NEW q \in Procs PROVE WellRead(q)'
    BY <1>0, <1>1, <1>3 DEF OpInv, WellRead, Exists, SessionIds
  <2> QED BY <2>1, <2>2 DEF OpInv
<1>6. ASSUME NEW q \in Procs PROVE HandoffSound(q)'
  <2>1. CASE q # p
    BY <1>0, <1>3, <2>1, Parts DEF HandoffSound, IsHandoff, Closed, Exists
  <2> QED BY <2>1
<1>7. ASSUME NEW s \in SessionIds PROVE ClosureSound(s)'
  <2>1. CASE sessions'[s] # Null /\ sessions'[s].ended = p
    BY <2>1
  <2>2. CASE ~(sessions'[s] # Null /\ sessions'[s].ended = p)
    <3>1. SUFFICES ASSUME Closed(s)'
                   PROVE  ClosureSound(s)'
      BY DEF ClosureSound
    <3>2. /\ sessions[s] # Null /\ sessions'[s].ended = sessions[s].ended
          /\ sessions'[s].experiment = sessions[s].experiment /\ Closed(s)
      BY <1>3, <1>4, <2>2, <3>1 DEF Closed, Exists
    <3>3. sessions[s].ended \in Procs /\ sessions[s].ended # p
      BY <1>0, <2>2, <3>1, <3>2, RowType DEF Closed, Exists, TypeOK
    <3> QED BY <1>0, <1>1, <3>2, <3>3, Parts DEF ClosureSound, IsHandoff
  <2> QED BY <2>1, <2>2
<1>8. HandoffsMatchClosures'
  BY <1>6, <1>7, PartsPrimed
<1> QED BY <1>2, <1>5, <1>8 DEF IInv

-----------------------------------------------------------------------------
LEMMA InitSound == Init => IInv
<1> SUFFICES ASSUME Init PROVE IInv
  OBVIOUS
<1>1. TypeOK
  BY DEF Init, TypeOK, Unused, Op, SessionIds
<1>2. OpInv
  BY DEF Init, OpInv, Unwritten, WellRead, Unused, SessionIds
<1>3. HandoffsMatchClosures
  BY DEF Init, HandoffsMatchClosures, IsHandoff, ClosedSessions, Closed, Exists
<1> QED BY <1>1, <1>2, <1>3 DEF IInv

LEMMA OpOf ==
  ASSUME IInv, NEW p \in Procs
  PROVE  ops[p] \in Op /\ WellRead(p) /\ (Early(p) => Unwritten(p))
  BY DEF IInv, TypeOK, OpInv

(* A command that ends, or goes on after its write, knowing nothing new.   *)
LEMMA EndStep ==
  ASSUME IInv, NEW p \in Procs, NEW phase \in {"over", "died"},
         ops' = [ops EXCEPT ![p] = Ended(@, phase)], UNCHANGED <<sessions, notes, archived>>,
         markers' \in [Places -> SessionIds \cup {Null}]
  PROVE  IInv'
<1> DEFINE op == Ended(ops[p], phase)
<1>1. ops[p] \in Op
  BY OpOf
<1>2. /\ op \in Op /\ op.phase = phase /\ op.current = Null /\ op.closing = Null
      /\ op.kind \in {ops[p].kind, Null}
  BY <1>1, EndedType
<1>3. archived' \subseteq Experiments /\ ops' = [ops EXCEPT ![p] = op]
  BY <1>1 DEF IInv, TypeOK
<1> HIDE DEF op
<1> QED BY <1>2, <1>3, QuietStep

LEMMA LaterStep ==
  ASSUME IInv, NEW p \in Procs, NEW phase \in {"truncated", "unlinking"},
         ops' = [ops EXCEPT ![p] = [@ EXCEPT !.phase = phase]], UNCHANGED <<sessions, notes, archived>>,
         markers' \in [Places -> SessionIds \cup {Null}]
  PROVE  IInv'
<1> DEFINE op == [ops[p] EXCEPT !.phase = phase]
<1>1. ops[p] \in Op /\ WellRead(p)
  BY OpOf
<1>2. /\ op \in Op /\ op.phase = phase /\ op.kind = ops[p].kind
      /\ op.current = ops[p].current /\ op.closing = ops[p].closing
  BY <1>1 DEF Op
<1>3. archived' \subseteq Experiments /\ ops' = [ops EXCEPT ![p] = op]
  BY DEF IInv, TypeOK
<1>4. /\ op.phase \notin {"new", "resolved", "open", "ready"}
      /\ op.current # Null => Exists(op.current)
      /\ op.closing # Null => Exists(op.closing)
  BY <1>1, <1>2 DEF WellRead
<1> HIDE DEF op
<1> QED BY <1>2, <1>3, <1>4, QuietStep

LEMMA ResolveStep ==
  ASSUME IInv, NEW p \in Procs, Begin(p) \/ Open(p)
  PROVE  IInv'
<1>0. ops[p] \in Op /\ WellRead(p) /\ archived' \subseteq Experiments /\ TypeOK
  BY OpOf DEF Begin, Resolve, Open, IInv, TypeOK
<1>1. ASSUME NEW kind \in Kinds, NEW d \in Places, NEW env \in SessionIds \cup {Null},
             Resolve(p, kind, d, env)
      PROVE  IInv'
  <2> DEFINE raw == IF env # Null THEN env ELSE markers[d]
             op == [ops[p] EXCEPT !.phase = "resolved", !.kind = kind, !.place = d, !.raw = raw]
  <2>1. raw \in SessionIds \cup {Null}
    BY <1>0 DEF TypeOK
  <2>2. /\ op \in Op /\ op.phase = "resolved" /\ op.current = ops[p].current
        /\ op.closing = ops[p].closing
    BY <1>0, <2>1 DEF Op
  <2>3. ops' = [ops EXCEPT ![p] = op] /\ Early(p) /\ UNCHANGED <<sessions, notes, markers>>
    BY <1>1 DEF Resolve, Early
  <2> HIDE DEF op
  <2> QED BY <1>0, <2>2, <2>3, QuietStep DEF WellRead, TypeOK
<1>2. CASE Open(p)
  <2> DEFINE s == ValidOpenSessionId(ops[p].raw)
             op == [ops[p] EXCEPT !.phase = "open", !.raw = Null, !.current = s, !.seen = ClosedSessions]
  <2>1. s \in SessionIds \cup {Null} /\ (s # Null => Exists(s))
    BY <1>0 DEF ValidOpenSessionId, IsOpen, Exists
  <2>2. /\ op \in Op /\ op.phase = "open" /\ op.current = s /\ op.closing = ops[p].closing
    BY <1>0, <2>1 DEF Op, ClosedSessions
  <2>3. ops' = [ops EXCEPT ![p] = op] /\ Early(p) /\ UNCHANGED <<sessions, notes, markers>>
    BY <1>2 DEF Open, Early
  <2> HIDE DEF op
  <2> QED BY <1>0, <2>1, <2>2, <2>3, QuietStep DEF WellRead, TypeOK
<1> QED BY <1>1, <1>2 DEF Begin

LEMMA ReadStep ==
  ASSUME IInv, NEW p \in Procs, Read(p)
  PROVE  IInv'
<1>0. ops[p] \in Op /\ WellRead(p) /\ archived' \subseteq Experiments /\ TypeOK
  BY OpOf DEF Read, ReadTarget, ReadEnd, ReadNote, IInv, TypeOK
<1>1. Early(p) /\ UNCHANGED <<sessions, notes, archived, markers>>
  BY DEF Read, ReadTarget, ReadEnd, ReadNote, Early
<1>2. CASE ops' = [ops EXCEPT ![p] = Ended(@, "over")]
  BY <1>0, <1>1, <1>2, EndStep DEF TypeOK
<1>3. ASSUME NEW op \in Op, ops' = [ops EXCEPT ![p] = op],
             op.phase = "ready", op.current = ops[p].current,
             op.closing # Null => Exists(op.closing),
             op.kind = "end" => op.closing # Null, op.kind = "note" => op.target # Null
      PROVE  IInv'
  BY <1>0, <1>1, <1>3, QuietStep DEF WellRead, TypeOK
<1>4. ASSUME NEW e \in Experiments \cup {Null}, NEW force \in BOOLEAN, ReadTarget(p, e, force)
      PROVE  IInv'
  <2> DEFINE s == IF ops[p].kind = "switch" THEN ops[p].current ELSE Null
             op == [ops[p] EXCEPT !.phase = "ready", !.target = e, !.closing = s]
  <2>1. s \in SessionIds \cup {Null} /\ (s # Null => Exists(s))
    BY <1>0 DEF Op, WellRead
  <2>2. /\ op \in Op /\ op.phase = "ready" /\ op.current = ops[p].current /\ op.closing = s
        /\ op.kind = ops[p].kind
    <3> HIDE DEF s
    <3> QED BY <1>0, <2>1 DEF Op
  <2>3. CASE SessionExperimentOK(e, force)
    <3>1. ops' = [ops EXCEPT ![p] = op] /\ op.kind \in {"start", "switch"}
      BY <1>4, <2>2, <2>3 DEF ReadTarget
    <3> HIDE DEF op
    <3> QED BY <1>3, <2>1, <2>2, <3>1
  <2>4. CASE ~SessionExperimentOK(e, force)
    BY <1>2, <1>4, <2>4 DEF ReadTarget
  <2> QED BY <2>3, <2>4
<1>5. ASSUME NEW ref \in SessionIds \cup {Null}, ReadEnd(p, ref)
      PROVE  IInv'
  <2> DEFINE s == IF ref # Null THEN ref ELSE ops[p].current
             op == [ops[p] EXCEPT !.phase = "ready", !.closing = s, !.seen = ClosedSessions]
  <2>1. CASE MayEnd(s)
    <3>1. s \in SessionIds /\ Exists(s) /\ s # Null
      BY <2>1, NullAssumption DEF MayEnd, IsOpen, Exists, SessionIds
    <3>2. /\ op \in Op /\ op.phase = "ready" /\ op.current = ops[p].current /\ op.closing = s
          /\ op.kind = ops[p].kind
      BY <1>0, <3>1 DEF Op, ClosedSessions
    <3>3. ops' = [ops EXCEPT ![p] = op] /\ op.kind = "end"
      BY <1>5, <2>1, <3>2 DEF ReadEnd
    <3> HIDE DEF op
    <3> QED BY <1>3, <3>1, <3>2, <3>3
  <2>2. CASE ~MayEnd(s)
    BY <1>2, <1>5, <2>2 DEF ReadEnd
  <2> QED BY <2>1, <2>2
<1>6. ASSUME NEW e \in Experiments, NEW errata \in BOOLEAN, ReadNote(p, e, errata)
      PROVE  IInv'
  <2> DEFINE op == [ops[p] EXCEPT !.phase = "ready", !.target = e]
  <2>1. CASE e \in archived /\ ~errata
    BY <1>2, <1>6, <2>1 DEF ReadNote
  <2>2. CASE ~(e \in archived /\ ~errata)
    <3>1. /\ op \in Op /\ op.phase = "ready" /\ op.current = ops[p].current
          /\ op.closing = ops[p].closing /\ op.kind = ops[p].kind /\ op.target = e
      BY <1>0 DEF Op
    <3>2. ops' = [ops EXCEPT ![p] = op] /\ op.kind = "note" /\ op.target # Null
      BY <1>6, <2>2, <3>1, NullAssumption DEF ReadNote
    <3> HIDE DEF op
    <3> QED BY <1>0, <1>3, <3>1, <3>2 DEF WellRead
  <2> QED BY <2>1, <2>2
<1> QED BY <1>4, <1>5, <1>6 DEF Read

LEMMA WriteSteps ==
  ASSUME IInv, NEW p \in Procs, Write(p)
  PROVE  IInv'
<1>0. /\ ops[p] \in Op /\ WellRead(p) /\ TypeOK /\ Early(p) /\ Unwritten(p)
      /\ ops[p].phase = "ready" /\ archived' = archived /\ markers' = markers
      /\ HandoffsMatchClosures
  BY OpOf DEF Write, StartSession, SwitchSession, EndSession, AddNote, Early, IInv
<1>a. /\ sessions \in [SessionIds -> SessionRow \cup {Null}]
      /\ notes \in [Procs -> NoteRow \cup {Null}]
      /\ markers' \in [Places -> SessionIds \cup {Null}]
  BY <1>0 DEF TypeOK
<1>1. \A s \in SessionIds : sessions[s] # Null =>
        sessions[s] \in SessionRow /\ s # p /\ sessions[s].ended # p
  BY <1>0 DEF Unwritten, TypeOK
<1>2. ASSUME NEW phase \in {"marking", "unmarking"}
      PROVE  LET op == [ops[p] EXCEPT !.phase = phase] IN
             /\ op \in Op /\ op.phase \notin {"new", "resolved", "open", "ready"}
             /\ op.current = ops[p].current /\ op.closing = ops[p].closing /\ op.kind = ops[p].kind
  BY <1>0 DEF Op
<1>3. Opened(p) \in SessionRow /\ Opened(p).ended = Null /\ Opened(p) # Null
  <2>1. Opened(p) \in SessionRow /\ Opened(p).ended = Null
    BY <1>0 DEF Opened, SessionRow, Op
  <2> QED BY <2>1, RowType
<1>4. CASE StartSession(p)
  <2> DEFINE op == [ops[p] EXCEPT !.phase = "marking"]
  <2>a. /\ op \in Op /\ op.phase \notin {"new", "resolved", "open", "ready"}
        /\ op.current = ops[p].current /\ op.closing = ops[p].closing
    BY <1>2
  <2>1. sessions' = [sessions EXCEPT ![p] = Opened(p)] /\ notes' = notes /\ ops' = [ops EXCEPT ![p] = op]
    BY <1>4 DEF StartSession
  <2>2. /\ sessions' \in [SessionIds -> SessionRow \cup {Null}] /\ sessions'[p] = Opened(p)
        /\ \A s \in SessionIds \ {p} : sessions'[s] = sessions[s]
    BY <1>0, <1>3, <2>1 DEF TypeOK, SessionIds
  <2>3. HandoffSound(p)'
    BY <1>0, <2>1 DEF HandoffSound, IsHandoff, Unwritten
  <2>4. \A s \in SessionIds : sessions'[s] # Null => sessions'[s].ended # p
    BY <1>1, <1>3, <2>2, NullAssumption
  <2> HIDE DEF op
  <2> QED BY <1>0, <1>a, <1>3, <2>a, <2>1, <2>2, <2>3, <2>4, WriteStep
<1>5. CASE EndSession(p)
  <2> DEFINE op == [ops[p] EXCEPT !.phase = "unmarking"]
             c == ops[p].closing
  <2>a. /\ op \in Op /\ op.phase \notin {"new", "resolved", "open", "ready"}
        /\ op.current = ops[p].current /\ op.closing = ops[p].closing
    BY <1>2
  <2>1. /\ sessions' = [sessions EXCEPT ![c].ended = p] /\ notes' = notes
        /\ ops' = [ops EXCEPT ![p] = op] /\ ops[p].kind = "end"
    BY <1>5 DEF EndSession
  <2>2. c \in SessionIds /\ sessions[c] # Null /\ c # p /\ sessions[c] \in SessionRow
    BY <1>0, <1>1, <2>1 DEF WellRead, Exists
  <2>3. [sessions[c] EXCEPT !.ended = p] \in SessionRow
    BY <2>2 DEF SessionRow
  <2>4. /\ sessions' \in [SessionIds -> SessionRow \cup {Null}]
        /\ sessions'[c] = [sessions[c] EXCEPT !.ended = p]
        /\ \A s \in SessionIds : s # c => sessions'[s] = sessions[s]
    BY <1>0, <2>1, <2>2, <2>3 DEF TypeOK
  <2>5. HandoffSound(p)'
    BY <1>0, <2>1 DEF HandoffSound, IsHandoff, Unwritten
  <2>6. ops'[p].kind = "end"
    BY <1>0, <1>2, <2>1 DEF TypeOK
  <2>7. \A s \in SessionIds : sessions'[s] # Null /\ sessions'[s].ended = p => ClosureSound(s)'
    BY <2>6 DEF ClosureSound
  <2>8. sessions'[p] = Null
    BY <1>0, <2>2, <2>4 DEF Unwritten, SessionIds
  <2>9. \A s \in SessionIds \ {p} :
          \/ sessions'[s] = sessions[s]
          \/ sessions[s] # Null /\ sessions'[s] = [sessions[s] EXCEPT !.ended = p]
    BY <2>2, <2>4
  <2> HIDE DEF op, c
  <2> QED BY <1>0, <1>a, <2>a, <2>1, <2>4, <2>5, <2>7, <2>8, <2>9, WriteStep
<1>6. CASE AddNote(p)
  <2> DEFINE op == Ended(ops[p], "over")
             note == [type |-> "other", experiment |-> ops[p].target, session |-> Stamp(p)]
  <2>1. /\ sessions' = sessions /\ notes' = [notes EXCEPT ![p] = note]
        /\ ops' = [ops EXCEPT ![p] = op] /\ ops[p].kind = "note"
    BY <1>6 DEF AddNote, Finish
  <2>2. note \in NoteRow /\ note.type = "other"
    BY <1>0, <2>1 DEF NoteRow, Stamp, Op, WellRead
  <2>3. /\ notes' \in [Procs -> NoteRow \cup {Null}] /\ notes'[p].type = "other"
        /\ \A q \in Procs \ {p} : notes'[q] = notes[q]
    <3> HIDE DEF note
    <3> QED BY <1>0, <2>1, <2>2 DEF TypeOK
  <2>4. HandoffSound(p)'
    BY <2>3 DEF HandoffSound, IsHandoff
  <2>5. /\ op \in Op /\ op.phase = "over" /\ op.current = Null /\ op.closing = Null
    BY <1>0, EndedType
  <2>6. sessions'[p] = Null
    BY <1>0, <2>1 DEF Unwritten
  <2>7. \A s \in SessionIds : sessions'[s] # Null => sessions'[s].ended # p
    BY <1>1, <2>1
  <2> HIDE DEF op, note
  <2> QED BY <1>0, <2>1, <2>3, <2>4, <2>5, <2>6, <2>7, WriteStep DEF TypeOK
<1>7. CASE SwitchSession(p)
  <2> DEFINE op == [ops[p] EXCEPT !.phase = "marking"]
             c == ops[p].closing
  <2>a. /\ op \in Op /\ op.phase \notin {"new", "resolved", "open", "ready"}
        /\ op.current = ops[p].current /\ op.closing = ops[p].closing
    BY <1>2
  <2>1. /\ sessions' = Switched(p) /\ notes' = SwitchNotes(p)
        /\ ops' = [ops EXCEPT ![p] = op] /\ ops[p].kind = "switch"
    BY <1>7 DEF SwitchSession
  <2>2. /\ c # Null => c \in SessionIds /\ sessions[c] # Null /\ c # p /\ sessions[c] \in SessionRow
        /\ c = Null => c \notin SessionIds
    BY <1>0, <1>1, NullAssumption DEF WellRead, Exists, SessionIds
  <2>3. ASSUME NEW s \in SessionIds
        PROVE  /\ sessions'[s] \in SessionRow \cup {Null}
               /\ s = p => sessions'[s] = Opened(p)
               /\ s # p /\ s = c => /\ sessions'[s] = [sessions[s] EXCEPT !.ended = p]
                                    /\ sessions'[s].ended = p /\ sessions'[s] # Null
                                    /\ sessions'[s].experiment = sessions[s].experiment
               /\ s # p /\ s # c => sessions'[s] = sessions[s]
    <3>1. CASE s = p
      BY <1>3, <2>1, <2>2, <3>1 DEF Switched
    <3>2. CASE s # p /\ s = c
      <4>1. sessions'[s] = [sessions[s] EXCEPT !.ended = p] /\ sessions[s] \in SessionRow
        BY <2>1, <2>2, <3>2 DEF Switched
      <4>2. /\ sessions'[s] \in SessionRow /\ sessions'[s].ended = p
            /\ sessions'[s].experiment = sessions[s].experiment
        BY <4>1 DEF SessionRow
      <4> QED BY <3>2, <4>1, <4>2, RowType
    <3>3. CASE s # p /\ s # c
      BY <1>0, <2>1, <3>3 DEF Switched, TypeOK
    <3> QED BY <3>1, <3>2, <3>3
  <2>4. sessions' \in [SessionIds -> SessionRow \cup {Null}]
    <3>1. sessions' = [s \in SessionIds |-> sessions'[s]]
      BY <2>1 DEF Switched
    <3> QED BY <2>3, <3>1
  <2>7. \A s \in SessionIds \ {p} :
          \/ sessions'[s] = sessions[s]
          \/ sessions[s] # Null /\ sessions'[s] = [sessions[s] EXCEPT !.ended = p]
    BY <2>2, <2>3
  <2>8. sessions'[p].ended = Null
    BY <1>3, <2>3 DEF SessionIds
  <2>5. CASE HandsOff(c)
    <3> DEFINE note == Handoff(p)
    <3>1. notes' = [notes EXCEPT ![p] = note] /\ c # Null /\ sessions[c].experiment # Null
      BY <2>1, <2>5 DEF SwitchNotes, HandsOff
    <3>2. /\ note \in NoteRow /\ note.type = "handoff" /\ note.session = c
          /\ note.experiment = sessions[c].experiment
      BY <2>2, <3>1, RowType DEF NoteRow, Handoff
    <3> HIDE DEF note
    <3>3. /\ notes' \in [Procs -> NoteRow \cup {Null}] /\ notes'[p] = note /\ note # Null
          /\ \A q \in Procs \ {p} : notes'[q] = notes[q]
      BY <1>0, <3>1, <3>2, NullAssumption DEF TypeOK
    <3>4. HandoffSound(p)'
      <4>1. /\ c \in SessionIds /\ sessions'[c] # Null /\ sessions'[c].ended = p
            /\ sessions'[c].experiment = sessions[c].experiment
        BY <2>2, <2>3, <3>1
      <4>2. p \in SessionIds /\ sessions'[p] # Null
        BY <1>3, <2>3 DEF SessionIds
      <4> HIDE DEF c
      <4> QED BY <3>2, <3>3, <4>1, <4>2, NullAssumption DEF HandoffSound, Closed, Exists
    <3>5. \A s \in SessionIds : sessions'[s] # Null /\ sessions'[s].ended = p => s = c
      BY <1>1, <1>3, <2>3, NullAssumption
    <3>6. ASSUME NEW s \in SessionIds, sessions'[s] # Null, sessions'[s].ended = p
          PROVE  ClosureSound(s)'
      <4>1. s = c
        BY <3>5, <3>6
      <4> HIDE DEF c
      <4> QED BY <3>2, <3>3, <3>6, <4>1 DEF ClosureSound, IsHandoff
    <3> HIDE DEF op, c
    <3> QED BY <1>0, <1>a, <2>a, <2>1, <2>4, <2>7, <2>8, <3>3, <3>4, <3>6, WriteStep
  <2>6. CASE ~HandsOff(c)
    <3>1. notes' = notes
      BY <2>1, <2>6 DEF SwitchNotes
    <3>2. HandoffSound(p)'
      BY <1>0, <3>1 DEF HandoffSound, IsHandoff, Unwritten
    <3>3. \A s \in SessionIds : sessions'[s] # Null /\ sessions'[s].ended = p => ClosureSound(s)'
      BY <1>1, <1>3, <2>2, <2>3, <2>6, NullAssumption DEF HandsOff, ClosureSound
    <3> HIDE DEF op, c
    <3> QED BY <1>0, <1>a, <2>a, <2>1, <2>4, <2>7, <2>8, <3>1, <3>2, <3>3, WriteStep
  <2> QED BY <2>5, <2>6
<1> QED BY <1>4, <1>5, <1>6, <1>7 DEF Write

LEMMA MarkStep ==
  ASSUME IInv, NEW p \in Procs, Mark(p)
  PROVE  IInv'
<1>1. CASE TruncateMarker(p)
  BY <1>1, LaterStep DEF TruncateMarker, IInv, TypeOK
<1>2. CASE WriteMarker(p)
  <2>1. markers' \in [Places -> SessionIds \cup {Null}]
    BY <1>2 DEF WriteMarker, IInv, TypeOK, SessionIds
  <2> QED BY <1>2, <2>1, EndStep DEF WriteMarker, Finish
<1>3. CASE ReadMarker(p)
  BY <1>3, LaterStep, EndStep DEF ReadMarker, IInv, TypeOK
<1>4. CASE UnlinkMarker(p)
  <2>1. markers' \in [Places -> SessionIds \cup {Null}]
    BY <1>4 DEF UnlinkMarker, IInv, TypeOK
  <2> QED BY <1>4, <2>1, EndStep DEF UnlinkMarker, Finish
<1> QED BY <1>1, <1>2, <1>3, <1>4 DEF Mark

LEMMA StepSound == IInv /\ [Next]_vars => IInv'
<1> SUFFICES ASSUME IInv, [Next]_vars PROVE IInv'
  OBVIOUS
<1>1. ASSUME NEW p \in Procs, Die(p)
      PROVE  IInv'
  BY <1>1, EndStep DEF Die, IInv, TypeOK
<1>2. ASSUME UNCHANGED <<sessions, notes, markers, ops>>, archived' \subseteq Experiments
      PROVE  IInv'
  <2>1. TypeOK'
    BY <1>2 DEF IInv, TypeOK
  <2>2. OpInv'
    BY <1>2 DEF IInv, OpInv, Early, Unwritten, WellRead, Exists
  <2>3. HandoffsMatchClosures'
    BY <1>2 DEF IInv, HandoffsMatchClosures, IsHandoff, ClosedSessions, Closed, Exists
  <2> QED BY <2>1, <2>2, <2>3 DEF IInv
<1>3. ASSUME NEW e \in Experiments, ArchiveExperiment(e)
      PROVE  IInv'
  BY <1>2, <1>3 DEF ArchiveExperiment, IInv, TypeOK
<1>4. CASE UNCHANGED vars
  BY <1>2, <1>4 DEF vars, IInv, TypeOK
<1> QED BY <1>1, <1>3, <1>4, ResolveStep, ReadStep, WriteSteps, MarkStep DEF Next

THEOREM Invariance == Spec => []IInv
  BY InitSound, StepSound, PTL DEF Spec

(* Sessions, notes, markers and commands under way keep their types.       *)
THEOREM TypeCorrect == Spec => []TypeOK
  BY Invariance, PTL DEF IInv

(* However commands overlap and die, a handoff note and the end that a     *)
(* switch wrote belong together.                                           *)
THEOREM Handoffs == Spec => []HandoffsMatchClosures
  BY Invariance, PTL DEF IInv

-----------------------------------------------------------------------------
(* What a command has kept of its looks: the session it works under was    *)
(* open when the command started, and the session it means to close was    *)
(* open when it looked last.                                               *)
LookedWell(op) ==
  /\ op.phase \in {"new", "resolved"} => op.current = Null /\ op.closing = Null
  /\ op.kind \in {"note", "switch"} /\ op.current # Null => op.current \notin op.seen
  /\ op.closing # Null => op.closing \notin op.seen

LookInv == \A p \in Procs : LookedWell(ops[p])

(* A command that has ended knows nothing any more.                        *)
LEMMA EndedLooked ==
  ASSUME NEW op \in Op, NEW phase \in {"over", "died"}
  PROVE  LookedWell(Ended(op, phase))
BY EndedType DEF LookedWell

(* Open, ReadTarget and ReadEnd look; the other steps keep what was seen.  *)
LEMMA OpenLooked ==
  ASSUME IInv, LookInv, NEW p \in Procs, Begin(p) \/ Open(p)
  PROVE  LookedWell(ops'[p])
<1>0. ops[p] \in Op /\ ops \in [Procs -> Op] /\ LookedWell(ops[p])
  BY OpOf DEF LookInv, IInv, TypeOK
<1>1. ASSUME NEW kind \in Kinds, NEW d \in Places, NEW env \in SessionIds \cup {Null},
             Resolve(p, kind, d, env)
      PROVE  LookedWell(ops'[p])
  BY <1>0, <1>1 DEF Resolve, LookedWell, Op
<1>2. CASE Open(p)
  <2>1. ops[p].phase = "resolved" /\ ops[p].closing = Null
    BY <1>0, <1>2 DEF Open, LookedWell
  <2>2. /\ ops'[p].phase = "open" /\ ops'[p].closing = Null
        /\ ops'[p].current = ValidOpenSessionId(ops[p].raw) /\ ops'[p].seen = ClosedSessions
    BY <1>0, <1>2, <2>1 DEF Open, Op
  <2>3. ops'[p].current # Null => ops'[p].current \notin ops'[p].seen
    BY <2>2 DEF ValidOpenSessionId, IsOpen, ClosedSessions, Closed
  <2> QED
    BY <2>2, <2>3 DEF LookedWell
<1> QED
  BY <1>1, <1>2 DEF Begin

(* The reads before the write: a look at the rows is taken with the choice.*)
LEMMA ReadLooked ==
  ASSUME IInv, LookInv, NEW p \in Procs, Read(p)
  PROVE  LookedWell(ops'[p])
<1>0. ops[p] \in Op /\ ops \in [Procs -> Op] /\ LookedWell(ops[p])
  BY OpOf DEF LookInv, IInv, TypeOK
<1>1. LookedWell(Ended(ops[p], "over"))
  BY <1>0, EndedLooked
<1>2. ASSUME NEW e \in Experiments \cup {Null}, NEW force \in BOOLEAN, ReadTarget(p, e, force)
      PROVE  LookedWell(ops'[p])
  <2> DEFINE s == IF ops[p].kind = "switch" THEN ops[p].current ELSE Null
  <2>1. CASE SessionExperimentOK(e, force)
    <3>1. /\ ops'[p].phase = "ready" /\ ops'[p].kind = ops[p].kind /\ ops'[p].closing = s
          /\ ops'[p].current = ops[p].current /\ ops'[p].seen = ops[p].seen
      BY <1>0, <1>2, <2>1 DEF ReadTarget, Op
    <3> QED
      BY <1>0, <3>1 DEF LookedWell
  <2>2. CASE ~SessionExperimentOK(e, force)
    BY <1>0, <1>1, <1>2, <2>2 DEF ReadTarget
  <2> QED
    BY <2>1, <2>2
<1>3. ASSUME NEW ref \in SessionIds \cup {Null}, ReadEnd(p, ref)
      PROVE  LookedWell(ops'[p])
  <2> DEFINE s == IF ref # Null THEN ref ELSE ops[p].current
  <2>1. CASE MayEnd(s)
    <3>1. /\ ops'[p].phase = "ready" /\ ops'[p].kind = "end" /\ ops'[p].closing = s
          /\ ops'[p].seen = ClosedSessions
      BY <1>0, <1>3, <2>1 DEF ReadEnd, Op
    <3>2. s \notin ClosedSessions
      BY <2>1 DEF MayEnd, IsOpen, ClosedSessions, Closed
    <3> QED
      BY <3>1, <3>2 DEF LookedWell
  <2>2. CASE ~MayEnd(s)
    BY <1>0, <1>1, <1>3, <2>2 DEF ReadEnd
  <2> QED
    BY <2>1, <2>2
<1>4. ASSUME NEW e \in Experiments, NEW errata \in BOOLEAN, ReadNote(p, e, errata)
      PROVE  LookedWell(ops'[p])
  <2>1. CASE e \in archived /\ ~errata
    BY <1>0, <1>1, <1>4, <2>1 DEF ReadNote
  <2>2. CASE ~(e \in archived /\ ~errata)
    <3>1. /\ ops'[p].phase = "ready" /\ ops'[p].kind = ops[p].kind
          /\ ops'[p].closing = ops[p].closing
          /\ ops'[p].current = ops[p].current /\ ops'[p].seen = ops[p].seen
      BY <1>0, <1>4, <2>2 DEF ReadNote, Op
    <3> QED
      BY <1>0, <3>1 DEF LookedWell
  <2> QED
    BY <2>1, <2>2
<1> QED
  BY <1>2, <1>3, <1>4 DEF Read

(* A write or a step on the marker changes the phase only, or ends.        *)
LEMMA WriteLooked ==
  ASSUME IInv, LookInv, NEW p \in Procs, Write(p) \/ Mark(p) \/ Die(p)
  PROVE  LookedWell(ops'[p])
<1>0. ops[p] \in Op /\ ops \in [Procs -> Op] /\ LookedWell(ops[p])
  BY OpOf DEF LookInv, IInv, TypeOK
<1>1. LookedWell(Ended(ops[p], "over")) /\ LookedWell(Ended(ops[p], "died"))
  BY <1>0, EndedLooked
<1>2. ASSUME NEW phase \in {"marking", "unmarking", "truncated", "unlinking"},
             ops'[p] = [ops[p] EXCEPT !.phase = phase]
      PROVE  LookedWell(ops'[p])
  <2>1. /\ ops'[p].phase = phase /\ ops'[p].kind = ops[p].kind
        /\ ops'[p].closing = ops[p].closing
        /\ ops'[p].current = ops[p].current /\ ops'[p].seen = ops[p].seen
    BY <1>0, <1>2 DEF Op
  <2> QED
    BY <1>0, <2>1 DEF LookedWell
<1>3. \/ ops'[p] = Ended(ops[p], "over") \/ ops'[p] = Ended(ops[p], "died")
      \/ \E phase \in {"marking", "unmarking", "truncated", "unlinking"} :
           ops'[p] = [ops[p] EXCEPT !.phase = phase]
  BY <1>0 DEF Write, StartSession, SwitchSession, EndSession, AddNote, Finish, Die,
     Mark, TruncateMarker, WriteMarker, ReadMarker, UnlinkMarker
<1> QED
  BY <1>1, <1>2, <1>3

(* A step changes the entry of the command that takes it, and no other.    *)
LEMMA OneCommand ==
  ASSUME IInv, NEW p \in Procs,
         Begin(p) \/ Open(p) \/ Read(p) \/ Write(p) \/ Mark(p) \/ Die(p),
         NEW q \in Procs, q # p
  PROVE  ops'[q] = ops[q]
<1>0. ops \in [Procs -> Op]
  BY DEF IInv, TypeOK
<1> QED
  BY <1>0 DEF Begin, Resolve, Open, Read, ReadTarget, ReadEnd, ReadNote, Finish, Die,
     Write, StartSession, SwitchSession, EndSession, AddNote,
     Mark, TruncateMarker, WriteMarker, ReadMarker, UnlinkMarker

(* Every step keeps what the looks have found.                             *)
LEMMA LookStep == IInv /\ LookInv /\ [Next]_vars => LookInv'
<1> SUFFICES ASSUME IInv, LookInv, [Next]_vars, NEW q \in Procs
             PROVE  LookedWell(ops'[q])
  BY DEF LookInv, LookedWell
<1>1. ASSUME NEW p \in Procs, Begin(p) \/ Open(p) \/ Read(p) \/ Write(p) \/ Mark(p) \/ Die(p)
      PROVE  LookedWell(ops'[q])
  <2>1. CASE q = p
    BY <1>1, <2>1, OpenLooked, ReadLooked, WriteLooked
  <2>2. CASE q # p
    BY <1>1, <2>2, OneCommand DEF LookInv
  <2> QED
    BY <2>1, <2>2
<1>2. ops' = ops => LookedWell(ops'[q])
  BY DEF LookInv
<1> QED
  BY <1>1, <1>2 DEF Next, ArchiveExperiment, vars

(* What the looks have found holds in every reachable state.               *)
LEMMA LookInvariant == Spec => [](IInv /\ LookInv)
<1>1. Init => LookInv
  BY DEF Init, LookInv, LookedWell, Unused
<1> QED
  BY <1>1, LookStep, Invariance, PTL DEF Spec

(* A row is stamped with a closed session only if that session was closed  *)
(* after the command that writes the row had looked (StampNeedsOverlap).   *)
THEOREM StampCauses == Spec => StampNeedsOverlap
<1> DEFINE A == \A p \in Procs : Stamps(p) /\ Closed(notes'[p].session)
                  => notes'[p].session \notin ops[p].seen
<1>1. IInv /\ LookInv /\ [Next]_vars => A
  <2> SUFFICES ASSUME IInv, LookInv, [Next]_vars, NEW p \in Procs, Stamps(p),
                      Closed(notes'[p].session)
               PROVE  notes'[p].session \notin ops[p].seen
    OBVIOUS
  <2>0. notes \in [Procs -> NoteRow \cup {Null}] /\ notes' # notes
    BY DEF IInv, TypeOK, Stamps
  <2>1. PICK q \in Procs : SwitchSession(q) \/ AddNote(q)
    BY <2>0 DEF Next, Begin, Resolve, Open, Read, ReadTarget, ReadEnd, ReadNote, Die,
       Write, StartSession, EndSession, ArchiveExperiment, vars,
       Mark, TruncateMarker, WriteMarker, ReadMarker, UnlinkMarker
  <2>2. ~SwitchSession(q)
    BY <2>0 DEF SwitchSession, SwitchNotes, Handoff, Stamps
  <2>3. AddNote(q) /\ q = p
    BY <2>0, <2>1, <2>2 DEF AddNote, Stamps
  <2>4. notes'[p].session = ops[p].current /\ ops[p].kind = "note"
    BY <2>0, <2>3 DEF AddNote, Stamp
  <2>5. ops[p].current # Null
    BY <2>4, NullAssumption DEF Closed, Exists, SessionIds
  <2> QED
    BY <2>4, <2>5 DEF LookInv, LookedWell
<1>2. IInv /\ LookInv /\ [Next]_vars => [A]_vars
  BY <1>1
<1> QED
  BY <1>2, LookInvariant, PTL DEF Spec, StampNeedsOverlap

(* No command reopens a closed session, and only one that had seen it open *)
(* writes over the end it records (ReclosingNeedsOverlap).                 *)
THEOREM ReclosingCauses == Spec => ReclosingNeedsOverlap
<1> DEFINE A == \A s \in ClosedSessions :
                  \/ sessions'[s] = sessions[s]
                  \/ /\ sessions'[s].experiment = sessions[s].experiment
                     /\ sessions'[s].ended # Null
                     /\ s \notin ops[sessions'[s].ended].seen
<1>1. IInv /\ LookInv /\ [Next]_vars => A
  <2> SUFFICES ASSUME IInv, LookInv, [Next]_vars, NEW s \in ClosedSessions,
                      sessions'[s] # sessions[s]
               PROVE  /\ sessions'[s].experiment = sessions[s].experiment
                      /\ sessions'[s].ended # Null
                      /\ s \notin ops[sessions'[s].ended].seen
    OBVIOUS
  <2>0. /\ s \in SessionIds /\ sessions[s] \in SessionRow /\ s # Null
        /\ sessions \in [SessionIds -> SessionRow \cup {Null}]
    BY NullAssumption DEF IInv, TypeOK, ClosedSessions, Closed, Exists, SessionIds
  <2>1. PICK p \in Procs : StartSession(p) \/ SwitchSession(p) \/ EndSession(p)
    BY DEF Next, Begin, Resolve, Open, Read, ReadTarget, ReadEnd, ReadNote, Die,
       Write, AddNote, ArchiveExperiment, vars,
       Mark, TruncateMarker, WriteMarker, ReadMarker, UnlinkMarker
  <2>2. s # p
    <3>1. Early(p)
      BY <2>1 DEF Early, StartSession, SwitchSession, EndSession
    <3> QED
      BY <3>1, OpOf DEF Unwritten, ClosedSessions, Closed, Exists
  <2>3. s = ops[p].closing /\ sessions'[s] = [sessions[s] EXCEPT !.ended = p]
    BY <2>0, <2>1, <2>2 DEF StartSession, SwitchSession, Switched, EndSession
  <2>4. sessions'[s].experiment = sessions[s].experiment /\ sessions'[s].ended = p
    BY <2>0, <2>3 DEF SessionRow
  <2> QED
    BY <2>0, <2>3, <2>4, NullAssumption DEF LookInv, LookedWell
<1>2. IInv /\ LookInv /\ [Next]_vars => [A]_vars
  BY <1>1
<1> QED
  BY <1>2, LookInvariant, PTL DEF Spec, ReclosingNeedsOverlap

-----------------------------------------------------------------------------
(* The marker, when the commands of one directory run one after another.   *)
Flying(op) == op.phase \notin {"new", "over", "died"}

(* Then a place has one command under way.                                 *)
Alone ==
  /\ \A p \in Procs : InFlight(p) => ops[p].place \in Places
  /\ \A p, q \in Procs : InFlight(p) /\ InFlight(q) /\ ops[p].place = ops[q].place => p = q

(* A session that is closed while its own command is yet to mark its place *)
(* is closed from elsewhere.                                               *)
ClosedElsewhere ==
  \A q \in Procs : InFlight(q) /\ Closed(q) => ops[sessions[q].ended].place # ops[q].place

(* A command that has ended a session still knows which, until it is over. *)
ClosingKnown ==
  \A s \in SessionIds :
    Closed(s) /\ InFlight(sessions[s].ended) => ops[sessions[s].ended].closing = s

MarkerInv == Alone /\ ClosedElsewhere /\ ClosingKnown /\ MarkerFollowsSessions

(* A closed session has been ended by a command that has written.          *)
LEMMA EnderWrote ==
  ASSUME IInv, NEW s, Closed(s)
  PROVE  /\ s \in SessionIds /\ sessions[s].ended \in Procs
         /\ ~Early(sessions[s].ended)
<1>1. s \in SessionIds /\ sessions[s] \in SessionRow /\ sessions[s].ended \in Procs
  BY RowType DEF IInv, TypeOK, Closed, Exists
<1> QED
  BY <1>1, OpOf DEF Unwritten, Closed, Exists

(* A step that leaves the sessions alone.  The command may touch the       *)
(* marker of its place only, and when it is over that does not name a      *)
(* session it has closed.                                                  *)
LEMMA MarkerQuiet ==
  ASSUME IInv, MarkerInv, NEW p \in Procs, NEW op \in Op,
         ops' = [ops EXCEPT ![p] = op], sessions' = sessions,
         \A d \in Places : \/ markers'[d] = markers[d]
                           \/ /\ InFlight(p) /\ d = ops[p].place
                              /\ markers'[d] \in {Null, p},
         op.place \in {ops[p].place, Null},
         Flying(op) => InFlight(p) /\ op.place = ops[p].place
                         /\ (op.closing = ops[p].closing \/ Early(p)),
         \/ Flying(op) \/ op.phase = "died"
         \/ \A d \in Places : Closed(markers'[d]) /\ sessions[markers'[d]].ended = p
              => d # ops[p].place
  PROVE  MarkerInv'
<1>0. Alone /\ ClosedElsewhere /\ ClosingKnown /\ MarkerFollowsSessions
  BY DEF MarkerInv
<1>1. ops'[p] = op /\ \A q \in Procs : q # p => ops'[q] = ops[q]
  BY DEF IInv, TypeOK
<1>2. \A s : Closed(s)' <=> Closed(s)
  BY DEF Closed, Exists, SessionIds
<1>3. \A q \in Procs : InFlight(q)' => InFlight(q) /\ ops'[q].place = ops[q].place
  BY <1>1 DEF InFlight, Flying
<1>4. \A q \in Procs : ops'[q].place \in {ops[q].place, Null}
  BY <1>1
<1>5. Alone'
  BY <1>0, <1>3 DEF Alone
<1>6. ClosedElsewhere'
  <2> SUFFICES ASSUME NEW q \in Procs, InFlight(q)', Closed(q)
               PROVE  ops'[sessions[q].ended].place # ops'[q].place
    BY <1>2 DEF ClosedElsewhere
  <2>1. InFlight(q) /\ ops'[q].place = ops[q].place /\ ops[q].place \in Places
    BY <1>0, <1>3 DEF Alone
  <2>2. sessions[q].ended \in Procs
    BY EnderWrote
  <2>3. ops[sessions[q].ended].place # ops[q].place
    BY <1>0, <2>1 DEF ClosedElsewhere
  <2> QED
    BY <1>4, <2>1, <2>2, <2>3, NullAssumption
<1>7. ClosingKnown'
  <2> SUFFICES ASSUME NEW s \in SessionIds, Closed(s), InFlight(sessions[s].ended)'
               PROVE  ops'[sessions[s].ended].closing = s
    BY <1>2 DEF ClosingKnown, SessionIds, InFlight
  <2>1. sessions[s].ended \in Procs /\ ~Early(sessions[s].ended)
    BY EnderWrote
  <2>2. InFlight(sessions[s].ended)
    BY <1>3, <2>1
  <2>3. ops[sessions[s].ended].closing = s
    BY <1>0, <2>2 DEF ClosingKnown
  <2> QED
    BY <1>1, <2>1, <2>3 DEF InFlight, Flying
<1>8. MarkerFollowsSessions'
  <2> SUFFICES ASSUME NEW d \in Places, Closed(markers'[d]),
                      NEW e, e = sessions[markers'[d]].ended
               PROVE  ops'[e].place # d \/ Flying(ops'[e]) \/ ops'[e].phase = "died"
    BY <1>2 DEF MarkerFollowsSessions, InFlight, Flying
  <2>1. e \in Procs /\ markers'[d] # Null /\ d # Null
    BY EnderWrote, NullAssumption DEF SessionIds
  <2>2. CASE markers'[d] = markers[d]
    <3>1. ops[e].place # d \/ InFlight(e) \/ ops[e].phase = "died"
      BY <1>0, <2>2 DEF MarkerFollowsSessions
    <3>2. CASE e # p
      BY <1>1, <2>1, <3>1, <3>2 DEF InFlight, Flying
    <3>3. CASE e = p
      <4>1. CASE Flying(op) \/ op.phase = "died"
        BY <1>1, <3>3, <4>1
      <4>2. CASE ~(Flying(op) \/ op.phase = "died")
        <5>1. d # ops[p].place
          BY <3>3, <4>2
        <5> QED
          BY <1>1, <2>1, <3>3, <5>1
      <4> QED
        BY <4>1, <4>2
    <3> QED
      BY <3>2, <3>3
  <2>3. CASE markers'[d] # markers[d]
    <3>1. InFlight(p) /\ d = ops[p].place /\ markers'[d] = p
      BY <2>1, <2>3
    <3>2. ops[e].place # d
      BY <1>0, <3>1 DEF ClosedElsewhere
    <3> QED
      BY <1>1, <2>1, <3>1, <3>2
  <2> QED
    BY <2>2, <2>3
<1> QED
  BY <1>5, <1>6, <1>7, <1>8 DEF MarkerInv

(* A step that opens the session of its command, closes another, or both.  *)
LEMMA MarkerWrite ==
  ASSUME IInv, MarkerInv, NEW p \in Procs, NEW op \in Op, Early(p), InFlight(p),
         ops' = [ops EXCEPT ![p] = op], markers' = markers, Flying(op),
         op.place = ops[p].place, op.closing = ops[p].closing,
         sessions'[p] # Null => sessions'[p].ended = Null,
         \A s \in SessionIds \ {p} :
           \/ sessions'[s] = sessions[s]
           \/ sessions[s] # Null /\ sessions'[s].ended = p /\ s = ops[p].closing
  PROVE  MarkerInv'
<1>0. Alone /\ ClosedElsewhere /\ ClosingKnown /\ MarkerFollowsSessions /\ Unwritten(p)
  BY OpOf DEF MarkerInv
<1>1. ops'[p] = op /\ \A q \in Procs : q # p => ops'[q] = ops[q]
  BY DEF IInv, TypeOK
<1>2. ASSUME NEW s, Closed(s)'
      PROVE  /\ s \in SessionIds /\ s # p
             /\ \/ Closed(s) /\ sessions'[s].ended = sessions[s].ended /\ sessions[s].ended # p
                \/ sessions'[s].ended = p /\ s = ops[p].closing
  BY <1>0, <1>2 DEF Closed, Exists, Unwritten, SessionIds
<1>3. \A q \in Procs : (InFlight(q)' <=> InFlight(q)) /\ ops'[q].place = ops[q].place
                       /\ ops'[q].closing = ops[q].closing /\ (InFlight(q)' <=> Flying(ops'[q]))
  BY <1>1 DEF InFlight, Flying
<1>4. Alone'
  BY <1>0, <1>3 DEF Alone
<1>5. ClosedElsewhere'
  <2> SUFFICES ASSUME NEW q \in Procs, InFlight(q)', Closed(q)'
               PROVE  ops'[sessions'[q].ended].place # ops'[q].place
    BY DEF ClosedElsewhere
  <2>1. CASE Closed(q) /\ sessions'[q].ended = sessions[q].ended
    <3>1. sessions[q].ended \in Procs
      BY <2>1, EnderWrote
    <3>2. ops[sessions[q].ended].place # ops[q].place
      BY <1>0, <1>3, <2>1 DEF ClosedElsewhere
    <3> QED
      BY <1>3, <2>1, <3>1, <3>2
  <2>2. CASE sessions'[q].ended = p
    <3>1. q # p /\ InFlight(q)
      BY <1>2, <1>3
    <3>2. ops[p].place # ops[q].place
      BY <1>0, <3>1 DEF Alone
    <3> QED
      BY <1>3, <2>2, <3>2
  <2> QED
    BY <1>2, <2>1, <2>2
<1>6. ClosingKnown'
  <2> SUFFICES ASSUME NEW s \in SessionIds, Closed(s)',
                      NEW e, e = sessions'[s].ended, Flying(ops'[e])
               PROVE  ops'[e].closing = s
    BY DEF ClosingKnown, InFlight, Flying, SessionIds
  <2>1. CASE Closed(s) /\ e = sessions[s].ended
    <3>1. e \in Procs
      BY <2>1, EnderWrote
    <3>2. InFlight(e) /\ ops[e].closing = s
      BY <1>0, <1>3, <2>1, <3>1 DEF ClosingKnown
    <3> QED
      BY <1>3, <3>1, <3>2
  <2>2. CASE e = p /\ s = ops[p].closing
    BY <1>3, <2>2
  <2> QED
    BY <1>2, <2>1, <2>2
<1>7. MarkerFollowsSessions'
  <2> SUFFICES ASSUME NEW d \in Places, NEW s, s = markers[d], Closed(s)',
                      NEW e, e = sessions'[s].ended
               PROVE  ops'[e].place # d \/ Flying(ops'[e]) \/ ops'[e].phase = "died"
    BY DEF MarkerFollowsSessions, InFlight, Flying, Closed, Exists, SessionIds
  <2>1. CASE Closed(s) /\ e = sessions[s].ended /\ e # p
    <3>1. e \in Procs
      BY <2>1, EnderWrote
    <3>2. ops[e].place # d \/ InFlight(e) \/ ops[e].phase = "died"
      BY <1>0, <2>1 DEF MarkerFollowsSessions
    <3> QED
      BY <1>1, <2>1, <3>1, <3>2 DEF InFlight, Flying
  <2>2. CASE e = p
    BY <1>1, <2>2
  <2> QED
    BY <1>2, <2>1, <2>2
<1> QED
  BY <1>4, <1>5, <1>6, <1>7 DEF MarkerInv

(* A command starts in a place where none is under way.                    *)
LEMMA MarkerResolve ==
  ASSUME IInv, MarkerInv, MaxOverlap = 1, NEW p \in Procs, Begin(p)
  PROVE  MarkerInv'
<1>0. Alone /\ ClosedElsewhere /\ ClosingKnown /\ MarkerFollowsSessions
  BY DEF MarkerInv
<1>1. PICK kind \in Kinds, d \in Places, env \in SessionIds \cup {Null} : Resolve(p, kind, d, env)
  BY DEF Begin
<1>2. Early(p) /\ Unwritten(p) /\ ops[p] \in Op
  BY <1>1, OpOf DEF Early, Resolve
<1>3. ops'[p].place = d /\ InFlight(p)' /\ \A q \in Procs : q # p => ops'[q] = ops[q]
  BY <1>1, <1>2 DEF Resolve, InFlight, IInv, TypeOK, Op
<1>4. sessions' = sessions /\ markers' = markers
  BY <1>1 DEF Resolve
<1>5. \A q \in Procs : ~(InFlight(q) /\ ops[q].place = d)
  <2> DEFINE There == {q \in Procs : InFlight(q) /\ ops[q].place = d}
  <2>1. Cardinality(There) < 1
    BY <1>1 DEF Resolve
  <2>2. ASSUME NEW q \in There PROVE FALSE
    <3>1. There = {q}
      BY <1>0 DEF Alone
    <3> HIDE DEF There
    <3> QED
      BY <2>1, <3>1, FS_Singleton
  <2> QED
    BY <2>2
<1>6. \A q \in Procs : q # p => (InFlight(q)' <=> InFlight(q))
  BY <1>3 DEF InFlight
<1>7. Alone'
  <2>1. \A q \in Procs : InFlight(q)' => ops'[q].place \in Places
    BY <1>0, <1>3, <1>6 DEF Alone
  <2>2. ASSUME NEW q \in Procs, NEW r \in Procs, InFlight(q)', InFlight(r)',
               ops'[q].place = ops'[r].place
        PROVE  q = r
    BY <1>0, <1>3, <1>5, <1>6, <2>2 DEF Alone
  <2> QED
    BY <2>1, <2>2 DEF Alone
<1>8. \A s : /\ Closed(s)' <=> Closed(s)
             /\ Closed(s) => s # p /\ s \in SessionIds /\ sessions[s].ended \in Procs \ {p}
  BY <1>2, <1>4, EnderWrote DEF Closed, Exists, Unwritten, SessionIds
<1>9. ClosedElsewhere'
  BY <1>0, <1>3, <1>4, <1>6, <1>8 DEF ClosedElsewhere
<1>10. ClosingKnown'
  BY <1>0, <1>3, <1>4, <1>6, <1>8 DEF ClosingKnown, SessionIds
<1>11. MarkerFollowsSessions'
  BY <1>0, <1>3, <1>4, <1>6, <1>8 DEF MarkerFollowsSessions
<1> QED
  BY <1>7, <1>9, <1>10, <1>11 DEF MarkerInv


(* A command that has not written has ended no session, so that it may     *)
(* give up, or go on.                                                      *)
LEMMA MarkerEarly ==
  ASSUME IInv, MarkerInv, NEW p \in Procs, NEW op \in Op, Early(p), InFlight(p),
         ops' = [ops EXCEPT ![p] = op], sessions' = sessions, markers' = markers,
         op.place = ops[p].place \/ (op.place = Null /\ ~Flying(op))
  PROVE  MarkerInv'
<1>1. \A s : Closed(s) => sessions[s].ended # p
  BY EnderWrote
<1> QED
  BY <1>1, MarkerQuiet

(* A command that ends keeps its place, or forgets it.                     *)
LEMMA EndedPlace ==
  ASSUME NEW op \in Op, NEW phase \in {"over", "died"}
  PROVE  /\ Ended(op, phase) \in Op /\ Ended(op, phase).phase = phase
         /\ ~Flying(Ended(op, phase)) /\ Ended(op, phase).place \in {op.place, Null}
BY DEF Ended, Unused, Op, Flying

(* The reads before the write, and a note, close no session.               *)
LEMMA MarkerRead ==
  ASSUME IInv, MarkerInv, NEW p \in Procs, Open(p) \/ Read(p) \/ AddNote(p)
  PROVE  MarkerInv'
<1>0. ops[p] \in Op /\ Ended(ops[p], "over") \in Op
  BY OpOf, EndedPlace
<1>1. /\ Early(p) /\ InFlight(p) /\ sessions' = sessions /\ markers' = markers
  BY DEF Open, Read, ReadTarget, ReadEnd, ReadNote, AddNote, Early, InFlight
<1>2. CASE ops' = [ops EXCEPT ![p] = Ended(ops[p], "over")]
  <2> DEFINE op == Ended(ops[p], "over")
  <2>1. op \in Op /\ (op.place = ops[p].place \/ (op.place = Null /\ ~Flying(op)))
    BY <1>0, EndedPlace
  <2> HIDE DEF op
  <2> QED
    BY <1>1, <1>2, <2>1, MarkerEarly DEF op
<1>3. CASE ops' # [ops EXCEPT ![p] = Ended(ops[p], "over")]
  <2>1. PICK op : op = ops'[p]
    OBVIOUS
  <2>2. TypeOK' /\ TypeOK
    BY OpOf, ReadStep, ResolveStep, WriteSteps DEF IInv, Write
  <2>3. op \in Op
    BY <2>1, <2>2 DEF TypeOK
  <2>4. ops' = [ops EXCEPT ![p] = op]
    <3>1. ASSUME NEW o, ops' = [ops EXCEPT ![p] = o] PROVE ops' = [ops EXCEPT ![p] = op]
      BY <2>1, <2>2, <3>1 DEF TypeOK
    <3>2. CASE Open(p)
      BY <3>1, <3>2 DEF Open
    <3>3. CASE AddNote(p)
      BY <3>1, <3>3 DEF AddNote, Finish
    <3>4. CASE \E e \in Experiments \cup {Null}, force \in BOOLEAN : ReadTarget(p, e, force)
      BY <3>1, <3>4 DEF ReadTarget
    <3>5. CASE \E ref \in SessionIds \cup {Null} : ReadEnd(p, ref)
      BY <3>1, <3>5 DEF ReadEnd
    <3>6. CASE \E e \in Experiments, errata \in BOOLEAN : ReadNote(p, e, errata)
      BY <3>1, <3>6 DEF ReadNote
    <3> QED
      BY <3>2, <3>3, <3>4, <3>5, <3>6 DEF Read
  <2>5. op.place = ops[p].place
    <3>1. CASE Open(p)
      BY <1>0, <2>1, <2>2, <3>1 DEF Open, TypeOK, Op
    <3>2. ~AddNote(p)
      BY <1>3 DEF AddNote, Finish
    <3>3. ASSUME NEW o, ops' = [ops EXCEPT ![p] = o] PROVE op = o
      BY <2>1, <2>2, <3>3 DEF TypeOK
    <3>4. ASSUME NEW e, NEW force, ReadTarget(p, e, force) PROVE op.place = ops[p].place
      <4>1. SessionExperimentOK(e, force)
        BY <1>3, <3>4 DEF ReadTarget
      <4>2. PICK o : o = [ops[p] EXCEPT !.phase = "ready", !.target = e,
                            !.closing = IF ops[p].kind = "switch" THEN ops[p].current ELSE Null]
        OBVIOUS
      <4>3. ops' = [ops EXCEPT ![p] = o]
        BY <3>4, <4>1, <4>2 DEF ReadTarget
      <4>4. o.place = ops[p].place
        BY <1>0, <4>2 DEF Op
      <4> QED
        BY <3>3, <4>3, <4>4
    <3>5. ASSUME NEW ref, ReadEnd(p, ref) PROVE op.place = ops[p].place
      <4>1. PICK s : \/ ops' = [ops EXCEPT ![p] = [@ EXCEPT !.phase = "ready", !.closing = s,
                                                                 !.seen = ClosedSessions]]
                     \/ ops' = [ops EXCEPT ![p] = Ended(@, "over")]
        BY <3>5 DEF ReadEnd
      <4>2. \E o : ops' = [ops EXCEPT ![p] = o] /\ o.place = ops[p].place
        BY <1>0, <1>3, <4>1 DEF Op
      <4> QED
        BY <3>3, <4>2
    <3>6. ASSUME NEW e, NEW errata, ReadNote(p, e, errata) PROVE op.place = ops[p].place
      <4>1. ops' = [ops EXCEPT ![p] = [@ EXCEPT !.phase = "ready", !.target = e]]
        BY <1>3, <3>6 DEF ReadNote
      <4>2. PICK o : o = [ops[p] EXCEPT !.phase = "ready", !.target = e]
        OBVIOUS
      <4>3. ops' = [ops EXCEPT ![p] = o]
        BY <4>1, <4>2
      <4>4. o.place = ops[p].place
        BY <1>0, <4>2 DEF Op
      <4> QED
        BY <3>3, <4>3, <4>4
    <3> QED
      BY <3>1, <3>2, <3>4, <3>5, <3>6 DEF Read
  <2>6. op.place = ops[p].place \/ (op.place = Null /\ ~Flying(op))
    BY <2>5
  <2> HIDE <2>1
  <2> QED
    BY <1>1, <2>3, <2>4, <2>6, MarkerEarly
<1> QED
  BY <1>2, <1>3

(* The writes: start, switch and end.                                      *)
LEMMA MarkerWrites ==
  ASSUME IInv, MarkerInv, NEW p \in Procs, StartSession(p) \/ SwitchSession(p) \/ EndSession(p)
  PROVE  MarkerInv'
<1>0. ops[p] \in Op /\ WellRead(p) /\ TypeOK
  BY OpOf DEF IInv
<1>1. /\ Early(p) /\ InFlight(p) /\ Unwritten(p) /\ markers' = markers /\ ops[p].phase = "ready"
  BY OpOf DEF StartSession, SwitchSession, EndSession, Early, InFlight
<1>2. PICK phase \in {"marking", "unmarking"} : ops' = [ops EXCEPT ![p] = [@ EXCEPT !.phase = phase]]
  BY DEF StartSession, SwitchSession, EndSession
<1>3. PICK op : op = [ops[p] EXCEPT !.phase = phase]
  OBVIOUS
<1>4. /\ op \in Op /\ ops' = [ops EXCEPT ![p] = op] /\ Flying(op)
      /\ op.place = ops[p].place /\ op.closing = ops[p].closing
  BY <1>0, <1>2, <1>3 DEF Op, Flying
<1>5. Opened(p).ended = Null
  BY DEF Opened
<1>6. \A s \in SessionIds : s = ops[p].closing =>
        s # p /\ sessions[s] # Null /\ sessions[s] \in SessionRow
  BY <1>0, <1>1, NullAssumption DEF WellRead, Exists, Unwritten, SessionIds, TypeOK
<1>7. /\ sessions'[p] # Null => sessions'[p].ended = Null
      /\ \A s \in SessionIds \ {p} :
           \/ sessions'[s] = sessions[s]
           \/ sessions[s] # Null /\ sessions'[s].ended = p /\ s = ops[p].closing
  <2>1. CASE StartSession(p)
    BY <1>0, <1>5, <2>1 DEF StartSession, TypeOK, SessionIds
  <2>2. CASE SwitchSession(p)
    BY <1>0, <1>5, <1>6, <2>2 DEF SwitchSession, Switched, TypeOK, SessionIds, SessionRow
  <2>3. CASE EndSession(p)
    <3>1. ops[p].closing \in SessionIds
      BY <1>0, <2>3 DEF WellRead, EndSession, Exists
    <3>2. sessions'[p] = Null
      BY <1>0, <1>1, <1>6, <2>3, <3>1 DEF EndSession, TypeOK, Unwritten, SessionIds
    <3>3. \A s \in SessionIds : s # ops[p].closing => sessions'[s] = sessions[s]
      BY <1>0, <2>3, <3>1 DEF EndSession, TypeOK
    <3>4. sessions'[ops[p].closing].ended = p
      BY <1>0, <1>6, <2>3, <3>1 DEF EndSession, TypeOK, SessionRow
    <3> QED
      BY <1>6, <3>1, <3>2, <3>3, <3>4
  <2> QED
    BY <2>1, <2>2, <2>3
<1> QED
  BY <1>1, <1>4, <1>7, MarkerWrite

(* The steps on the marker, and the death of a command.                    *)
LEMMA MarkerMark ==
  ASSUME IInv, MarkerInv, NEW p \in Procs, Mark(p) \/ Die(p)
  PROVE  MarkerInv'
<1>0. ops[p] \in Op /\ TypeOK /\ Alone /\ ClosedElsewhere /\ ClosingKnown
  BY OpOf DEF IInv, MarkerInv
<1>1. InFlight(p) /\ sessions' = sessions /\ ops[p].place \in Places
  BY <1>0 DEF Mark, TruncateMarker, WriteMarker, ReadMarker, UnlinkMarker, Die, InFlight, Alone
<1>2. ASSUME NEW phase \in {"truncated", "unlinking"}, ops' = [ops EXCEPT ![p] = [@ EXCEPT !.phase = phase]],
             \A d \in Places : \/ markers'[d] = markers[d]
                               \/ d = ops[p].place /\ markers'[d] \in {Null, p}
      PROVE  MarkerInv'
  <2>1. PICK op : op = [ops[p] EXCEPT !.phase = phase]
    OBVIOUS
  <2>2. /\ op \in Op /\ ops' = [ops EXCEPT ![p] = op] /\ Flying(op)
        /\ op.place = ops[p].place /\ op.closing = ops[p].closing
    BY <1>0, <1>2, <2>1 DEF Op, Flying
  <2> QED
    BY <1>1, <1>2, <2>2, MarkerQuiet
<1>3. ASSUME NEW phase \in {"over", "died"}, ops' = [ops EXCEPT ![p] = Ended(@, phase)],
             \A d \in Places : \/ markers'[d] = markers[d]
                               \/ d = ops[p].place /\ markers'[d] \in {Null, p},
             \/ phase = "died"
             \/ \A d \in Places : Closed(markers'[d]) /\ sessions[markers'[d]].ended = p
                  => d # ops[p].place
      PROVE  MarkerInv'
  <2>1. PICK op : op = Ended(ops[p], phase)
    OBVIOUS
  <2>2. /\ op \in Op /\ ops' = [ops EXCEPT ![p] = op] /\ ~Flying(op) /\ op.phase = phase
        /\ op.place \in {ops[p].place, Null}
    BY <1>0, <1>3, <2>1, EndedPlace
  <2> QED
    BY <1>1, <1>3, <2>2, MarkerQuiet
<1>4. markers \in [Places -> SessionIds \cup {Null}] /\ ~Closed(Null)
  BY <1>0, NullAssumption DEF TypeOK, Closed, Exists, SessionIds
<1>5. CASE TruncateMarker(p)
  BY <1>1, <1>2, <1>4, <1>5 DEF TruncateMarker
<1>6. CASE WriteMarker(p)
  <2>1. \A d \in Places : \/ markers'[d] = markers[d] /\ d # ops[p].place
                          \/ d = ops[p].place /\ markers'[d] = p
    BY <1>1, <1>4, <1>6 DEF WriteMarker
  <2>2. ~(Closed(p) /\ sessions[p].ended = p)
    BY <1>0, <1>1 DEF ClosedElsewhere
  <2> QED
    BY <1>3, <1>6, <2>1, <2>2 DEF WriteMarker, Finish
<1>7. CASE ReadMarker(p)
  <2>1. markers' = markers
    BY <1>7 DEF ReadMarker
  <2>2. CASE Unmarks(p)
    BY <1>2, <1>7, <2>1, <2>2 DEF ReadMarker
  <2>3. CASE ~Unmarks(p)
    <3>1. \A d \in Places : Closed(markers[d]) /\ sessions[markers[d]].ended = p => d # ops[p].place
      BY <1>0, <1>1, <2>3 DEF ClosingKnown, Unmarks, Closed, Exists
    <3> QED
      BY <1>3, <1>7, <2>1, <2>3, <3>1 DEF ReadMarker
  <2> QED
    BY <2>2, <2>3
<1>8. CASE UnlinkMarker(p)
  <2>1. \A d \in Places : \/ markers'[d] = markers[d] /\ d # ops[p].place
                          \/ d = ops[p].place /\ markers'[d] = Null
    BY <1>1, <1>4, <1>8 DEF UnlinkMarker
  <2> QED
    BY <1>3, <1>4, <1>8, <2>1 DEF UnlinkMarker, Finish
<1>9. CASE Die(p)
  BY <1>3, <1>9 DEF Die
<1> QED
  BY <1>5, <1>6, <1>7, <1>8, <1>9 DEF Mark

(* Every step keeps the marker invariant.                                  *)
LEMMA MarkerStep == MaxOverlap = 1 /\ IInv /\ MarkerInv /\ [Next]_vars => MarkerInv'
<1> SUFFICES ASSUME MaxOverlap = 1, IInv, MarkerInv, [Next]_vars PROVE MarkerInv'
  OBVIOUS
<1>1. ASSUME UNCHANGED <<sessions, markers, ops>> PROVE MarkerInv'
  BY <1>1 DEF MarkerInv, Alone, ClosedElsewhere, ClosingKnown, MarkerFollowsSessions,
     InFlight, Closed, Exists, SessionIds
<1>2. UNCHANGED vars \/ (\E e \in Experiments : ArchiveExperiment(e)) => MarkerInv'
  BY <1>1 DEF ArchiveExperiment, vars
<1> QED
  BY <1>2, MarkerResolve, MarkerRead, MarkerWrites, MarkerMark DEF Next, Write

(* With one command at a time in a directory, its marker names a session   *)
(* that was closed elsewhere, that is being closed, or whose closing       *)
(* command died before it came to the marker; and no other closed session  *)
(* (MarkerFollowsSessions).                                                *)
THEOREM MarkersFollow == MaxOverlap = 1 /\ Spec => []MarkerFollowsSessions
<1>1. Init => MarkerInv
  BY NullAssumption DEF Init, MarkerInv, Alone, ClosedElsewhere, ClosingKnown, MarkerFollowsSessions,
     Unused, InFlight, Closed, Exists, SessionIds
<1>2. ASSUME MaxOverlap = 1 PROVE IInv /\ MarkerInv /\ [Next]_vars => MarkerInv'
  BY <1>2, MarkerStep
<1>3. MarkerInv => MarkerFollowsSessions
  BY DEF MarkerInv
<1>4. ASSUME MaxOverlap = 1 PROVE Spec => []MarkerFollowsSessions
  BY <1>1, <1>2, <1>3, <1>4, Invariance, PTL DEF Spec
<1> QED
  BY <1>4
=============================================================================
