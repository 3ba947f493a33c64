------------------------------ MODULE Sessions ------------------------------
(***************************************************************************)
(* Agent sessions: rows of the table sessions, the marker files that say   *)
(* which session a directory works under, and the stamp of the session on  *)
(* what a command writes.                                                  *)
(*                                                                         *)
(* One command is one process: it resolves a session id from its           *)
(* environment or the marker, keeps it if that session is open, reads,     *)
(* writes in one transaction, and then touches the marker.  Commands       *)
(* interleave and die between any two of these steps.                      *)
(***************************************************************************)
EXTENDS Integers, FiniteSets

CONSTANTS
  Procs,        \* the commands that are ever run
  Places,       \* directories with a marker file (LedgerResolution.marker_root)
  Experiments,  \* experiment ids
  MaxOverlap,   \* bound: how many commands are under way at once in a place
  Null          \* no session, no experiment, no marker

VARIABLES
  sessions,     \* the session that a command has opened; Null where none
  notes,        \* the note that a command has written; Null where none
  archived,     \* experiments with deleted_at set
  markers,      \* per place, the id in .fieldbook.session; Null if missing or malformed
  ops           \* per command: how far it is, and what its reads have fixed

vars == <<sessions, notes, archived, markers, ops>>

-----------------------------------------------------------------------------
(* new_id is unique, so the command that opens a session names it.  Of     *)
(* ended_at it matters whose time it holds: Null while the session is open.*)
SessionIds == Procs

SessionRow == [experiment: Experiments \cup {Null}, ended: Procs \cup {Null}]

(* Any row stamped with the current session is a note here; session is the *)
(* stamp, or the session that a handoff note closes.                       *)
NoteRow ==
  [type: {"handoff", "other"}, experiment: Experiments, session: SessionIds \cup {Null}]

Kinds == {"start", "switch", "end", "note"}

(* raw: the id as resolved; current: Repository.current_session_id; target:*)
(* the experiment written to; closing: the session to be closed; seen: the *)
(* sessions that were closed when the command last looked.                 *)
Op ==
  [phase: {"new", "resolved", "open", "ready", "marking", "truncated",
           "unmarking", "unlinking", "over", "died"},
   kind: Kinds \cup {Null}, place: Places \cup {Null},
   raw: SessionIds \cup {Null}, current: SessionIds \cup {Null},
   target: Experiments \cup {Null}, closing: SessionIds \cup {Null},
   seen: SUBSET SessionIds]

ASSUME NullAssumption == Null \notin Procs \cup Places \cup Experiments \cup SessionRow \cup NoteRow \cup Kinds
ASSUME BoundAssumption == MaxOverlap \in Nat

Exists(s) == s \in SessionIds /\ sessions[s] # Null
Closed(s) == Exists(s) /\ sessions[s].ended # Null
IsOpen(s) == Exists(s) /\ sessions[s].ended = Null
ClosedSessions == {s \in SessionIds : Closed(s)}
InFlight(p) == ops[p].phase \notin {"new", "over", "died"}

Unused ==
  [phase |-> "new", kind |-> Null, place |-> Null, raw |-> Null, current |-> Null,
   target |-> Null, closing |-> Null, seen |-> {}]

(* What is still known of a command that has ended: whether it died, and   *)
(* how and where it meant to close a session.                              *)
Ended(op, phase) ==
  IF op.closing = Null THEN [Unused EXCEPT !.phase = phase]
  ELSE [Unused EXCEPT !.phase = phase, !.kind = op.kind, !.place = op.place]

Finish(p) == ops' = [ops EXCEPT ![p] = Ended(@, "over")]

Init ==
  /\ sessions = [s \in SessionIds |-> Null]
  /\ notes = [p \in Procs |-> Null]
  /\ archived = {}
  /\ markers = [d \in Places |-> Null]
  /\ ops = [p \in Procs |-> Unused]

-----------------------------------------------------------------------------
(* _resolved_session_id: FIELDBOOK_SESSION_ID comes before the marker; it  *)
(* may hold any id, one that no session has yet standing for an unknown.   *)
Resolve(p, kind, d, env) ==
  /\ ops[p].phase = "new"
  /\ Cardinality({q \in Procs : InFlight(q) /\ ops[q].place = d}) < MaxOverlap
  /\ ops' = [ops EXCEPT ![p] =
       [@ EXCEPT !.phase = "resolved", !.kind = kind, !.place = d,
                 !.raw = IF env # Null THEN env ELSE markers[d]]]
  /\ UNCHANGED <<sessions, notes, archived, markers>>

ValidOpenSessionId(s) == IF IsOpen(s) THEN s ELSE Null

(* Repository.__init__                                                     *)
Open(p) ==
  /\ ops[p].phase = "resolved"
  /\ ops' = [ops EXCEPT ![p] =
       [@ EXCEPT !.phase = "open", !.raw = Null, !.current = ValidOpenSessionId(ops[p].raw),
                 !.seen = ClosedSessions]]
  /\ UNCHANGED <<sessions, notes, archived, markers>>

-----------------------------------------------------------------------------
(* start and switch: the experiment is not archived or --force-archived is *)
(* given; switch has to have an experiment.  current_session finds the row *)
(* whether it is still open or not.                                        *)
SessionExperimentOK(e, force) == e = Null \/ e \notin archived \/ force

ReadTarget(p, e, force) ==
  /\ ops[p].phase = "open"
  /\ ops[p].kind \in {"start", "switch"}
  /\ ops[p].kind = "switch" => e # Null
  /\ ops' = [ops EXCEPT ![p] =
       IF SessionExperimentOK(e, force)
       THEN [@ EXCEPT !.phase = "ready", !.target = e,
                      !.closing = IF ops[p].kind = "switch" THEN ops[p].current ELSE Null]
       ELSE Ended(@, "over")]
  /\ UNCHANGED <<sessions, notes, archived, markers>>

Opened(p) == [experiment |-> ops[p].target, ended |-> Null]

HandsOff(s) == s # Null /\ sessions[s].experiment # Null

Handoff_OfNewSession(p) ==
  [type |-> "handoff", experiment |-> sessions[ops[p].closing].experiment, session |-> p]

Handoff(p) ==
  LET s == ops[p].closing
  IN  [type |-> "handoff", experiment |-> sessions[s].experiment, session |-> s]

StartSession(p) ==
  /\ ops[p].phase = "ready"
  /\ ops[p].kind = "start"
  /\ sessions' = [sessions EXCEPT ![p] = Opened(p)]
  /\ ops' = [ops EXCEPT ![p] = [@ EXCEPT !.phase = "marking"]]
  /\ UNCHANGED <<notes, archived, markers>>

(* BEGIN IMMEDIATE: the old session is closed, the handoff note written    *)
(* and the new session opened, or nothing is.                              *)
Switched(p) ==
  [s \in SessionIds |->
    IF s = p THEN Opened(p)
    ELSE IF s = ops[p].closing THEN [sessions[s] EXCEPT !.ended = p]
    ELSE sessions[s]]

SwitchNotes(p) ==
  IF HandsOff(ops[p].closing) THEN [notes EXCEPT ![p] = Handoff(p)] ELSE notes

SwitchSession(p) ==
  /\ ops[p].phase = "ready"
  /\ ops[p].kind = "switch"
  /\ sessions' = Switched(p)
  /\ notes' = SwitchNotes(p)
  /\ ops' = [ops EXCEPT ![p] = [@ EXCEPT !.phase = "marking"]]
  /\ UNCHANGED <<archived, markers>>

(* _write_session_marker, after the commit: write_text truncates the file  *)
(* and then fills it.                                                      *)
TruncateMarker(p) ==
  /\ ops[p].phase = "marking"
  /\ markers' = [markers EXCEPT ![ops[p].place] = Null]
  /\ ops' = [ops EXCEPT ![p] = [@ EXCEPT !.phase = "truncated"]]
  /\ UNCHANGED <<sessions, notes, archived>>

WriteMarker(p) ==
  /\ ops[p].phase = "truncated"
  /\ markers' = [markers EXCEPT ![ops[p].place] = p]
  /\ Finish(p)
  /\ UNCHANGED <<sessions, notes, archived>>

-----------------------------------------------------------------------------
(* end: of the session given by --id or the current one.  Closed already,  *)
(* it is an error, or with --force nothing happens.                        *)
MayEnd_Exists(s) == Exists(s)

MayEnd(s) == IsOpen(s)

ReadEnd(p, ref) ==
  /\ ops[p].phase = "open"
  /\ ops[p].kind = "end"
  /\ LET s == IF ref # Null THEN ref ELSE ops[p].current
     IN  ops' = [ops EXCEPT ![p] =
           IF MayEnd(s)
           THEN [@ EXCEPT !.phase = "ready", !.closing = s, !.seen = ClosedSessions]
           ELSE Ended(@, "over")]
  /\ UNCHANGED <<sessions, notes, archived, markers>>

EndSession(p) ==
  /\ ops[p].phase = "ready"
  /\ ops[p].kind = "end"
  /\ sessions' = [sessions EXCEPT ![ops[p].closing].ended = p]
  /\ ops' = [ops EXCEPT ![p] = [@ EXCEPT !.phase = "unmarking"]]
  /\ UNCHANGED <<notes, archived, markers>>

(* _session_end: the marker goes if it names the session just closed.      *)
Unmarks_Never(p) == FALSE

Unmarks(p) == markers[ops[p].place] = ops[p].closing

ReadMarker(p) ==
  /\ ops[p].phase = "unmarking"
  /\ ops' = [ops EXCEPT ![p] =
       IF Unmarks(p) THEN [@ EXCEPT !.phase = "unlinking"] ELSE Ended(@, "over")]
  /\ UNCHANGED <<sessions, notes, archived, markers>>

UnlinkMarker(p) ==
  /\ ops[p].phase = "unlinking"
  /\ markers' = [markers EXCEPT ![ops[p].place] = Null]
  /\ Finish(p)
  /\ UNCHANGED <<sessions, notes, archived>>

-----------------------------------------------------------------------------
(* add_note: an archived experiment takes a note only with --errata.       *)
ReadNote(p, e, errata) ==
  /\ ops[p].phase = "open"
  /\ ops[p].kind = "note"
  /\ ops' = [ops EXCEPT ![p] =
       IF e \in archived /\ ~errata THEN Ended(@, "over")
       ELSE [@ EXCEPT !.phase = "ready", !.target = e]]
  /\ UNCHANGED <<sessions, notes, archived, markers>>

(* _attrs_with_session                                                     *)
Stamp_Marker(p) == markers[ops[p].place]

Stamp(p) == ops[p].current

AddNote(p) ==
  /\ ops[p].phase = "ready"
  /\ ops[p].kind = "note"
  /\ notes' = [notes EXCEPT ![p] =
       [type |-> "other", experiment |-> ops[p].target, session |-> Stamp(p)]]
  /\ Finish(p)
  /\ UNCHANGED <<sessions, archived, markers>>

ArchiveExperiment(e) ==
  /\ archived' = archived \cup {e}
  /\ UNCHANGED <<sessions, notes, markers, ops>>

(* The process is killed, or finds the database locked.                    *)
Die(p) ==
  /\ InFlight(p)
  /\ ops' = [ops EXCEPT ![p] = Ended(@, "died")]
  /\ UNCHANGED <<sessions, notes, archived, markers>>

-----------------------------------------------------------------------------
Begin(p) ==
  \E kind \in Kinds, d \in Places, env \in SessionIds \cup {Null} : Resolve(p, kind, d, env)

Read(p) ==
  \/ \E e \in Experiments \cup {Null}, force \in BOOLEAN : ReadTarget(p, e, force)
  \/ \E ref \in SessionIds \cup {Null} : ReadEnd(p, ref)
  \/ \E e \in Experiments, errata \in BOOLEAN : ReadNote(p, e, errata)

Write(p) == StartSession(p) \/ SwitchSession(p) \/ EndSession(p) \/ AddNote(p)

Mark(p) == TruncateMarker(p) \/ WriteMarker(p) \/ ReadMarker(p) \/ UnlinkMarker(p)

Next ==
  \/ \E p \in Procs : Begin(p) \/ Open(p) \/ Read(p) \/ Write(p) \/ Mark(p) \/ Die(p)
  \/ \E e \in Experiments : ArchiveExperiment(e)

Spec == Init /\ [][Next]_vars

-----------------------------------------------------------------------------
TypeOK ==
  /\ sessions \in [SessionIds -> SessionRow \cup {Null}]
  /\ notes \in [Procs -> NoteRow \cup {Null}]
  /\ archived \subseteq Experiments
  /\ markers \in [Places -> SessionIds \cup {Null}]
  /\ ops \in [Procs -> Op]

(* A handoff note and the end of a session by a switch go together: the    *)
(* note is on the experiment of a closed session, its writer has opened    *)
(* the session that follows, and a session whose end a switch has written  *)
(* was handed off by that switch if it had an experiment.                  *)
IsHandoff(p) == notes[p] # Null /\ notes[p].type = "handoff"

HandoffsMatchClosures ==
  /\ \A p \in Procs : IsHandoff(p) =>
       /\ Closed(notes[p].session)
       /\ sessions[notes[p].session].experiment = notes[p].experiment
       /\ Exists(p)
  /\ \A s \in ClosedSessions :
       ops[sessions[s].ended].kind = "switch" /\ sessions[s].experiment # Null
         => IsHandoff(sessions[s].ended) /\ notes[sessions[s].ended].session = s

(* A row carries the id of a closed session only if that session was       *)
(* closed after its command had looked.                                    *)
Stamps(p) == notes[p] = Null /\ notes'[p] # Null /\ notes'[p].type = "other"

StampNeedsOverlap ==
  [][\A p \in Procs : Stamps(p) /\ Closed(notes'[p].session)
       => notes'[p].session \notin ops[p].seen]_vars

(* A closed session stays closed, and the end it records is replaced only  *)
(* by a command that had seen it open.                                     *)
ReclosingNeedsOverlap ==
  [][\A s \in ClosedSessions :
       \/ sessions'[s] = sessions[s]
       \/ /\ sessions'[s].experiment = sessions[s].experiment
          /\ sessions'[s].ended # Null
          /\ s \notin ops[sessions'[s].ended].seen]_vars

(* As long as the commands of one directory run one after the other: its   *)
(* marker names a closed session only if that was closed from elsewhere,   *)
(* by a command still at work, or by one that died before it came to the   *)
(* marker.                                                                 *)
MarkerFollowsSessions ==
  \A d \in Places :
    Closed(markers[d]) =>
      LET p == sessions[markers[d]].ended
      IN  ops[p].place # d \/ InFlight(p) \/ ops[p].phase = "died"
=============================================================================
