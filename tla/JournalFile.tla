---------------------------- MODULE JournalFile ----------------------------
(***************************************************************************)
(* The journal of one generation operation with several requests           *)
(* (core/generation_multi_request_journal.py): the chain of its events,    *)
(* the file that holds it, and the only writer of that file.               *)
(*                                                                         *)
(* A file is its chain of events, and whether the writer's lock file and a *)
(* temporary file lie beside it.  A writer is what it has acknowledged and *)
(* how far its append has come; the steps of an append can fail at any     *)
(* point and leave everything where it is.                                 *)
(***************************************************************************)
EXTENDS Naturals, Sequences, FiniteSets

Event(kind, r, value) == [kind |-> kind, req |-> r, value |-> value]
Intent(r) == Event("submission_intent", r, "none")
Outcome(r, value) == Event("submission_outcome", r, value)
Settlement(r, value) == Event("request_settlement", r, value)

Of(events, kind) == {events[k] : k \in {k \in 1..Len(events) : events[k].kind = kind}}

(* _sequence_state: the request that is next, and what it waits for. *)
NextRequest(events) == Cardinality(Of(events, "request_settlement")) + 1

SequenceState(events, n) ==
  IF events = <<>> \/ events[Len(events)].kind = "request_settlement"
  THEN IF NextRequest(events) > n THEN "all_requests_settled" ELSE "ready_for_request"
  ELSE IF events[Len(events)].kind = "submission_intent" THEN "intent_outcome_unknown"
  ELSE IF events[Len(events)].value = "unknown" THEN "submission_outcome_unknown"
  ELSE "awaiting_original_host_settlement"

Dispositions(value) ==
  IF value = "accepted" THEN {"execution_completed", "execution_failed"} ELSE {value}

(* The next event of a chain is determined by what the chain waits for. *)
Follows(events, e, n) ==
  /\ e.req = NextRequest(events)
  /\ CASE e.kind = "submission_intent" -> SequenceState(events, n) = "ready_for_request"
       [] e.kind = "submission_outcome" -> SequenceState(events, n) = "intent_outcome_unknown"
       [] OTHER -> /\ SequenceState(events, n) = "awaiting_original_host_settlement"
                   /\ e.value \in Dispositions(events[Len(events)].value)

-----------------------------------------------------------------------------
InitFile == [events |-> <<>>, lock |-> FALSE, temp |-> FALSE]
InitWriter == [events |-> <<>>, uncertain |-> FALSE, closed |-> FALSE,
               step |-> "idle", event |-> Event("none", 0, "none")]

(* _enter, _assert_writable and the checks of one append. *)
Appendable(x, file, e, n) ==
  /\ x.step = "idle" /\ ~x.closed /\ ~x.uncertain
  /\ Follows(x.events, e, n)
  /\ ~file.lock /\ ~file.temp /\ file.events = x.events

Begun(x, e) == [x EXCEPT !.step = "written", !.event = e]
WithTemp(file) == [file EXCEPT !.lock = TRUE, !.temp = TRUE]

(* os.replace: the temporary file becomes the journal. *)
Replaced(x) == [x EXCEPT !.step = "replaced"]
WithEvent(file, x) == [file EXCEPT !.events = Append(@, x.event), !.temp = FALSE]

(* The new file was read back, the lock file is gone. *)
Acknowledged(x) == [x EXCEPT !.step = "idle", !.events = Append(@, x.event)]
WithoutLock(file) == [file EXCEPT !.lock = FALSE]

(* An append that failed pins the writer and leaves its files. *)
Failed(x) == [x EXCEPT !.step = "idle", !.uncertain = TRUE]

(* close_for_characterization; the owner marks a busy writer. *)
Closed(x) == IF x.step = "idle" THEN [x EXCEPT !.closed = TRUE] ELSE [x EXCEPT !.uncertain = TRUE]
=============================================================================
