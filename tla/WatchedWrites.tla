--------------------------- MODULE WatchedWrites ---------------------------
(***************************************************************************)
(* Repository.watch() beside the writers of RecordedWrites: the server's   *)
(* change stream reads their writes in the order they were committed, its  *)
(* events arrive through the listeners of an EventEmitter, and the body of *)
(* an async generator hands them on through a queue, and sleeps on a       *)
(* promise when there is nothing to hand on.  The signal may abort at any  *)
(* point.                                                                  *)
(***************************************************************************)
EXTENDS RecordedWrites

CONSTANTS
  Watched,     \* the configurations in which somebody watches
  Filters      \* the post-policy filters, as the numbers they match; {}: none

ASSUME WatchedAssumption ==
  /\ Watched \subseteq Setups
  /\ Filters \subseteq SUBSET Int

VARIABLES
  filter,
  stream,     \* the change stream: its state, where it began, how far it has read
  queue,      \* the images of the events pushed and not yet handed on
  reader,     \* where the generator is
  aborted,    \* the caller's signal
  failed,     \* streamError is set
  ended,
  shown       \* the image of the last event handed on, if any

watchVars == <<filter, stream, queue, reader, aborted, failed, ended, shown>>

WatchTypeOK ==
  /\ filter \in Filters \cup {{}}
  /\ stream \in [state : {"unopened", "opening", "open", "closed"}, from : Nat, at : Nat]
  /\ queue \in Seq(Value)
  /\ reader \in {"before", "running", "asleep", "yielded", "over"}
  /\ aborted \in BOOLEAN /\ failed \in BOOLEAN /\ ended \in BOOLEAN
  /\ shown \in Seq(Value) /\ Len(shown) <= 1

Closed(state) == [state |-> state, from |-> 0, at |-> 0]

WatchInit ==
  /\ Init
  /\ filter \in (IF setup \in Watched THEN Filters ELSE {{}})
  /\ stream = Closed("unopened")
  /\ queue = <<>> /\ shown = <<>>
  /\ reader = "before"
  /\ aborted = FALSE /\ failed = FALSE /\ ended = FALSE

\* The generator runs from its first next(), which rejects under an aborted signal
\* before any stream is opened.
Watch ==
  /\ setup \in Watched /\ reader = "before"
  /\ IF aborted
     THEN reader' = "over" /\ UNCHANGED stream
     ELSE reader' = "running" /\ stream' = [stream EXCEPT !.state = "opening"]
  /\ UNCHANGED <<filter, queue, aborted, failed, ended, shown>>

\* The server opens the stream later, at its present or after the caller's resume token.
StreamOpens ==
  /\ stream.state = "opening"
  /\ \E token \in 0 .. Len(history) :
       stream' = [state |-> "open", from |-> token, at |-> token]
  /\ UNCHANGED <<filter, queue, reader, aborted, failed, ended, shown>>

-----------------------------------------------------------------------------
(* The listeners                                                            *)

\* wake: a reader that sleeps goes on.
Woken == IF reader = "asleep" THEN "running" ELSE reader

\* Mutant of FullDocument: updates come without their image, the driver's default.
DeltaOnly(change) == IF change.from = Absent THEN change.to ELSE Absent

\* The image of an event: an insertion's own document; an update's is looked up
\* when the event is read; a deletion has none.
FullDocument(change) ==
  CASE change.to = Absent   -> Absent
    [] change.from = Absent -> change.to
    [] OTHER                -> doc

Passes(image) == filter = {} \/ image \in filter

\* A write that changed nothing need not be an event.
EventRead ==
  /\ stream.state = "open" /\ stream.at < Len(history)
  /\ stream' = [stream EXCEPT !.at = @ + 1]
  /\ LET change == history[stream.at + 1]
         pushed == queue' = Append(queue, FullDocument(change)) /\ reader' = Woken
         nothing == UNCHANGED <<queue, reader>>
     IN  \/ Passes(FullDocument(change)) /\ pushed
         \/ (change.from = change.to \/ ~Passes(FullDocument(change))) /\ nothing
  /\ UNCHANGED <<filter, aborted, failed, ended, shown>>

StreamFails ==
  /\ stream.state \in {"opening", "open"} /\ ~failed
  /\ failed' = TRUE
  /\ reader' = Woken
  /\ UNCHANGED <<filter, stream, queue, aborted, ended, shown>>

\* The stream closes: the server ended it, it failed, or the watcher closes it.
StreamCloses ==
  /\ stream.state \in {"opening", "open"}
  /\ stream' = [stream EXCEPT !.state = "closed"]
  /\ ended' = TRUE
  /\ reader' = Woken
  /\ UNCHANGED <<filter, queue, aborted, failed, shown>>

\* The caller's signal aborts; before the generator runs nobody listens to it.
Abort ==
  /\ setup \in Watched /\ ~aborted
  /\ aborted' = TRUE
  /\ ended' = (ended \/ reader \notin {"before", "over"})
  /\ reader' = Woken
  /\ UNCHANGED <<filter, stream, queue, failed, shown>>

-----------------------------------------------------------------------------
(* The generator                                                            *)

\* finally: the listeners are removed, the stream is closed, and with the generator
\* its variables go.
Leave ==
  /\ reader' = "over"
  /\ stream' = Closed("closed")
  /\ queue' = <<>> /\ shown' = <<>>
  /\ failed' = FALSE /\ ended' = FALSE

\* One turn of the loop: what is queued comes before an error or the end of the
\* stream, and an abort before all of it.
Turn ==
  /\ reader = "running"
  /\ \/ aborted /\ Leave
     \/ /\ ~aborted /\ queue # <<>>
        /\ shown' = <<Head(queue)>> /\ queue' = Tail(queue) /\ reader' = "yielded"
        /\ UNCHANGED <<stream, failed, ended>>
     \/ ~aborted /\ queue = <<>> /\ (failed \/ ended) /\ Leave
     \/ /\ ~aborted /\ queue = <<>> /\ ~failed /\ ~ended
        /\ reader' = "asleep" /\ UNCHANGED <<stream, queue, failed, ended, shown>>
  /\ UNCHANGED <<filter, aborted>>

\* The consumer asks for the next event, or leaves its loop.
Consumed ==
  /\ reader = "yielded"
  /\ \/ reader' = "running" /\ UNCHANGED <<stream, queue, failed, ended, shown>>
     \/ Leave
  /\ UNCHANGED <<filter, aborted>>

Watcher ==
  \/ Watch \/ StreamOpens \/ EventRead \/ StreamFails \/ StreamCloses \/ Abort
  \/ Turn \/ Consumed

WatchedNext ==
  \/ Next /\ UNCHANGED watchVars
  \/ Watcher /\ UNCHANGED vars

WatchedSpec == WatchInit /\ [][WatchedNext]_<<vars, watchVars>>

-----------------------------------------------------------------------------
(* Properties                                                               *)

\* What the watcher has been responsible for since its stream began.
Changes == {i \in stream.from + 1 .. Len(history) : history[i].from # history[i].to}

\* A watcher that waits has missed nothing: no event, error, end or abort is left
\* for it to see, and once the stream has read every write, the last image shown is the
\* document as it is, if that passes the filter, although an update's image is of a
\* later moment than the update (watch, fullDocument 'updateLookup').
WatcherIsCurrent ==
  reader = "asleep" =>
    /\ queue = <<>> /\ ~failed /\ ~ended /\ ~aborted
    /\ stream.state = "open" /\ stream.at = Len(history) /\ Changes # {} /\ Passes(doc)
         => shown = <<doc>>
=============================================================================
