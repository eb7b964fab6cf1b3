------------------------------- MODULE Handle -------------------------------
(***************************************************************************)
(* StreamHandle (src/ingress/stream_handle.py), the unbounded channel from *)
(* the worker to the generator that writes one response: its queue of      *)
(* items, its closed flag and its cancelled flag.                          *)
(***************************************************************************)
EXTENDS Sequences

\* "chunk", "end" (the None that close() puts), or the class of an exception.
Handles(Items) == [items : Seq(Items), closed : BOOLEAN, cancelled : BOOLEAN]

NewHandle == [items |-> << >>, closed |-> FALSE, cancelled |-> FALSE]
-----------------------------------------------------------------------------
(* Defects the runs must notice. *)

CloseAgain(h) == [h EXCEPT !.closed = TRUE, !.items = Append(@, "end")]
PutErrorAsEnd(h, e) ==
  IF h.closed THEN h
  ELSE [h EXCEPT !.closed = TRUE, !.items = Append(@, "end")]
CloseSilently(h) == [h EXCEPT !.closed = TRUE]
-----------------------------------------------------------------------------
PutChunk(h) ==
  IF h.closed \/ h.cancelled THEN h ELSE [h EXCEPT !.items = Append(@, "chunk")]

PutError(h, e) ==
  IF h.closed THEN h
  ELSE [h EXCEPT !.closed = TRUE, !.items = Append(@, e)]

Close(h) ==
  IF h.closed THEN h
  ELSE [h EXCEPT !.closed = TRUE, !.items = Append(@, "end")]

Cancel(h) ==
  IF h.cancelled THEN h ELSE Close([h EXCEPT !.cancelled = TRUE])
=============================================================================
