-------------------------- MODULE MCResponseStream --------------------------
(* Constants for the run on ResponseStream. *)
EXTENDS ResponseStream

SomeUnits == {"event:", "data:", "\n", "\r", ":", "x", "y", "z", TaskStatus, Lead, Trail}

Body(type, units) == [type |-> type, units |-> units]

\* Events of both kinds and of none, events named late, again or not at all, a
\* body that ends in mid-line, \r before a line end, a character of two bytes.
SomeBodies ==
  {Body("event-stream",
        <<"event:", TaskStatus, "\n", "data:", Lead, Trail, "\r", "\n", "\n", "data:", "x">>),
   Body("event-stream",
        <<"data:", "x", "\n", "event:", TaskStatus, "\n", "\n", "data:", "y", "\n", "event:", "z">>),
   Body("event-stream",
        <<"event:", TaskStatus, "\n", "event:", "z", "\n", "data:", "x", "\n",
          "\r", "\n", "event:", TaskStatus, "\n", "data:", "y", "\r">>),
   Body("event-stream", <<":", "x", "\n", "data:", "\n", "data:", "\r", Trail, Lead>>),
   Body("json", <<"x", "\n", Lead, Trail>>),
   Body("other", <<"x", "y">>),
   Body("event-stream", <<>>)}
=============================================================================
