------------------------------ MODULE Circulars ------------------------------
(***************************************************************************)
(* A circular to parents: circular_service.py, its routes, and its         *)
(* attachment, which is a file beside the row (circular_attachment_service *)
(* .py).  The file is written or removed at once, the row with the commit. *)
(*                                                                         *)
(* Audience, title and body are left out.  An attachment is known by its   *)
(* upload: attachment_filename names one, the directory holds one.         *)
(***************************************************************************)
CONSTANTS
    Uploads, Reqs, None

VARIABLES
    book,           \* the row and the file
    handler,        \* what each request handler holds
    history         \* what the properties except

notices == <<book, handler, history>>

-----------------------------------------------------------------------------
NoRequest == [op |-> "none", was |-> None, now |-> None]
Live == book.status # "none" /\ ~book.deleted
Columns == {"status", "deleted", "name"}

Init ==
    /\ book = [status |-> "none", deleted |-> FALSE, name |-> None, file |-> None]
    /\ handler = [d \in Reqs |-> NoRequest]
    /\ history = [torn |-> FALSE, crossed |-> FALSE]

Close(d) == handler' = [handler EXCEPT ![d] = NoRequest]

-----------------------------------------------------------------------------
(* Requests                                                                *)

Create ==
    /\ book.status = "none"
    /\ book' = [book EXCEPT !.status = "draft"]
    /\ UNCHANGED <<handler, history>>

\* A handler that is to commit now what it has read before.
Hold(d, op, now) ==
    /\ handler' = [handler EXCEPT ![d] = [op |-> op, was |-> book, now |-> now]]
    /\ history' = [history EXCEPT !.crossed = @ \/ \E x \in Reqs \ {d} : handler[x] # NoRequest]

\* Published circulars are not moved back to draft.
Allowed(from, to) == ~(from = "published" /\ to = "draft")

UpdateRead(d, to) ==
    /\ handler[d] = NoRequest /\ Live /\ Allowed(book.status, to)
    /\ Hold(d, "row", [book EXCEPT !.status = to])
    /\ UNCHANGED book

PublishRead(d) ==
    /\ handler[d] = NoRequest /\ Live /\ book.status # "archived"
    /\ Hold(d, "row", [book EXCEPT !.status = "published"])
    /\ UNCHANGED book

\* The file goes before the row is committed.
DeleteRead(d) ==
    /\ handler[d] = NoRequest /\ Live
    /\ book' = [book EXCEPT !.file = None]
    /\ Hold(d, "file", [book EXCEPT !.deleted = TRUE])

\* The circular is looked up, the upload is read, the file is replaced, and the
\* circular is looked up again.
UploadRead(d, u) ==
    /\ handler[d] = NoRequest /\ Live
    /\ Hold(d, "upload", [book EXCEPT !.name = u])
    /\ UNCHANGED book

UploadWrite(d) ==
    LET u == handler[d].now.name
    IN  /\ handler[d].op = "upload"
        /\ book' = [book EXCEPT !.file = u]
        /\ IF Live THEN Hold(d, "file", [book EXCEPT !.name = u])
           ELSE Close(d) /\ history' = [history EXCEPT !.torn = TRUE]

\* The file is removed before anything is looked up.
Nameless == [book EXCEPT !.file = None, !.name = None]
RemoveAttachment(d) ==
    /\ handler[d] = NoRequest /\ book.status # "none"
    /\ book' = [book EXCEPT !.file = None]
    /\ IF Live THEN Hold(d, "file", Nameless) ELSE UNCHANGED <<handler, history>>

\* The columns that differ from those read are written.
Commit(d) ==
    LET h == handler[d]
    IN  /\ h.op \in {"row", "file"}
        /\ book' = [k \in DOMAIN book |-> IF k \in Columns /\ h.now[k] # h.was[k] THEN h.now[k] ELSE book[k]]
        /\ Close(d) /\ UNCHANGED history

\* A refusal, an error, a lost connection or a crash before the commit.
Abandon(d) ==
    /\ handler[d] # NoRequest
    /\ history' = [history EXCEPT !.torn = @ \/ handler[d].op = "file"]
    /\ Close(d) /\ UNCHANGED book

Statuses == {"draft", "published", "archived"}
Next ==
    \/ Create
    \/ \E d \in Reqs :
          \/ \E to \in Statuses : UpdateRead(d, to)
          \/ \E u \in Uploads : UploadRead(d, u)
          \/ PublishRead(d) \/ DeleteRead(d) \/ UploadWrite(d) \/ RemoveAttachment(d)
          \/ Commit(d) \/ Abandon(d)

-----------------------------------------------------------------------------
(* Properties                                                              *)

TypeOK ==
    /\ book.status \in Statuses \cup {"none"} /\ book.deleted \in BOOLEAN
    /\ {book.name, book.file} \subseteq Uploads \cup {None}

\* Between requests a circular names the file there is, unless one of them failed
\* after it had touched the file, or two overlapped.
AttachmentIsThere ==
    (Live /\ \A d \in Reqs : handler[d].op # "file") =>
        book.name = book.file \/ history.torn \/ history.crossed

\* What parents have read is not put back to draft in one request, unless two
\* overlapped ("Published circulars cannot be moved back to draft").
PublishedStays ==
    book.status = "published" /\ ~history.crossed => book'.status # "draft"

=============================================================================
