------------------------------ MODULE AtomicIO ------------------------------
(***************************************************************************)
(* atomic_write_text of app/atomic_io.py: the text goes to a temporary     *)
(* file that is renamed over the target; when the target is a bind mount   *)
(* the rename fails with EBUSY and the target is rewritten in place.       *)
(*                                                                         *)
(* The temporary file has ONE name, path + ".tmp", for every thread and    *)
(* process.  Files are inodes: a name refers to an inode, an open file     *)
(* keeps its inode whatever happens to the name.                           *)
(***************************************************************************)
EXTENDS FiniteSets

CONSTANTS
    Writer,     \* threads that write the file
    Text,       \* the complete texts that can be written
    NoText,     \* the text of a thread that is not writing
    Inode,      \* enough of them for every name and open file
    NoInode,    \* a name that does not exist, a file that is not open
    Partial,    \* content that is not a complete text: empty, cut or mixed
    Exclusive   \* TRUE: the callers hold one lock (threads of one process)

ASSUME WriterAssumption ==
    /\ NoInode \notin Inode
    /\ Partial \notin Text
    /\ Exclusive \in BOOLEAN

VARIABLES
    mount,      \* TRUE: the target is a bind mount, which cannot be renamed over
    path,       \* inode of the target
    tmp,        \* inode of the temporary file, if it exists
    data,       \* content of the inodes
    writer      \* program point, text and open file of the threads

vars == <<mount, path, tmp, data, writer>>

Idle == [pc |-> "idle", text |-> NoText, fd |-> NoInode]

At(w, point) == writer[w].pc = point

GoTo(w, next) == writer' = [writer EXCEPT ![w].pc = next]
Stop(w) == writer' = [writer EXCEPT ![w] = Idle]

\* An inode that no name and no open file refers to.
Unused(i) == i # path /\ i # tmp /\ \A w \in Writer : writer[w].fd # i

\* What a write at the start of a file leaves: when somebody else's text is there
\* already, the rest of it remains if it is the longer one.
Written(old, text) == IF old = Partial THEN {text} ELSE {text, Partial}

Begin(w, t) ==
    /\ At(w, "idle")
    /\ Exclusive => \A v \in Writer : At(v, "idle")
    /\ writer' = [writer EXCEPT ![w] = [pc |-> "open", text |-> t, fd |-> NoInode]]
    /\ UNCHANGED <<mount, path, tmp, data>>

\* open(tmp, "w") creates the file, or truncates the one that is there.
OpenTmp(w) ==
    /\ At(w, "open")
    /\ \E i \in Inode :
          /\ IF tmp = NoInode THEN Unused(i) ELSE i = tmp
          /\ tmp' = i
          /\ data' = [data EXCEPT ![i] = Partial]
          /\ writer' = [writer EXCEPT ![w] = [writer[w] EXCEPT !.pc = "write", !.fd = i]]
    /\ UNCHANGED <<mount, path>>

\* The text is written and the file closed; an error leaves it incomplete.
WriteTmp(w) ==
    /\ At(w, "write")
    /\ \/ /\ \E d \in Written(data[writer[w].fd], writer[w].text) :
                data' = [data EXCEPT ![writer[w].fd] = d]
          /\ writer' = [writer EXCEPT ![w] = [writer[w] EXCEPT !.pc = "replace", !.fd = NoInode]]
       \/ /\ data' = [data EXCEPT ![writer[w].fd] = Partial]
          /\ Stop(w)
    /\ UNCHANGED <<mount, path, tmp>>

\* Mutant of Replace: the temporary file is copied over the target.
CopyOver(w) ==
    /\ At(w, "replace")
    /\ tmp # NoInode
    /\ data' = [data EXCEPT ![path] = Partial]
    /\ writer' = [writer EXCEPT ![w] = [writer[w] EXCEPT !.pc = "rewrite", !.fd = path]]
    /\ UNCHANGED <<mount, path, tmp>>

\* os.replace. A temporary file that another thread renamed or removed is an error
\* that is raised; EBUSY is the one that is not.
Replace(w) ==
    /\ At(w, "replace")
    /\ IF tmp = NoInode
       THEN Stop(w) /\ UNCHANGED <<path, tmp>>
       ELSE IF mount
       THEN GoTo(w, "truncate") /\ UNCHANGED <<path, tmp>>
       ELSE path' = tmp /\ tmp' = NoInode /\ GoTo(w, "done")
    /\ UNCHANGED <<mount, data>>

\* The fallback: open(path, "w") truncates the target ...
Truncate(w) ==
    /\ At(w, "truncate")
    /\ data' = [data EXCEPT ![path] = Partial]
    /\ writer' = [writer EXCEPT ![w] = [writer[w] EXCEPT !.pc = "rewrite", !.fd = path]]
    /\ UNCHANGED <<mount, path, tmp>>

\* Mutant of Rewrite: an error is swallowed.
RewriteSwallowed(w) ==
    /\ At(w, "rewrite")
    /\ \E d \in Written(data[writer[w].fd], writer[w].text) \cup {Partial} :
          data' = [data EXCEPT ![writer[w].fd] = d]
    /\ writer' = [writer EXCEPT ![w] = [writer[w] EXCEPT !.pc = "unlink", !.fd = NoInode]]
    /\ UNCHANGED <<mount, path, tmp>>

\* ... the text is written into it, or an error is raised ...
Rewrite(w) ==
    /\ At(w, "rewrite")
    /\ \/ /\ \E d \in Written(data[writer[w].fd], writer[w].text) :
                data' = [data EXCEPT ![writer[w].fd] = d]
          /\ writer' = [writer EXCEPT ![w] = [writer[w] EXCEPT !.pc = "unlink", !.fd = NoInode]]
       \/ /\ data' = [data EXCEPT ![writer[w].fd] = Partial]
          /\ Stop(w)
    /\ UNCHANGED <<mount, path, tmp>>

\* ... and the temporary file is removed, if it still exists.
Unlink(w) ==
    /\ At(w, "unlink")
    /\ tmp' = NoInode
    /\ GoTo(w, "done")
    /\ UNCHANGED <<mount, path, data>>

Return(w) ==
    /\ At(w, "done")
    /\ Stop(w)
    /\ UNCHANGED <<mount, path, tmp, data>>

\* The process of w dies. The files stay as they are.
Crash(w) ==
    /\ ~At(w, "idle")
    /\ Stop(w)
    /\ UNCHANGED <<mount, path, tmp, data>>

Init ==
    /\ mount \in BOOLEAN
    /\ path \in Inode
    /\ tmp = NoInode
    /\ data \in [Inode -> Text \cup {Partial}]
    /\ data[path] \in Text
    /\ writer = [w \in Writer |-> Idle]

Step(w) ==
    \/ \E t \in Text : Begin(w, t)
    \/ OpenTmp(w) \/ WriteTmp(w) \/ Replace(w)
    \/ Truncate(w) \/ Rewrite(w) \/ Unlink(w)
    \/ Return(w) \/ Crash(w)

Next == \E w \in Writer : Step(w)

Spec == Init /\ [][Next]_vars

----------------------------------------------------------------------------
(* Properties *)

TypeOK ==
    /\ mount \in BOOLEAN
    /\ path \in Inode
    /\ tmp \in Inode \cup {NoInode}
    /\ data \in [Inode -> Text \cup {Partial}]
    /\ writer \in [Writer -> [pc : {"idle", "open", "write", "replace", "truncate",
                                    "rewrite", "unlink", "done"},
                              text : Text \cup {NoText}, fd : Inode \cup {NoInode}]]

\* "Write text to path atomically": without the documented fallback for bind
\* mounts, a reader never finds anything but a complete text in the target.
ReadersSeeWholeText == ~mount => data[path] \in Text

\* A write that returns without raising has put its text into the target, renamed or
\* rewritten in place, even when earlier writes failed or died half-way.
ReturnedWriteIsThere ==
    \A w \in Writer : At(w, "done") \/ At(w, "unlink") => data[path] = writer[w].text

\* The writes that the callers of atomic_write_text see, in the terms of AtomicFile.
Op == [w \in Writer |->
         [phase |-> IF At(w, "idle") THEN "idle" ELSE IF At(w, "done") THEN "done"
                    ELSE "called",
          text  |-> writer[w].text]]

File == INSTANCE AtomicFile WITH content <- data[path], op <- Op

\* With one lock for all writers and a target that can be renamed over, failed and
\* interrupted writes included, atomic_write_text keeps the promise of AtomicFile.
WritesAreAtomic == File!Init /\ [][mount \/ File!Next]_<<data[path], Op>>

=============================================================================
