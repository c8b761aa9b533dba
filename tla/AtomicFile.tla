----------------------------- MODULE AtomicFile -----------------------------
(***************************************************************************)
(* What atomic_write_text promises its callers: a file that changes from   *)
(* one complete text to another in a single step, between the call of a    *)
(* write and its return, or not at all when the write raises.              *)
(***************************************************************************)
CONSTANTS
    Writer,     \* threads that write the file
    Text,       \* the complete texts that can be written
    NoText      \* the text of a thread that is not writing

VARIABLES
    content,    \* what a reader of the file sees
    op          \* the write each thread is in

Quiet == [phase |-> "idle", text |-> NoText]

Init ==
    /\ content \in Text
    /\ op = [w \in Writer |-> Quiet]

Call(w, t) ==
    /\ op[w].phase = "idle"
    /\ op' = [op EXCEPT ![w] = [phase |-> "called", text |-> t]]
    /\ UNCHANGED content

Commit(w) ==
    /\ op[w].phase = "called"
    /\ content' = op[w].text
    /\ op' = [op EXCEPT ![w].phase = "done"]

\* The write raises, or its process dies before the write took effect.
Abort(w) ==
    /\ op[w].phase = "called"
    /\ op' = [op EXCEPT ![w] = Quiet]
    /\ UNCHANGED content

Return(w) ==
    /\ op[w].phase = "done"
    /\ op' = [op EXCEPT ![w] = Quiet]
    /\ UNCHANGED content

Next ==
    \E w \in Writer :
        (\E t \in Text : Call(w, t)) \/ Commit(w) \/ Abort(w) \/ Return(w)

Spec == Init /\ [][Next]_<<content, op>>

=============================================================================
