-------------------------- MODULE AtomicIO_proofs --------------------------
(***************************************************************************)
(* Theorems about AtomicIO: with one lock around all writers, any number   *)
(* of threads and texts, failed and interrupted writes included,           *)
(* atomic_write_text implements AtomicFile.                                *)
(***************************************************************************)
EXTENDS AtomicIO, TLAPS

Thread == [pc : {"idle", "open", "write", "replace", "truncate", "rewrite", "unlink", "done"},
           text : Text \cup {NoText}, fd : Inode \cup {NoInode}]

(***************************************************************************)
(* The inductive invariant.  The temporary file is never the target; the   *)
(* thread that is writing, if any, finds in it, at each program point,     *)
(* what it has itself put there.                                           *)
(***************************************************************************)
WriterInv(x) ==
    /\ x = Idle \/ x.text \in Text
    /\ x.pc = "idle" => x = Idle
    /\ x.pc = "write" => x.fd = tmp /\ tmp # NoInode /\ data[tmp] = Partial
    /\ x.pc = "replace" => tmp # NoInode /\ data[tmp] = x.text
    /\ x.pc \in {"truncate", "rewrite", "unlink"} => mount
    /\ x.pc = "rewrite" => x.fd = path /\ data[path] = Partial
    /\ x.pc \in {"unlink", "done"} => data[path] = x.text

OneWriter == \A v, w \in Writer : writer[v] = Idle \/ writer[w] = Idle \/ v = w

FileInv ==
    /\ TypeOK
    /\ path # tmp
    /\ ReadersSeeWholeText
    /\ OneWriter
    /\ \A w \in Writer : WriterInv(writer[w])

LEMMA TypeFacts == TypeOK => writer \in [Writer -> Thread]
BY DEF TypeOK, Thread

LEMMA IdleFacts == Idle \in Thread /\ Idle.pc = "idle" /\ WriterInv(Idle)
BY DEF Idle, Thread, WriterInv

LEMMA InitFileInv == Init => FileInv
<1>. SUFFICES ASSUME Init PROVE FileInv
  OBVIOUS
<1>1. TypeOK
  BY IdleFacts DEF Init, TypeOK, Thread
<1>2. path # tmp
  BY WriterAssumption DEF Init
<1>. QED BY <1>1, <1>2, IdleFacts DEF Init, FileInv, ReadersSeeWholeText, OneWriter

\* A step of the one thread that is writing: the others stay idle.
LEMMA StepInv ==
    ASSUME FileInv, NEW w \in Writer, \A v \in Writer : v = w \/ writer[v] = Idle,
           NEW x \in Thread, writer' = [writer EXCEPT ![w] = x], WriterInv(x)',
           mount' = mount, path' \in Inode, tmp' \in Inode \cup {NoInode}, path' # tmp',
           data' \in [Inode -> Text \cup {Partial}], mount \/ data'[path'] \in Text
    PROVE  FileInv'
<1>1. writer \in [Writer -> Thread]
  BY TypeFacts DEF FileInv
<1>2. \A v \in Writer : writer'[v] = IF v = w THEN x ELSE Idle
  BY <1>1
<1>3. TypeOK'
  BY <1>1 DEF FileInv, TypeOK, Thread
<1>4. ReadersSeeWholeText'
  BY DEF ReadersSeeWholeText
<1>5. OneWriter'
  BY <1>2 DEF OneWriter
<1>6. ASSUME NEW v \in Writer PROVE WriterInv(writer[v])'
  <2>1. CASE v = w
    BY <2>1, <1>2 DEF WriterInv
  <2>2. CASE v # w
    BY <2>2, <1>2 DEF WriterInv, Idle
  <2>. QED BY <2>1, <2>2
<1>. QED BY <1>3, <1>4, <1>5, <1>6 DEF FileInv

\* What a thread that is not idle knows.
LEMMA BusyFacts ==
    ASSUME FileInv, NEW w \in Writer, ~At(w, "idle")
    PROVE  /\ writer[w] \in Thread /\ WriterInv(writer[w]) /\ writer[w].text \in Text
           /\ \A v \in Writer : v = w \/ writer[v] = Idle
           /\ TypeOK /\ path # tmp /\ (mount \/ data[path] \in Text)
<1>1. writer[w] \in Thread /\ WriterInv(writer[w])
  BY TypeFacts DEF FileInv
<1>2. writer[w] # Idle
  BY DEF At, Idle
<1>. QED BY <1>1, <1>2 DEF FileInv, WriterInv, OneWriter, ReadersSeeWholeText

LEMMA BeginInv ==
    ASSUME Exclusive, FileInv, NEW w \in Writer, NEW t \in Text, Begin(w, t)
    PROVE  FileInv'
<1> DEFINE x == [pc |-> "open", text |-> t, fd |-> NoInode]
<1>1. \A v \in Writer : writer[v] = Idle
  BY DEF Begin, At, FileInv, WriterInv
<1>2. x \in Thread
  BY DEF Thread
<1>3. WriterInv(x)'
  BY DEF WriterInv
<1>. QED BY <1>1, <1>2, <1>3, StepInv DEF Begin, FileInv, TypeOK, ReadersSeeWholeText

LEMMA StopInv ==
    ASSUME FileInv, NEW w \in Writer, ~At(w, "idle"), Stop(w),
           mount' = mount, path' = path, tmp' = tmp,
           data' \in [Inode -> Text \cup {Partial}], mount \/ data'[path] \in Text
    PROVE  FileInv'
<1>1. WriterInv(Idle)'
  BY DEF WriterInv, Idle
<1>. QED BY <1>1, BusyFacts, IdleFacts, StepInv DEF Stop, TypeOK

LEMMA OpenTmpInv ==
    ASSUME FileInv, NEW w \in Writer, OpenTmp(w)
    PROVE  FileInv'
<1>1. PICK i \in Inode :
        /\ IF tmp = NoInode THEN Unused(i) ELSE i = tmp
        /\ tmp' = i
        /\ data' = [data EXCEPT ![i] = Partial]
        /\ writer' = [writer EXCEPT ![w] = [writer[w] EXCEPT !.pc = "write", !.fd = i]]
  BY DEF OpenTmp
<1>. PICK x : x = [writer[w] EXCEPT !.pc = "write", !.fd = i]
  OBVIOUS
<1>2. ~At(w, "idle") /\ mount' = mount /\ path' = path
  BY DEF OpenTmp, At
<1>3. i # path /\ i # NoInode
  BY <1>1, <1>2, BusyFacts, WriterAssumption DEF Unused
<1>4. x \in Thread /\ x.pc = "write" /\ x.fd = i /\ x.text = writer[w].text
  BY <1>2, BusyFacts DEF Thread
<1>5. data' \in [Inode -> Text \cup {Partial}] /\ data'[i] = Partial /\ data'[path] = data[path]
  BY <1>1, <1>2, <1>3, BusyFacts DEF TypeOK
<1>6. WriterInv(x)'
  BY <1>1, <1>2, <1>3, <1>4, <1>5, BusyFacts DEF WriterInv
<1>7. path \in Inode
  BY DEF FileInv, TypeOK
<1>. QED BY <1>1, <1>2, <1>3, <1>4, <1>5, <1>6, <1>7, BusyFacts, StepInv

LEMMA WriteTmpInv ==
    ASSUME FileInv, NEW w \in Writer, WriteTmp(w)
    PROVE  FileInv'
<1>1. /\ ~At(w, "idle") /\ writer[w].pc = "write" /\ UNCHANGED <<mount, path, tmp>>
  BY DEF WriteTmp, At
<1>2. /\ writer[w].fd = tmp /\ tmp \in Inode /\ tmp # NoInode /\ data[tmp] = Partial
      /\ path \in Inode
  BY <1>1, BusyFacts DEF WriterInv, TypeOK
<1>3. CASE /\ \E d \in Written(data[writer[w].fd], writer[w].text) :
                 data' = [data EXCEPT ![writer[w].fd] = d]
           /\ writer' = [writer EXCEPT ![w] = [writer[w] EXCEPT !.pc = "replace", !.fd = NoInode]]
  <2>. PICK x : x = [writer[w] EXCEPT !.pc = "replace", !.fd = NoInode]
    OBVIOUS
  <2>1. x \in Thread /\ x.pc = "replace" /\ x.text = writer[w].text
    BY <1>1, BusyFacts DEF Thread
  <2>2. data' = [data EXCEPT ![tmp] = writer[w].text]
    BY <1>2, <1>3 DEF Written
  <2>3. /\ data' \in [Inode -> Text \cup {Partial}] /\ data'[path] = data[path]
        /\ data'[tmp] = writer[w].text
    BY <1>1, <1>2, <2>2, BusyFacts DEF TypeOK
  <2>4. WriterInv(x)'
    BY <1>1, <1>2, <2>1, <2>3, BusyFacts DEF WriterInv
  <2>. QED BY <1>1, <1>2, <1>3, <2>1, <2>3, <2>4, BusyFacts, StepInv
<1>4. CASE data' = [data EXCEPT ![writer[w].fd] = Partial] /\ Stop(w)
  <2>1. data' \in [Inode -> Text \cup {Partial}] /\ data'[path] = data[path]
    BY <1>1, <1>2, <1>4, BusyFacts DEF TypeOK
  <2>. QED BY <1>1, <1>4, <2>1, BusyFacts, StopInv
<1>. QED BY <1>3, <1>4 DEF WriteTmp

LEMMA ReplaceInv ==
    ASSUME FileInv, NEW w \in Writer, Replace(w)
    PROVE  FileInv'
<1>1. ~At(w, "idle") /\ writer[w].pc = "replace" /\ UNCHANGED <<mount, data>>
  BY DEF Replace, At
<1>2. /\ tmp \in Inode /\ tmp # NoInode /\ data[tmp] = writer[w].text
      /\ data \in [Inode -> Text \cup {Partial}] /\ path \in Inode /\ NoInode \notin Inode
  BY <1>1, BusyFacts, WriterAssumption DEF WriterInv, TypeOK
<1>3. CASE mount
  <2>. PICK x : x = [writer[w] EXCEPT !.pc = "truncate"]
    OBVIOUS
  <2>1. x \in Thread /\ x.pc = "truncate" /\ x.text = writer[w].text
    BY <1>1, BusyFacts DEF Thread
  <2>2. writer' = [writer EXCEPT ![w] = x] /\ path' = path /\ tmp' = tmp
    BY <1>2, <1>3 DEF Replace, GoTo
  <2>3. WriterInv(x)'
    BY <1>1, <1>3, <2>1, BusyFacts DEF WriterInv
  <2>. QED BY <1>1, <1>2, <1>3, <2>1, <2>2, <2>3, BusyFacts, StepInv
<1>4. CASE ~mount
  <2>. PICK x : x = [writer[w] EXCEPT !.pc = "done"]
    OBVIOUS
  <2>1. x \in Thread /\ x.pc = "done" /\ x.text = writer[w].text
    BY <1>1, BusyFacts DEF Thread
  <2>2. writer' = [writer EXCEPT ![w] = x] /\ path' = tmp /\ tmp' = NoInode
    BY <1>2, <1>4 DEF Replace, GoTo
  <2>3. data'[path'] = writer[w].text /\ writer[w].text \in Text
    BY <1>1, <1>2, <2>2, BusyFacts
  <2>4. WriterInv(x)'
    BY <1>1, <2>1, <2>3, BusyFacts DEF WriterInv
  <2>. QED BY <1>1, <1>2, <2>1, <2>2, <2>3, <2>4, BusyFacts, StepInv
<1>. QED BY <1>3, <1>4

LEMMA TruncateInv ==
    ASSUME FileInv, NEW w \in Writer, Truncate(w)
    PROVE  FileInv'
<1>1. /\ ~At(w, "idle") /\ writer[w].pc = "truncate" /\ UNCHANGED <<mount, path, tmp>>
      /\ data' = [data EXCEPT ![path] = Partial]
  BY DEF Truncate, At
<1>. PICK x : x = [writer[w] EXCEPT !.pc = "rewrite", !.fd = path]
  OBVIOUS
<1>2. writer' = [writer EXCEPT ![w] = x]
  BY DEF Truncate
<1>3. /\ path \in Inode /\ tmp \in Inode \cup {NoInode} /\ mount
      /\ data' \in [Inode -> Text \cup {Partial}] /\ data'[path] = Partial
  BY <1>1, BusyFacts DEF TypeOK, WriterInv
<1>4. x \in Thread /\ x.pc = "rewrite" /\ x.fd = path /\ x.text = writer[w].text
  BY <1>1, <1>3, BusyFacts DEF Thread
<1>5. WriterInv(x)'
  BY <1>1, <1>3, <1>4, BusyFacts DEF WriterInv
<1>. QED BY <1>1, <1>2, <1>3, <1>4, <1>5, BusyFacts, StepInv

LEMMA RewriteInv ==
    ASSUME FileInv, NEW w \in Writer, Rewrite(w)
    PROVE  FileInv'
<1>1. ~At(w, "idle") /\ writer[w].pc = "rewrite" /\ UNCHANGED <<mount, path, tmp>>
  BY DEF Rewrite, At
<1>2. /\ writer[w].fd = path /\ data[path] = Partial /\ mount
      /\ path \in Inode /\ tmp \in Inode \cup {NoInode}
  BY <1>1, BusyFacts DEF WriterInv, TypeOK
<1>3. CASE /\ \E d \in Written(data[writer[w].fd], writer[w].text) :
                 data' = [data EXCEPT ![writer[w].fd] = d]
           /\ writer' = [writer EXCEPT ![w] = [writer[w] EXCEPT !.pc = "unlink", !.fd = NoInode]]
  <2>. PICK x : x = [writer[w] EXCEPT !.pc = "unlink", !.fd = NoInode]
    OBVIOUS
  <2>1. x \in Thread /\ x.pc = "unlink" /\ x.text = writer[w].text
    BY <1>1, BusyFacts DEF Thread
  <2>2. data' = [data EXCEPT ![path] = writer[w].text]
    BY <1>2, <1>3 DEF Written
  <2>3. data' \in [Inode -> Text \cup {Partial}] /\ data'[path] = writer[w].text
    BY <1>1, <1>2, <2>2, BusyFacts DEF TypeOK
  <2>4. WriterInv(x)'
    BY <1>1, <1>2, <2>1, <2>3, BusyFacts DEF WriterInv
  <2>. QED BY <1>1, <1>2, <1>3, <2>1, <2>3, <2>4, BusyFacts, StepInv
<1>4. CASE data' = [data EXCEPT ![writer[w].fd] = Partial] /\ Stop(w)
  <2>1. data' \in [Inode -> Text \cup {Partial}]
    BY <1>1, <1>4, BusyFacts DEF TypeOK
  <2>. QED BY <1>1, <1>2, <1>4, <2>1, StopInv
<1>. QED BY <1>3, <1>4 DEF Rewrite

LEMMA UnlinkInv ==
    ASSUME FileInv, NEW w \in Writer, Unlink(w)
    PROVE  FileInv'
<1>1. /\ ~At(w, "idle") /\ writer[w].pc = "unlink" /\ tmp' = NoInode
      /\ UNCHANGED <<mount, path, data>>
  BY DEF Unlink, At
<1>. PICK x : x = [writer[w] EXCEPT !.pc = "done"]
  OBVIOUS
<1>2. writer' = [writer EXCEPT ![w] = x]
  BY DEF Unlink, GoTo
<1>3. x \in Thread /\ x.pc = "done" /\ x.text = writer[w].text
  BY <1>1, BusyFacts DEF Thread
<1>4. path \in Inode /\ path # NoInode /\ data \in [Inode -> Text \cup {Partial}]
  BY <1>1, BusyFacts, WriterAssumption DEF TypeOK
<1>5. WriterInv(x)'
  BY <1>1, <1>3, BusyFacts DEF WriterInv
<1>. QED BY <1>1, <1>2, <1>3, <1>4, <1>5, BusyFacts, StepInv

LEMMA NextFileInv == ASSUME Exclusive PROVE FileInv /\ [Next]_vars => FileInv'
<1>. SUFFICES ASSUME FileInv, [Next]_vars PROVE FileInv'
  OBVIOUS
<1>1. ASSUME NEW w \in Writer, Return(w) \/ Crash(w) PROVE FileInv'
  <2>1. ~At(w, "idle") /\ Stop(w) /\ UNCHANGED <<mount, path, tmp, data>>
    BY <1>1 DEF Return, Crash, At
  <2>. QED BY <2>1, BusyFacts, StopInv DEF TypeOK
<1>2. ASSUME NEW w \in Writer, Step(w) PROVE FileInv'
  BY <1>1, <1>2, BeginInv, OpenTmpInv, WriteTmpInv, ReplaceInv, TruncateInv, RewriteInv,
     UnlinkInv DEF Step
<1>3. CASE UNCHANGED vars
  BY <1>3 DEF vars, FileInv, TypeOK, ReadersSeeWholeText, OneWriter, WriterInv
<1>. QED BY <1>2, <1>3 DEF Next

----------------------------------------------------------------------------
(* Safety *)

\* The invariant holds in every reachable state.
THEOREM AlwaysFileInv == ASSUME Exclusive PROVE Spec => []FileInv
BY InitFileInv, NextFileInv, PTL DEF Spec

\* Every variable keeps its type.
THEOREM TypeCorrect == ASSUME Exclusive PROVE Spec => []TypeOK
<1>1. FileInv => TypeOK
  BY DEF FileInv
<1>. QED BY <1>1, AlwaysFileInv, PTL

\* A write that returns has put its text into the target, a bind mount or not.
THEOREM WritesTakeEffect == ASSUME Exclusive PROVE Spec => []ReturnedWriteIsThere
<1>1. FileInv => ReturnedWriteIsThere
  BY DEF FileInv, ReturnedWriteIsThere, WriterInv, At
<1>. QED BY <1>1, AlwaysFileInv, PTL

\* Under one lock, a reader finds a complete text whatever the writers are doing.
THEOREM NoTornReads == ASSUME Exclusive PROVE Spec => []ReadersSeeWholeText
<1>1. FileInv => ReadersSeeWholeText
  BY DEF FileInv
<1>. QED BY <1>1, AlwaysFileInv, PTL

----------------------------------------------------------------------------
(* Refinement *)

OpOf(x) ==
    [phase |-> IF x.pc = "idle" THEN "idle" ELSE IF x.pc = "done" THEN "done" ELSE "called",
     text  |-> x.text]

LEMMA OpStep ==
    ASSUME TypeOK, NEW w \in Writer, NEW x, writer' = [writer EXCEPT ![w] = x]
    PROVE  /\ Op[w] = OpOf(writer[w])
           /\ Op' = [Op EXCEPT ![w] = OpOf(x)]
<1>1. \A v \in Writer : writer'[v] = IF v = w THEN x ELSE writer[v]
  BY DEF TypeOK
<1>2. Op = [v \in Writer |-> OpOf(writer[v])]
  BY DEF Op, OpOf, At
<1>3. Op' = [v \in Writer |-> OpOf(writer'[v])]
  BY DEF Op, OpOf, At
<1>. QED BY <1>1, <1>2, <1>3

\* A step that leaves the target, the text and the phase of its thread alone.
LEMMA HiddenStep ==
    ASSUME TypeOK, NEW w \in Writer, NEW x, writer' = [writer EXCEPT ![w] = x],
           OpOf(x) = OpOf(writer[w]), data'[path'] = data[path]
    PROVE  UNCHANGED <<data[path], Op>>
<1>1. Op' = [Op EXCEPT ![w] = OpOf(x)] /\ Op[w] = OpOf(x)
  BY OpStep
<1>2. Op = [v \in Writer |-> OpOf(writer[v])]
  BY DEF Op, OpOf, At
<1>3. Op' = Op
  BY <1>1, <1>2
<1>. QED BY <1>3

LEMMA InitRefines == Init => File!Init
BY DEF Init, File!Init, File!Quiet, Op, Idle, At

\* Every step of the detailed write is a step of the abstract one or is invisible.
LEMMA StepRefines ==
    ASSUME FileInv, ~mount, NEW w \in Writer, Step(w)
    PROVE  File!Next \/ UNCHANGED <<data[path], Op>>
<1>1. TypeOK /\ path # tmp /\ path \in Inode /\ data \in [Inode -> Text \cup {Partial}]
  BY DEF FileInv, TypeOK
<1>2. Op[w] = OpOf(writer[w])
  BY DEF Op, OpOf, At
<1>3. OpOf(Idle) = File!Quiet
  BY DEF OpOf, Idle, File!Quiet
\* A thread that stops, in a step that leaves the target alone.
<1>4. ASSUME ~At(w, "idle"), Stop(w), data'[path'] = data[path]
      PROVE  File!Next
  <2>1. Op' = [Op EXCEPT ![w] = File!Quiet]
    BY <1>1, <1>3, <1>4, OpStep DEF Stop
  <2>2. Op[w].phase \in {"called", "done"}
    BY <1>2, <1>4 DEF OpOf, At
  <2>3. File!Abort(w) \/ File!Return(w)
    BY <1>4, <2>1, <2>2 DEF File!Abort, File!Return
  <2>. QED BY <2>3 DEF File!Next
<1>5. ASSUME NEW t \in Text, Begin(w, t) PROVE File!Next
  <2>. PICK x : x = [pc |-> "open", text |-> t, fd |-> NoInode]
    OBVIOUS
  <2>1. OpOf(x) = [phase |-> "called", text |-> t]
    BY DEF OpOf
  <2>2. writer' = [writer EXCEPT ![w] = x]
    BY <1>5 DEF Begin
  <2>3. Op' = [Op EXCEPT ![w] = OpOf(x)]
    BY <1>1, <2>2, OpStep
  <2>4. Op' = [Op EXCEPT ![w] = [phase |-> "called", text |-> t]]
    BY <2>1, <2>3
  <2>5. Op[w].phase = "idle"
    BY <1>2, <1>5 DEF OpOf, Begin, At
  <2>6. File!Call(w, t)
    BY <1>5, <2>4, <2>5 DEF File!Call, Begin
  <2>. QED BY <2>6 DEF File!Next
<1>6. ASSUME OpenTmp(w) PROVE UNCHANGED <<data[path], Op>>
  <2>1. PICK i \in Inode :
          /\ IF tmp = NoInode THEN Unused(i) ELSE i = tmp
          /\ data' = [data EXCEPT ![i] = Partial] /\ path' = path
          /\ writer' = [writer EXCEPT ![w] = [writer[w] EXCEPT !.pc = "write", !.fd = i]]
    BY <1>6 DEF OpenTmp
  <2>. PICK x : x = [writer[w] EXCEPT !.pc = "write", !.fd = i]
    OBVIOUS
  <2>2. OpOf(x) = OpOf(writer[w])
    BY <1>1, <1>6, BusyFacts DEF OpOf, OpenTmp, At, Thread
  <2>3. data'[path'] = data[path]
    BY <1>1, <2>1 DEF Unused
  <2>. QED BY <1>1, <2>1, <2>2, <2>3, HiddenStep
<1>7. ASSUME WriteTmp(w) PROVE File!Next \/ UNCHANGED <<data[path], Op>>
  <2>1. ~At(w, "idle") /\ writer[w].pc = "write" /\ path' = path
    BY <1>7 DEF WriteTmp, At
  <2>2. data'[path'] = data[path]
    BY <1>1, <1>7, <2>1, BusyFacts DEF WriteTmp, WriterInv
  <2>3. CASE Stop(w)
    BY <2>1, <2>2, <2>3, <1>4
  <2>4. CASE writer' = [writer EXCEPT ![w] = [writer[w] EXCEPT !.pc = "replace", !.fd = NoInode]]
    <3>. PICK x : x = [writer[w] EXCEPT !.pc = "replace", !.fd = NoInode]
      OBVIOUS
    <3>1. OpOf(x) = OpOf(writer[w])
      BY <2>1, BusyFacts DEF OpOf, Thread
    <3>. QED BY <1>1, <2>2, <2>4, <3>1, HiddenStep
  <2>. QED BY <1>7, <2>3, <2>4 DEF WriteTmp
<1>8. ASSUME Replace(w) PROVE File!Next
  <2>1. ~At(w, "idle") /\ writer[w].pc = "replace" /\ data' = data
    BY <1>8 DEF Replace, At
  <2>2. tmp # NoInode /\ data[tmp] = writer[w].text
    BY <2>1, BusyFacts DEF WriterInv
  <2>. PICK x : x = [writer[w] EXCEPT !.pc = "done"]
    OBVIOUS
  <2>3. writer' = [writer EXCEPT ![w] = x] /\ path' = tmp
    BY <1>8, <2>2 DEF Replace, GoTo
  <2>4. OpOf(x) = [phase |-> "done", text |-> writer[w].text]
    BY <2>1, BusyFacts DEF OpOf, Thread
  <2>5. Op[w] = [phase |-> "called", text |-> writer[w].text]
    BY <1>2, <2>1 DEF OpOf
  <2>6. Op' = [Op EXCEPT ![w] = OpOf(x)]
    BY <1>1, <2>3, OpStep
  <2>7. Op' = [Op EXCEPT ![w].phase = "done"]
    <3>1. OpOf(x) = [Op[w] EXCEPT !.phase = "done"]
      BY <2>4, <2>5
    <3>. QED BY <2>6, <3>1
  <2>8. data'[path'] = Op[w].text /\ Op[w].phase = "called"
    BY <2>1, <2>2, <2>3, <2>5
  <2>9. File!Commit(w)
    BY <2>7, <2>8 DEF File!Commit
  <2>. QED BY <2>9 DEF File!Next
<1>9. ASSUME Truncate(w) \/ Rewrite(w) \/ Unlink(w) PROVE FALSE
  BY <1>9, BusyFacts DEF Truncate, Rewrite, Unlink, At, WriterInv
<1>10. ASSUME Return(w) \/ Crash(w) PROVE File!Next
  BY <1>10, <1>4 DEF Return, Crash, At
<1>. QED BY <1>5, <1>6, <1>7, <1>8, <1>9, <1>10 DEF Step

\* Under one lock, atomic_write_text implements AtomicFile on a target that can be
\* renamed over: each write takes effect at once, or not at all when it raises.
THEOREM Refinement == ASSUME Exclusive PROVE Spec => WritesAreAtomic
<1>1. FileInv /\ [Next]_vars => [mount \/ File!Next]_<<data[path], Op>>
  <2>. SUFFICES ASSUME FileInv, [Next]_vars, ~mount
                PROVE  File!Next \/ UNCHANGED <<data[path], Op>>
    OBVIOUS
  <2>1. CASE UNCHANGED vars
    BY <2>1 DEF vars, Op, At
  <2>2. CASE Next
    BY <2>2, StepRefines DEF Next
  <2>. QED BY <2>1, <2>2
<1>. QED BY <1>1, InitRefines, AlwaysFileInv, PTL DEF Spec, WritesAreAtomic

=============================================================================
