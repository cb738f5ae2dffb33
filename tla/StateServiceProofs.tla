------------------------- MODULE StateServiceProofs -------------------------
(***************************************************************************)
(* Theorems about what HQ keeps on disk and in git: its files              *)
(* (StateService), for every set of requests and of flushes and every      *)
(* bound on changes, writes, faults and shutdowns; its settings (Settings),*)
(* for every set of repositories and models and every bound on requests    *)
(* and faults.                                                             *)
(***************************************************************************)
EXTENDS StateService, Settings, TLAPS

-----------------------------------------------------------------------------
(* The files: the invariant. *)

(* What each mode's files, pending data and writes are.                    *)
FilesOK ==
    /\ remote \in [File -> Content \cup {None, Cut}] /\ cached \in [File -> Content \cup {None}]
    /\ svcMode = "git" => \A f \in File : remote[f] # Cut

QueueOK ==
    /\ pendingWrites \in [File -> PendingRecords \cup {None}] /\ writes \subseteq WriteRecords
    /\ svcMode = "git" => \A k \in writes : k.phase \notin {"mkdir", "open"}
    /\ svcMode = "local" => /\ \A f \in File : pendingWrites[f] = None
                            /\ \A k \in writes : k.phase \in {"mkdir", "open"}

(* Who makes which call; a call that will save holds a copy.               *)
CallOK(c) ==
    /\ c \in Flush => call[c].op = "flush"
    /\ c \in Request /\ Active(c) => call[c].op # "flush"
    /\ call[c].phase \in {"fetched", "holding", "checking"} => call[c].copy \in Content

CallsOK == call \in [Caller -> Calls] /\ \A c \in Caller : CallOK(c)

StoreOK ==
    /\ memory \in [issues : 0 .. MaxChange, coordinator : 0 .. MaxChange]
    /\ dirty \in BOOLEAN
    /\ expected \in [File -> Content] /\ cleaned \in BOOLEAN

ServiceOK ==
    /\ svcMode \in {"git", "local"}
    /\ svcUp \in {"up", "closing", "flushing", "down", "killed"}
    /\ closer \in Flush \cup {None} /\ disturbed \in BOOLEAN
    /\ stFaults \in 0 .. MaxFaults /\ closes \in 0 .. MaxClose

TypedInv == FilesOK /\ QueueOK /\ CallsOK /\ StoreOK /\ ServiceOK

(* A file on which no write is under way is what all saves made of it.     *)
InSync(f) ==
    /\ remote[f] = None => expected[f] = Blank
    /\ remote[f] # None => remote[f] = expected[f]
    /\ svcMode = "git" => cached[f] = remote[f]

NoWork == writes = {} /\ \A f \in File : pendingWrites[f] = None

(* The one write under way is of what the saver's file shall be.           *)
Scheduled(c, f) ==
    /\ svcMode = "git" /\ cached[f] = remote[f] /\ writes = {}
    /\ pendingWrites[f] # None
    /\ pendingWrites[f].content = expected[f] /\ pendingWrites[f].waiters = {c}
    /\ pendingWrites[f].live => call[c].op = "flush"

Writing(c, f) ==
    /\ pendingWrites[f] = None
    /\ \E k \in writes :
          /\ writes = {k}
          /\ k.file = f /\ k.content = expected[f] /\ k.waiters = {c}
          /\ k.live => call[c].op = "flush"
          /\ \/ k.phase = "sha" /\ svcMode = "git" /\ cached[f] = remote[f]
             \/ k.phase = "put" /\ svcMode = "git" /\ cached[f] = remote[f] /\ k.sha = remote[f]
             \/ k.phase = "cache" /\ svcMode = "git" /\ remote[f] = expected[f]
             \/ k.phase = "mkdir"
             \/ k.phase = "open" /\ remote[f] = Cut

Saving(c) == call[c].phase = "saving"

SaverInv ==
    \A c \in Caller : Saving(c) =>
        /\ \A f \in File \ {FileOf(call[c].op)} : InSync(f) /\ pendingWrites[f] = None
        /\ Scheduled(c, FileOf(call[c].op)) \/ Writing(c, FileOf(call[c].op))

(* The store is saved unless it is dirty, and a flush saves all of it.     *)
Stored ==
    /\ memory.issues = expected["enrichment"].issues
    /\ memory.coordinator = expected["enrichment"].coordinator

Undisturbed ==
    /\ \A c, d \in Caller : Active(c) /\ Active(d) => c = d
    /\ svcUp \in {"down", "killed"} => Quiet
    /\ (\A c \in Caller : ~Saving(c)) => NoWork /\ \A f \in File : InSync(f)
    /\ SaverInv
    /\ \A c \in Caller : /\ call[c].phase # "fetched"
                         /\ call[c].phase \in {"holding", "checking"} => call[c].copy = expected[FileOf(call[c].op)]
                         /\ Saving(c) /\ call[c].op = "flush" => Stored /\ ~cleaned
    /\ ~dirty /\ ~cleaned => Stored

StateInv == TypedInv /\ (~disturbed => Undisturbed)

(* Contents, marks and bounds are told apart.                              *)
LEMMA Contents ==
    /\ Blank \in Content /\ Known \in Content
    /\ None \notin Content /\ Cut \notin Content /\ None # Cut
    /\ 0 \in 0 .. MaxChange /\ 0 \in 0 .. MaxFaults /\ 0 \in 0 .. MaxClose
<1>1. MaxChange \in Nat /\ MaxFaults \in Nat /\ MaxClose \in Nat
  BY StateAssumption
<1>2. 0 \in 0 .. MaxChange /\ 0 \in 0 .. MaxFaults /\ 0 \in 0 .. MaxClose
  BY <1>1
<1>3. Blank \in Content
  BY <1>2 DEF Blank, Content, Who
<1>4. Known \in Content
  BY <1>3 DEF Known, Content
<1> QED BY <1>2, <1>3, <1>4, StateAssumption, MarkAssumption

(* What a caller makes of a content is one.                                *)
LEMMA ChangedContent ==
    ASSUME StoreOK, NEW c, NEW op \in Op \ {"put"}, op = "flush" \/ c \in Request, NEW old \in Content
    PROVE  Changed(op, c, old) \in Content
<1>1. CASE op = "flush"
  BY <1>1 DEF Changed, FlushedProject, StoreOK, Content
<1>2. CASE op \in {"remove", "forget"}
  BY <1>2, Contents DEF Changed, DeleteProject
<1>3. CASE op = "add"
  BY <1>3, Contents DEF Changed, PostProject, Content, Blank, Who
<1>4. CASE op = "regenerate"
  BY <1>4 DEF Changed, RegenerateToken, Content, Who
<1>5. CASE op = "agent"
  BY <1>5 DEF Changed, UpdateProjectState, Content, Who
<1>6. CASE op = "register"
  BY <1>6 DEF Changed, EnsureProjectRegistered, Content, Who
<1>7. CASE op = "status"
  BY <1>7 DEF Changed, PutProject, Content, Who
<1> QED BY <1>1, <1>2, <1>3, <1>4, <1>5, <1>6, <1>7 DEF Op, ConfigOp

(* A settled call is over, or reads the next file; it keeps its owner's    *)
(* kind of operation.                                                      *)
LEMMA SettledCall ==
    ASSUME NEW k \in Calls, NEW ok \in BOOLEAN
    PROVE  /\ Settled(k, ok) \in Calls
           /\ Settled(k, ok).phase \in {"reading", "idle", "ok", "failed"}
           /\ k.op = "flush" => Settled(k, ok) = Resting
           /\ k.op # "flush" => Settled(k, ok).op # "flush"
           /\ Settled(k, ok).phase = "reading" => k.op = "remove" /\ ok
<1>1. CASE k.op = "remove" /\ ok
  BY <1>1 DEF Settled, Calls, Op, Phase
<1>2. CASE k.op = "flush"
  BY <1>2 DEF Settled, Calls, Resting, Op, Phase
<1>3. CASE k.op # "flush" /\ ~(k.op = "remove" /\ ok)
  <2>1. Settled(k, ok) = [k EXCEPT !.phase = IF ok \/ k.op = "forget" THEN "ok" ELSE "failed", !.copy = None]
    BY <1>3 DEF Settled
  <2> QED BY <1>3, <2>1 DEF Calls, Phase
<1> QED BY <1>1, <1>2, <1>3

(* One call takes a step.                                                  *)
LEMMA OneCallOK ==
    ASSUME CallsOK, NEW c \in Caller, NEW k \in Calls, call' = [call EXCEPT ![c] = k],
           c \in Flush => k.op = "flush",
           c \in Request => k.op # "flush" \/ k.phase \in {"idle", "ok", "failed"},
           k.phase \in {"fetched", "holding", "checking"} => k.copy \in Content
    PROVE  CallsOK'
<1>1. call' \in [Caller -> Calls] /\ call'[c] = k /\ \A d \in Caller \ {c} : call'[d] = call[d]
  BY DEF CallsOK
<1>2. \A d \in Caller \ {c} : CallOK(d)'
  BY <1>1 DEF CallsOK, CallOK, Active
<1>3. CallOK(c)'
  BY <1>1 DEF CallOK, Active
<1> QED BY <1>1, <1>2, <1>3 DEF CallsOK

(* Some calls are settled.                                                 *)
LEMMA SettledCallsOK ==
    ASSUME CallsOK, NEW ws, NEW ok \in BOOLEAN,
           call' = [c \in Caller |-> IF c \in ws THEN Settled(call[c], ok) ELSE call[c]]
    PROVE  CallsOK'
<1>1. \A c \in Caller : call[c] \in Calls /\ CallOK(c)
  BY DEF CallsOK
<1>2. call' \in [Caller -> Calls]
  BY <1>1, SettledCall
<1>3. ASSUME NEW c \in Caller PROVE CallOK(c)'
  <2>1. CASE c \notin ws
    BY <1>1, <2>1 DEF CallOK, Active
  <2>2. CASE c \in ws
    <3>1. call'[c] = Settled(call[c], ok)
      BY <2>2
    <3>2. c \in Flush => call'[c].op = "flush"
      BY <1>1, <3>1, SettledCall DEF CallOK, Resting
    <3>3. call[c].op = "flush" => ~Active(c)'
      BY <1>1, <3>1, SettledCall DEF Active, Resting
    <3>4. call[c].op # "flush" => call'[c].op # "flush"
      BY <1>1, <3>1, SettledCall
    <3>5. call'[c].phase \notin {"fetched", "holding", "checking"}
      BY <1>1, <3>1, SettledCall
    <3> QED BY <3>2, <3>3, <3>4, <3>5 DEF CallOK
  <2> QED BY <2>1, <2>2
<1> QED BY <1>2, <1>3 DEF CallsOK

(* An answer keeps the calls and the store's mark typed.                   *)
LEMMA AnswerOK ==
    ASSUME TypedInv, NEW ws, NEW ok \in BOOLEAN, Answer(ws, ok)
    PROVE  CallsOK' /\ dirty' \in BOOLEAN
<1>1. CallsOK'
  BY SettledCallsOK DEF Answer, TypedInv
<1>2. dirty' \in BOOLEAN
  BY Zenon DEF Answer, TypedInv, StoreOK
<1> QED BY <1>1, <1>2

(* The values a call may have.                                             *)
LEMMA CallValues ==
    ASSUME TypedInv, NEW c \in Caller
    PROVE  /\ call[c] \in Calls /\ call[c].op \in Op /\ call[c].phase \in Phase
           /\ call[c].copy \in Content \cup {None} /\ CallOK(c) /\ FileOf(call[c].op) \in File
           /\ remote[FileOf(call[c].op)] \in Content \cup {None, Cut}
           /\ cached[FileOf(call[c].op)] \in Content \cup {None}
           /\ svcMode = "git" => remote[FileOf(call[c].op)] # Cut
BY DEF TypedInv, CallsOK, FilesOK, Calls, FileOf, File

(* Every step of a caller keeps the types.                                 *)
LEMMA CallStepTyped ==
    ASSUME TypedInv, NEW c \in Caller, CallStep(c) \/ FetchFails(c)
    PROVE  TypedInv'
<1> DEFINE f == FileOf(call[c].op)
<1>1. /\ call[c] \in Calls /\ call[c].op \in Op /\ call[c].phase \in Phase
      /\ call[c].copy \in Content \cup {None} /\ CallOK(c) /\ f \in File
      /\ remote[f] \in Content \cup {None, Cut} /\ cached[f] \in Content \cup {None}
      /\ svcMode = "git" => remote[f] # Cut
  BY CallValues
<1>2. c \in Request /\ Active(c) => call[c].op # "flush"
  BY <1>1 DEF CallOK
<1>3. c \in Flush => call[c].op = "flush"
  BY <1>1 DEF CallOK
<1>4. c \in Flush \/ c \in Request
  BY DEF Caller
<1>5. FilesOK /\ QueueOK /\ CallsOK /\ StoreOK /\ ServiceOK
  BY DEF TypedInv
<1>6. ASSUME UNCHANGED <<svcVars, fileVars, queueVars, storeVars, histVars>>, CallsOK' PROVE TypedInv'
  BY <1>5, <1>6 DEF TypedInv, FilesOK, QueueOK, StoreOK, ServiceOK, svcVars, fileVars, queueVars, storeVars, savedVars, histVars
<1>7. CASE ReadFile(c)
  <2> DEFINE found == IF svcMode = "git" THEN cached[f] ELSE IF remote[f] \in {None, Cut} THEN Blank ELSE remote[f]
             k == [call[c] EXCEPT !.phase = "holding", !.copy = found]
  <2>1. found # None /\ call[c].phase = "reading" /\ call' = [call EXCEPT ![c] = k]
    BY <1>7 DEF ReadFile
  <2>2. found \in Content
    BY <1>1, <2>1, Contents
  <2> HIDE DEF found
  <2>3. k \in Calls /\ k.op = call[c].op /\ k.phase = "holding" /\ k.copy = found
    BY <1>1, <2>2 DEF Calls, Phase
  <2>4. Active(c)
    BY <2>1 DEF Active
  <2> HIDE DEF k
  <2>5. CallsOK'
    BY <1>2, <1>3, <1>5, <2>1, <2>2, <2>3, <2>4, OneCallOK
  <2> QED BY <1>6, <1>7, <2>5 DEF ReadFile
<1>8. CASE FetchServed(c)
  <2> DEFINE k == [call[c] EXCEPT !.phase = IF remote[f] = None THEN "holding" ELSE "fetched",
                                  !.copy = IF remote[f] = None THEN Blank ELSE remote[f]]
  <2>1. svcMode = "git" /\ call[c].phase = "reading" /\ call' = [call EXCEPT ![c] = k]
    BY <1>8 DEF FetchServed
  <2>2. k \in Calls /\ k.op = call[c].op /\ k.copy \in Content
    BY <1>1, <2>1, Contents DEF Calls, Phase
  <2>3. Active(c)
    BY <2>1 DEF Active
  <2> HIDE DEF k
  <2>4. CallsOK'
    BY <1>2, <1>3, <1>5, <2>1, <2>2, <2>3, OneCallOK
  <2> QED BY <1>6, <1>8, <2>4 DEF FetchServed
<1>9. CASE FetchCached(c)
  <2> DEFINE k == [call[c] EXCEPT !.phase = "holding"]
  <2>1. call[c].phase = "fetched" /\ call' = [call EXCEPT ![c] = k] /\ call[c].copy \in Content
    BY <1>1, <1>9 DEF FetchCached, CallOK
  <2>2. k \in Calls /\ k.op = call[c].op /\ k.copy \in Content
    BY <1>1, <2>1 DEF Calls, Phase
  <2>3. Active(c)
    BY <2>1 DEF Active
  <2> HIDE DEF k
  <2>4. CallsOK'
    BY <1>2, <1>3, <1>5, <2>1, <2>2, <2>3, OneCallOK
  <2>5. FilesOK'
    BY <1>1, <1>5, <1>9, <2>1 DEF FilesOK, FetchCached, svcVars
  <2> QED BY <1>5, <1>9, <2>4, <2>5 DEF FetchCached, TypedInv, QueueOK, StoreOK, ServiceOK, svcVars, queueVars, storeVars, savedVars, histVars
<1>10. CASE FetchFails(c)
  <2>1. Settled(call[c], FALSE) \in Calls /\ call' = [call EXCEPT ![c] = Settled(call[c], FALSE)]
    BY <1>1, <1>10, SettledCall DEF FetchFails
  <2>2. /\ call[c].op = "flush" => Settled(call[c], FALSE) = Resting
        /\ call[c].op # "flush" => Settled(call[c], FALSE).op # "flush"
        /\ Settled(call[c], FALSE).phase \notin {"fetched", "holding", "checking"}
    BY <1>1, SettledCall
  <2>3. CallsOK'
    BY <1>2, <1>3, <1>5, <2>1, <2>2, OneCallOK DEF Resting
  <2>4. disturbed' = TRUE /\ stFaults' = stFaults + 1 /\ stFaults < MaxFaults
        /\ UNCHANGED <<svcVars, fileVars, queueVars, storeVars, savedVars>>
    BY <1>10 DEF FetchFails, StFault
  <2>5. disturbed' \in BOOLEAN
    BY <2>4
  <2>6. stFaults' \in 0 .. MaxFaults
    BY <1>5, <2>4, StateAssumption DEF ServiceOK
  <2>7. ServiceOK'
    BY <1>5, <2>4, <2>5, <2>6 DEF ServiceOK, svcVars
  <2> QED BY <1>5, <2>3, <2>4, <2>7 DEF TypedInv, FilesOK, QueueOK, StoreOK, fileVars, queueVars, storeVars, savedVars, svcVars
<1>11. CASE CallRefused(c)
  <2> DEFINE k == [call[c] EXCEPT !.phase = "ok", !.copy = None]
  <2>1. call[c].phase = "holding" /\ call' = [call EXCEPT ![c] = k]
    BY <1>11 DEF CallRefused
  <2>2. k \in Calls /\ k.op = call[c].op /\ k.phase = "ok"
    BY <1>1 DEF Calls, Phase
  <2> HIDE DEF k
  <2>3. CallsOK'
    BY <1>2, <1>3, <1>5, <2>1, <2>2, OneCallOK
  <2> QED BY <1>6, <1>11, <2>3 DEF CallRefused
<1>12. CASE AddChecksRepo(c)
  <2>1. PICK exists \in BOOLEAN :
           call' = [call EXCEPT ![c].phase = IF exists THEN "checking" ELSE "failed",
                                ![c].copy = IF exists THEN @ ELSE None]
    BY <1>12 DEF AddChecksRepo
  <2> DEFINE k == [call[c] EXCEPT !.phase = IF exists THEN "checking" ELSE "failed", !.copy = IF exists THEN @ ELSE None]
  <2>2. call[c].phase = "holding" /\ call' = [call EXCEPT ![c] = k]
    BY <1>12, <2>1 DEF AddChecksRepo
  <2>3. k \in Calls /\ k.op = call[c].op /\ (k.phase = "checking" => k.copy = call[c].copy) /\ k.phase \in {"checking", "failed"}
    BY <1>1 DEF Calls, Phase
  <2>4. Active(c) /\ call[c].copy \in Content
    BY <1>1, <2>2 DEF Active, CallOK
  <2> HIDE DEF k
  <2>5. CallsOK'
    BY <1>2, <1>3, <1>5, <2>2, <2>3, <2>4, OneCallOK
  <2> QED BY <1>6, <1>12, <2>5 DEF AddChecksRepo
<1>13. CASE PutFindsProject(c)
  <2> DEFINE k == [op |-> "status", phase |-> "reading", copy |-> None]
  <2>1. call[c].phase = "holding" /\ call[c].op = "put" /\ call' = [call EXCEPT ![c] = k]
    BY <1>13 DEF PutFindsProject
  <2>2. k \in Calls /\ k.op = "status" /\ k.phase = "reading"
    BY DEF Calls, Phase, Op
  <2> HIDE DEF k
  <2>3. CallsOK'
    BY <1>3, <1>5, <2>1, <2>2, OneCallOK
  <2> QED BY <1>6, <1>13, <2>3 DEF PutFindsProject
<1>14. CASE Save(c)
  <2> DEFINE k == [call[c] EXCEPT !.phase = "saving", !.copy = None]
             data == Changed(call[c].op, c, call[c].copy)
             new == [file |-> f, content |-> data, sha |-> None, phase |-> "mkdir",
                     waiters |-> {c}, live |-> call[c].op = "flush", awaited |-> FALSE]
             pended == [content |-> data, live |-> call[c].op = "flush",
                        waiters |-> {c} \cup (IF pendingWrites[f] = None THEN {} ELSE pendingWrites[f].waiters)]
  <2>1. /\ call[c].phase \in {"holding", "checking"} /\ call[c].op # "put"
        /\ call' = [call EXCEPT ![c] = k]
        /\ expected' = [expected EXCEPT ![f] = Changed(call[c].op, c, expected[f])]
        /\ cleaned' = (call[c].op = "forget" \/ (cleaned /\ call[c].op # "flush"))
        /\ UNCHANGED <<svcVars, fileVars, storeVars, disturbed, stFaults>>
    BY <1>14 DEF Save
  <2>2. Active(c) /\ call[c].copy \in Content
    BY <1>1, <2>1 DEF Active, CallOK
  <2>3. call[c].op = "flush" \/ c \in Request
    BY <1>3, <1>4
  <2>4. data \in Content /\ Changed(call[c].op, c, expected[f]) \in Content
    <3>1. expected[f] \in Content
      BY <1>1, <1>5 DEF StoreOK
    <3> QED BY <1>1, <1>5, <2>1, <2>2, <2>3, <3>1, ChangedContent
  <2>5. k \in Calls /\ k.op = call[c].op /\ k.phase = "saving"
    BY <1>1 DEF Calls, Phase
  <2>6. CallsOK'
    <3> HIDE DEF k
    <3> QED BY <1>2, <1>3, <1>5, <2>1, <2>2, <2>5, OneCallOK
  <2>7. StoreOK'
    <3>1. expected' \in [File -> Content]
      BY <1>1, <1>5, <2>1, <2>4 DEF StoreOK
    <3>2. cleaned' \in BOOLEAN
      BY <2>1, Zenon
    <3> QED BY <1>5, <2>1, <3>1, <3>2 DEF StoreOK, storeVars
  <2>8. FilesOK' /\ ServiceOK'
    BY <1>5, <2>1 DEF FilesOK, ServiceOK, svcVars, fileVars
  <2>9. (call[c].op = "flush") \in BOOLEAN
    OBVIOUS
  <2>10. QueueOK'
    <3>1. CASE svcMode = "git"
      <4>1. pendingWrites' = [pendingWrites EXCEPT ![f] = pended] /\ UNCHANGED <<writes, svcMode>>
        BY <1>14, <2>1, <3>1 DEF Save, Schedule, svcVars
      <4>2. pended \in PendingRecords
        <5>1. {c} \cup (IF pendingWrites[f] = None THEN {} ELSE pendingWrites[f].waiters) \in SUBSET Caller
          BY <1>1, <1>5 DEF QueueOK, PendingRecords
        <5> HIDE DEF data
        <5> QED BY <2>4, <2>9, <5>1 DEF PendingRecords
      <4> HIDE DEF pended
      <4>3. pendingWrites' \in [File -> PendingRecords \cup {None}]
        BY <1>1, <1>5, <4>1, <4>2 DEF QueueOK
      <4> QED BY <1>5, <3>1, <4>1, <4>3 DEF QueueOK
    <3>2. CASE svcMode # "git"
      <4>1. writes' = writes \cup {new} /\ UNCHANGED <<pendingWrites, svcMode>>
        BY <1>14, <2>1, <3>2 DEF Save, WriteLocal, svcVars
      <4>2. new \in WriteRecords /\ new.phase = "mkdir"
        <5> HIDE DEF data
        <5> QED BY <1>1, <2>4, <2>9 DEF WriteRecords, WritePhase, Caller
      <4> HIDE DEF new
      <4> QED BY <1>5, <3>2, <4>1, <4>2 DEF QueueOK
    <3> QED BY <3>1, <3>2
  <2> QED BY <2>6, <2>7, <2>8, <2>10 DEF TypedInv
<1> QED BY <1>7, <1>8, <1>9, <1>10, <1>11, <1>12, <1>13, <1>14 DEF CallStep

(* Moving one write to another phase keeps the types.                      *)
LEMMA MovedTyped ==
    ASSUME QueueOK, svcMode \in {"git", "local"}, NEW k \in writes, NEW m \in WriteRecords, Move(k, m),
           m.phase \in {"mkdir", "open"} <=> k.phase \in {"mkdir", "open"},
           UNCHANGED <<pendingWrites, svcMode>>
    PROVE  QueueOK'
BY DEF QueueOK, Move

(* Every step of a write keeps the types.                                  *)
LEMMA WriteStepTyped ==
    ASSUME TypedInv, NEW k \in writes, WriteStep(k) \/ WriteFails(k)
    PROVE  TypedInv'
<1>1. FilesOK /\ QueueOK /\ CallsOK /\ StoreOK /\ ServiceOK /\ svcMode \in {"git", "local"}
  BY DEF TypedInv, ServiceOK
<1>2. k \in WriteRecords /\ k.file \in File /\ k.content \in Content /\ k.sha \in Content \cup {None} /\ k.phase \in WritePhase
  BY <1>1 DEF QueueOK, WriteRecords
<1>3. /\ remote[k.file] \in Content \cup {None, Cut} /\ cached[k.file] \in Content \cup {None}
      /\ k.phase \notin {"mkdir", "open"} => svcMode = "git" /\ remote[k.file] # Cut
      /\ k.phase \in {"mkdir", "open"} => svcMode = "local"
  BY <1>1, <1>2 DEF FilesOK, QueueOK
<1>4. ASSUME UNCHANGED <<svcVars, fileVars, storeVars, histVars, pendingWrites, call>>,
             NEW m \in WriteRecords, Move(k, m), m.phase \in {"mkdir", "open"} <=> k.phase \in {"mkdir", "open"}
      PROVE  TypedInv'
  <2>1. QueueOK'
    BY <1>1, <1>4, MovedTyped DEF svcVars
  <2> QED BY <1>1, <1>4, <2>1 DEF TypedInv, FilesOK, CallsOK, CallOK, Active, StoreOK, ServiceOK, svcVars, fileVars, storeVars, savedVars, histVars
<1>5. CASE WriteSha(k)
  <2>1. [k EXCEPT !.phase = "put", !.sha = IF cached[k.file] # None THEN cached[k.file] ELSE remote[k.file]] \in WriteRecords
    BY <1>2, <1>3, <1>5 DEF WriteSha, WriteRecords, WritePhase
  <2> QED BY <1>4, <1>5, <2>1, <1>2 DEF WriteSha, WriteRecords
<1>6. CASE PutConflicts(k)
  <2>1. [k EXCEPT !.phase = "refresh"] \in WriteRecords
    BY <1>2 DEF WriteRecords, WritePhase
  <2> QED BY <1>4, <1>6, <2>1, <1>2 DEF PutConflicts, WriteRecords
<1>7. CASE WriteRefresh(k)
  <2>1. [k EXCEPT !.phase = "again", !.sha = remote[k.file]] \in WriteRecords
    BY <1>2, <1>3, <1>7 DEF WriteRefresh, WriteRecords, WritePhase
  <2> QED BY <1>4, <1>7, <2>1, <1>2 DEF WriteRefresh, WriteRecords
<1>8. ASSUME NEW v \in Content \cup {None, Cut}, v = Cut => svcMode = "local", remote' = [remote EXCEPT ![k.file] = v],
             NEW m \in WriteRecords, Move(k, m), m.phase \in {"mkdir", "open"} <=> k.phase \in {"mkdir", "open"},
             UNCHANGED <<svcVars, storeVars, histVars, cached, pendingWrites, call>>
      PROVE  TypedInv'
  <2>1. QueueOK'
    BY <1>1, <1>8, MovedTyped DEF svcVars
  <2>2. FilesOK'
    BY <1>1, <1>2, <1>8 DEF FilesOK, svcVars
  <2> QED BY <1>1, <1>8, <2>1, <2>2 DEF TypedInv, CallsOK, CallOK, Active, StoreOK, ServiceOK, svcVars, storeVars, savedVars, histVars
<1>9. CASE PutAccepted(k)
  <2>1. [k EXCEPT !.phase = "cache"] \in WriteRecords
    BY <1>2 DEF WriteRecords, WritePhase
  <2> QED BY <1>2, <1>8, <1>9, <2>1, Contents DEF PutAccepted, WriteRecords
<1>10. CASE LocalOpen(k)
  <2>1. [k EXCEPT !.phase = "open", !.live = FALSE] \in WriteRecords
    BY <1>2 DEF WriteRecords, WritePhase
  <2> QED BY <1>2, <1>3, <1>8, <1>10, <2>1 DEF LocalOpen, WriteRecords
<1>11. ASSUME NEW ok \in BOOLEAN, Answer(k.waiters, ok), writes' = writes \ {k}, FilesOK',
              UNCHANGED <<svcVars, pendingWrites, memory, savedVars>>, disturbed' \in BOOLEAN, stFaults' \in 0 .. MaxFaults
       PROVE  TypedInv'
  <2>1. CallsOK' /\ dirty' \in BOOLEAN
    BY <1>11, AnswerOK
  <2>2. QueueOK'
    BY <1>1, <1>11 DEF QueueOK, svcVars
  <2> QED BY <1>1, <1>11, <2>1, <2>2 DEF TypedInv, StoreOK, ServiceOK, svcVars, savedVars
<1>12. CASE WriteCached(k)
  <2>1. FilesOK'
    BY <1>1, <1>2, <1>12 DEF WriteCached, FilesOK, svcVars
  <2> QED BY <1>1, <1>11, <1>12, <2>1 DEF WriteCached, histVars, savedVars, ServiceOK
<1>13. CASE PutRejected(k)
  <2>1. FilesOK'
    BY <1>1, <1>13 DEF PutRejected, FilesOK, svcVars, fileVars
  <2> QED BY <1>1, <1>11, <1>13, <2>1 DEF PutRejected, histVars, savedVars, ServiceOK
<1>14. CASE LocalFill(k)
  <2>1. FilesOK'
    BY <1>1, <1>2, <1>3, <1>14 DEF LocalFill, FilesOK, svcVars
  <2> QED BY <1>1, <1>11, <1>14, <2>1 DEF LocalFill, histVars, savedVars, ServiceOK
<1>15. CASE WriteFails(k)
  <2>1. FilesOK'
    BY <1>1, <1>15 DEF WriteFails, FilesOK, svcVars, fileVars
  <2>2. disturbed' \in BOOLEAN
    BY <1>15 DEF WriteFails, StFault
  <2>3. stFaults' \in 0 .. MaxFaults
    BY <1>1, <1>15, StateAssumption DEF WriteFails, StFault, ServiceOK
  <2> QED BY <1>11, <1>15, <2>1, <2>2, <2>3 DEF WriteFails
<1> QED BY <1>5, <1>6, <1>7, <1>9, <1>10, <1>12, <1>13, <1>14, <1>15 DEF WriteStep

(* Stopping forgets calls and writes.                                      *)
LEMMA StoppedTyped ==
    ASSUME TypedInv, Stopped, svcUp' \in {"up", "closing", "flushing", "down", "killed"},
           disturbed' \in BOOLEAN, stFaults' \in 0 .. MaxFaults
    PROVE  TypedInv'
<1>1. FilesOK /\ QueueOK /\ CallsOK /\ StoreOK /\ ServiceOK
  BY DEF TypedInv
<1>2. \A c \in Caller : call[c] \in Calls /\ CallOK(c)
  BY <1>1 DEF CallsOK
<1>3. Resting \in Calls
  BY DEF Resting, Calls, Op, Phase
<1>4. \A c \in Caller : /\ c \in Flush => call'[c] = Resting
                        /\ c \notin Flush /\ ~Active(c) => call'[c] = call[c]
                        /\ c \notin Flush /\ Active(c) => call'[c] = [call[c] EXCEPT !.phase = "failed", !.copy = None]
  BY DEF Stopped
<1>5. \A c \in Caller : [call[c] EXCEPT !.phase = "failed", !.copy = None] \in Calls
  BY <1>2 DEF Calls, Phase
<1>6. CallsOK'
  <2>1. call' \in [Caller -> Calls]
    BY <1>2, <1>3, <1>5 DEF Stopped
  <2>2. ASSUME NEW c \in Caller PROVE CallOK(c)'
    <3>1. CASE c \in Flush
      <4>1. c \notin Request
        BY <3>1, StateAssumption
      <4>2. call'[c] = Resting
        BY <1>4, <3>1
      <4>3. call'[c].op = "flush" /\ call'[c].phase = "idle"
        BY <4>2 DEF Resting
      <4> QED BY <3>1, <4>1, <4>3 DEF CallOK
    <3>2. CASE c \notin Flush /\ ~Active(c)
      BY <1>2, <1>4, <3>2 DEF CallOK, Active
    <3>3. CASE c \notin Flush /\ Active(c)
      <4>1. call'[c].phase = "failed"
        BY <1>2, <1>4, <3>3 DEF Calls
      <4> QED BY <3>3, <4>1 DEF CallOK, Active
    <3> QED BY <3>1, <3>2, <3>3
  <2> QED BY <2>1, <2>2 DEF CallsOK
<1>7. QueueOK'
  BY <1>1 DEF Stopped, QueueOK
<1>8. FilesOK' /\ StoreOK' /\ ServiceOK'
  BY <1>1 DEF Stopped, FilesOK, StoreOK, ServiceOK, fileVars, storeVars, savedVars
<1> QED BY <1>6, <1>7, <1>8 DEF TypedInv

(* The types hold at first and every step keeps them.                      *)
LEMMA TypedInit == StateInit => TypedInv
<1> SUFFICES ASSUME StateInit PROVE TypedInv
  OBVIOUS
<1>1. PICK kept \in {None, Known} : remote = [g \in File |-> kept]
  BY DEF StateInit
<1>2. FilesOK
  <2>1. remote \in [File -> Content \cup {None}]
    BY <1>1, Contents
  <2>2. cached \in [File -> Content \cup {None}]
    BY <2>1, Contents DEF StateInit
  <2>3. \A g \in File : remote[g] # Cut
    BY <2>1, Contents
  <2> QED BY <2>1, <2>2, <2>3 DEF FilesOK
<1>3. QueueOK
  BY DEF StateInit, QueueOK
<1>4. CallsOK
  <2>1. Resting \in Calls /\ Resting.op = "flush" /\ Resting.phase = "idle"
    BY DEF Resting, Calls, Op, Phase
  <2>2. call \in [Caller -> Calls] /\ \A c \in Caller : call[c] = Resting
    BY <2>1 DEF StateInit
  <2> QED BY <2>1, <2>2 DEF CallsOK, CallOK, Active
<1>5. expected \in [File -> Content]
  BY <1>1, Contents DEF StateInit
<1>6. memory \in [issues : 0 .. MaxChange, coordinator : 0 .. MaxChange]
  BY Contents DEF StateInit
<1>7. dirty \in BOOLEAN /\ cleaned \in BOOLEAN /\ disturbed \in BOOLEAN
  BY DEF StateInit
<1>8. svcMode \in {"git", "local"} /\ svcUp = "up" /\ closer = None
  BY StateAssumption DEF StateInit
<1>9. stFaults \in 0 .. MaxFaults /\ closes \in 0 .. MaxClose
  BY Contents DEF StateInit
<1> QED BY <1>2, <1>3, <1>4, <1>5, <1>6, <1>7, <1>8, <1>9 DEF TypedInv, StoreOK, ServiceOK

(* Every step keeps the types.                                             *)
LEMMA TypedStep == TypedInv /\ [StateNext]_stVars => TypedInv'
<1> SUFFICES ASSUME TypedInv, [StateNext]_stVars PROVE TypedInv'
  OBVIOUS
<1>0. FilesOK /\ QueueOK /\ CallsOK /\ StoreOK /\ ServiceOK
  BY DEF TypedInv
<1>a. \A c \in Caller : call[c] \in Calls /\ CallOK(c)
  BY <1>0 DEF CallsOK
<1>b. MaxChange \in Nat /\ MaxFaults \in Nat /\ MaxClose \in Nat
  BY StateAssumption
<1>c. StFault => disturbed' \in BOOLEAN /\ stFaults' \in 0 .. MaxFaults
  <2> SUFFICES ASSUME StFault PROVE disturbed' \in BOOLEAN /\ stFaults' \in 0 .. MaxFaults
    OBVIOUS
  <2>1. disturbed' \in BOOLEAN
    BY DEF StFault
  <2>2. stFaults' \in 0 .. MaxFaults
    BY <1>0, <1>b DEF StFault, ServiceOK
  <2> QED BY <2>1, <2>2
<1>d. (disturbed \/ ~Quiet) \in BOOLEAN /\ (disturbed \/ FlushActive) \in BOOLEAN
  OBVIOUS
<1>1. ASSUME NEW r \in Request, NEW op \in ConfigOp, RequestStart(r, op) PROVE TypedInv'
  <2> DEFINE k == [op |-> op, phase |-> "reading", copy |-> None]
  <2>1. call' = [call EXCEPT ![r] = k] /\ r \in Caller /\ r \notin Flush
    BY <1>1, StateAssumption DEF RequestStart, Caller
  <2>2. k \in Calls /\ k.op # "flush" /\ k.phase = "reading"
    BY DEF Calls, Op, ConfigOp, Phase
  <2> HIDE DEF k
  <2>3. CallsOK'
    BY <1>0, <2>1, <2>2, OneCallOK
  <2>4. disturbed' \in BOOLEAN
    BY <1>1, <1>d, Zenon DEF RequestStart
  <2> QED BY <1>0, <1>1, <2>3, <2>4 DEF RequestStart, TypedInv, FilesOK, QueueOK, StoreOK, ServiceOK, svcVars, fileVars, queueVars, storeVars, savedVars
<1>2. ASSUME NEW c \in Flush, FlushStart(c) PROVE TypedInv'
  <2> DEFINE k == [op |-> "flush", phase |-> "reading", copy |-> None]
  <2>1. call' = [call EXCEPT ![c] = k] /\ c \in Caller /\ c \notin Request
    BY <1>2, StateAssumption DEF FlushStart, Caller
  <2>2. k \in Calls /\ k.op = "flush" /\ k.phase = "reading"
    BY DEF Calls, Op, Phase
  <2> HIDE DEF k
  <2>3. CallsOK'
    BY <1>0, <2>1, <2>2, OneCallOK
  <2>4. disturbed' \in BOOLEAN
    BY <1>2, <1>d, Zenon DEF FlushStart
  <2> QED BY <1>0, <1>2, <2>3, <2>4 DEF FlushStart, TypedInv, FilesOK, QueueOK, StoreOK, ServiceOK, svcVars, fileVars, queueVars, storeVars, savedVars
<1>3. ASSUME NEW c \in Caller, CallStep(c) \/ FetchFails(c) PROVE TypedInv'
  BY <1>3, CallStepTyped
<1>4. ASSUME NEW f \in File, WriteBegin(f) PROVE TypedInv'
  <2>1. pendingWrites[f] \in PendingRecords /\ svcMode = "git"
    BY <1>0, <1>4 DEF WriteBegin, QueueOK, ServiceOK
  <2>2. Begun(f, FALSE) \in WriteRecords /\ Begun(f, FALSE).phase = "sha"
    BY <2>1 DEF Begun, WriteRecords, PendingRecords, WritePhase
  <2>3. QueueOK'
    BY <1>0, <1>4, <2>1, <2>2 DEF WriteBegin, QueueOK, svcVars
  <2> QED BY <1>0, <1>4, <2>3 DEF WriteBegin, TypedInv, FilesOK, CallsOK, CallOK, Active, StoreOK, ServiceOK, svcVars, fileVars, storeVars, savedVars, histVars
<1>5. ASSUME NEW f \in File, EditedElsewhere(f) PROVE TypedInv'
  <2>1. FilesOK'
    BY <1>0, <1>5, Contents DEF EditedElsewhere, FilesOK, svcVars
  <2>2. ServiceOK'
    BY <1>0, <1>c, <1>5 DEF EditedElsewhere, ServiceOK, svcVars
  <2> QED BY <1>0, <1>5, <2>1, <2>2 DEF EditedElsewhere, TypedInv, QueueOK, CallsOK, CallOK, Active, StoreOK, svcVars, queueVars, storeVars, savedVars
<1>6. ASSUME NEW k \in writes, WriteStep(k) \/ WriteFails(k) PROVE TypedInv'
  BY <1>6, WriteStepTyped
<1>e. ASSUME UNCHANGED <<svcVars, fileVars, call, savedVars, stFaults>>, QueueOK', memory' \in [issues : 0 .. MaxChange, coordinator : 0 .. MaxChange],
             dirty' = TRUE, disturbed' = (disturbed \/ FlushActive)
      PROVE  TypedInv'
  <2>1. dirty' \in BOOLEAN /\ disturbed' \in BOOLEAN
    BY <1>e, <1>d, Zenon
  <2> QED BY <1>0, <1>e, <2>1 DEF TypedInv, FilesOK, CallsOK, CallOK, Active, StoreOK, ServiceOK, svcVars, fileVars, savedVars
<1>7. CASE UpdateIssue
  <2>1. memory.issues + 1 \in 0 .. MaxChange
    BY <1>0, <1>b, <1>7 DEF UpdateIssue, StoreOK
  <2>2. memory' \in [issues : 0 .. MaxChange, coordinator : 0 .. MaxChange]
    BY <1>0, <1>7, <2>1 DEF UpdateIssue, StoreOK
  <2> DEFINE v == memory.issues + 1
  <2>3. ASSUME NEW r \in PendingRecords PROVE [r EXCEPT !.content.issues = v] \in PendingRecords
    BY <2>1, <2>3 DEF PendingRecords, Content
  <2>4. ASSUME NEW k \in WriteRecords PROVE [k EXCEPT !.content.issues = v] \in WriteRecords /\ [k EXCEPT !.content.issues = v].phase = k.phase
    BY <2>1, <2>4 DEF WriteRecords, Content
  <2>5. SeeIssue(v) /\ svcMode' = svcMode
    BY <1>7 DEF UpdateIssue, svcVars
  <2> HIDE DEF v
  <2>6. pendingWrites' \in [File -> PendingRecords \cup {None}]
    BY <1>0, <2>3, <2>5 DEF SeeIssue, QueueOK
  <2>7. writes' \subseteq WriteRecords /\ \A m \in writes' : \E k \in writes : m.phase = k.phase
    BY <1>0, <2>4, <2>5, ZenonT(30) DEF SeeIssue, QueueOK
  <2>8. svcMode = "local" => \A g \in File : pendingWrites'[g] = None
    BY <1>0, <2>5 DEF SeeIssue, QueueOK
  <2>9. QueueOK'
    BY <1>0, <2>5, <2>6, <2>7, <2>8 DEF QueueOK
  <2> QED BY <1>e, <1>7, <2>2, <2>9 DEF UpdateIssue
<1>8. CASE SetIssues
  <2>1. memory.issues + 1 \in 0 .. MaxChange
    BY <1>0, <1>b, <1>8 DEF SetIssues, StoreOK
  <2>2. memory' \in [issues : 0 .. MaxChange, coordinator : 0 .. MaxChange]
    BY <1>0, <1>8, <2>1 DEF SetIssues, StoreOK
  <2>3. ASSUME NEW r \in PendingRecords PROVE [r EXCEPT !.live = FALSE] \in PendingRecords
    BY <2>3 DEF PendingRecords
  <2>4. ASSUME NEW k \in WriteRecords PROVE [k EXCEPT !.live = FALSE] \in WriteRecords /\ [k EXCEPT !.live = FALSE].phase = k.phase
    BY <2>4 DEF WriteRecords
  <2>5. pendingWrites' \in [File -> PendingRecords \cup {None}]
    BY <1>0, <1>8, <2>3 DEF SetIssues, QueueOK
  <2>6. writes' \subseteq WriteRecords /\ \A m \in writes' : \E k \in writes : m.phase = k.phase
    BY <1>0, <1>8, <2>4, ZenonT(30) DEF SetIssues, QueueOK
  <2>7. svcMode = "local" => \A g \in File : pendingWrites'[g] = None
    BY <1>0, <1>8 DEF SetIssues, QueueOK
  <2>8. QueueOK'
    BY <1>0, <1>8, <2>5, <2>6, <2>7 DEF QueueOK, SetIssues, svcVars
  <2> QED BY <1>e, <1>8, <2>2, <2>8 DEF SetIssues
<1>9. CASE SetCoordinator
  <2>1. memory.coordinator + 1 \in 0 .. MaxChange
    BY <1>0, <1>b, <1>9 DEF SetCoordinator, StoreOK
  <2>2. memory' \in [issues : 0 .. MaxChange, coordinator : 0 .. MaxChange]
    BY <1>0, <1>9, <2>1 DEF SetCoordinator, StoreOK
  <2>3. QueueOK'
    BY <1>0, <1>9 DEF SetCoordinator, QueueOK, svcVars, queueVars
  <2> QED BY <1>e, <1>9, <2>2, <2>3 DEF SetCoordinator
<1>10. CASE CloseStart
  <2>1. closes' \in 0 .. MaxClose
    BY <1>0, <1>b, <1>10 DEF CloseStart, ServiceOK
  <2>2. disturbed' \in BOOLEAN
    BY <1>10, <1>d, Zenon DEF CloseStart
  <2>3. closer' \in Flush \cup {None} /\ CallsOK'
    <3>1. CASE dirty
      <4>1. PICK c \in Flush : closer' = c /\ call' = [call EXCEPT ![c].phase = "reading"]
        BY <1>10, <3>1 DEF CloseStart
      <4>2. c \in Caller /\ c \notin Request
        BY StateAssumption DEF Caller
      <4> DEFINE k == [call[c] EXCEPT !.phase = "reading"]
      <4>3. k \in Calls /\ k.op = "flush" /\ k.phase = "reading" /\ call' = [call EXCEPT ![c] = k]
        BY <1>a, <4>1, <4>2 DEF Calls, Phase, CallOK
      <4> HIDE DEF k
      <4>4. CallsOK'
        BY <1>0, <4>2, <4>3, OneCallOK
      <4> QED BY <4>1, <4>4
    <3>2. CASE ~dirty
      BY <1>0, <1>10, <3>2 DEF CloseStart, CallsOK, CallOK, Active, ServiceOK
    <3> QED BY <3>1, <3>2
  <2>4. svcUp' = "closing" /\ UNCHANGED <<fileVars, queueVars, storeVars, svcMode, savedVars, stFaults>>
    BY <1>10 DEF CloseStart
  <2>5. ServiceOK'
    BY <1>0, <2>1, <2>2, <2>3, <2>4 DEF ServiceOK
  <2> QED BY <1>0, <2>3, <2>4, <2>5 DEF TypedInv, FilesOK, QueueOK, StoreOK, fileVars, queueVars, storeVars, savedVars
<1>11. CASE CloseState
  <2>1. ASSUME NEW f \in File, pendingWrites[f] # None PROVE svcMode = "git" /\ Begun(f, TRUE) \in WriteRecords /\ Begun(f, TRUE).phase = "sha"
    <3>1. pendingWrites[f] \in PendingRecords /\ svcMode = "git"
      BY <1>0, <2>1 DEF QueueOK, ServiceOK
    <3> QED BY <3>1 DEF Begun, WriteRecords, PendingRecords, WritePhase
  <2>2. QueueOK'
    BY <1>0, <1>11, <2>1 DEF CloseState, QueueOK
  <2> QED BY <1>0, <1>11, <2>2 DEF CloseState, TypedInv, FilesOK, CallsOK, CallOK, Active, StoreOK, ServiceOK, fileVars, storeVars, savedVars, histVars
<1>12. CASE CloseDone
  <2>1. disturbed' \in BOOLEAN
    BY <1>12, <1>d, Zenon DEF CloseDone
  <2> QED BY <1>0, <1>12, <2>1, StoppedTyped DEF CloseDone, ServiceOK
<1>13. CASE Killed
  BY <1>c, <1>13, StoppedTyped DEF Killed
<1>14. ASSUME NEW synced \in BOOLEAN, Restart(synced) PROVE TypedInv'
  <2>1. remote["enrichment"] \in Content \cup {None, Cut} /\ cached["enrichment"] \in Content \cup {None}
        /\ \A g \in File : remote[g] \in Content \cup {None, Cut} /\ cached[g] \in Content \cup {None}
        /\ (svcMode = "git" => remote[g] # Cut)
    BY <1>0 DEF FilesOK, File
  <2> DEFINE fresh == IF svcMode = "git" /\ synced
                      THEN [f \in File |-> IF remote[f] # None THEN remote[f] ELSE cached[f]] ELSE cached
             kept == IF svcMode = "git" THEN IF fresh["enrichment"] = None THEN Blank ELSE fresh["enrichment"]
                     ELSE IF remote["enrichment"] \in {None, Cut} THEN Blank ELSE remote["enrichment"]
  <2>2. /\ cached' = fresh /\ memory' = [issues |-> kept.issues, coordinator |-> kept.coordinator]
        /\ dirty' = FALSE /\ cleaned' = FALSE /\ svcUp' = "up"
        /\ UNCHANGED <<queueVars, svcMode, remote, call, closer, expected, closes>>
    BY <1>14 DEF Restart
  <2>3. fresh \in [File -> Content \cup {None}]
    BY <1>0, <2>1 DEF FilesOK
  <2>4. kept \in Content
    <3>1. fresh["enrichment"] \in Content \cup {None}
      BY <2>3 DEF File
    <3> HIDE DEF fresh
    <3> QED BY <2>1, <3>1, Contents
  <2>5. memory' \in [issues : 0 .. MaxChange, coordinator : 0 .. MaxChange]
    <3> HIDE DEF kept
    <3> QED BY <2>2, <2>4 DEF Content
  <2>6. dirty' \in BOOLEAN /\ cleaned' \in BOOLEAN
    BY <2>2
  <2>7. disturbed' \in BOOLEAN /\ stFaults' \in 0 .. MaxFaults
    <3>1. CASE synced
      BY <1>0, <1>14, <3>1 DEF Restart, ServiceOK
    <3>2. CASE ~synced
      BY <1>c, <1>14, <3>2 DEF Restart
    <3> QED BY <3>1, <3>2
  <2> HIDE DEF fresh, kept
  <2>8. FilesOK' /\ StoreOK' /\ ServiceOK'
    BY <1>0, <2>2, <2>3, <2>5, <2>6, <2>7 DEF FilesOK, StoreOK, ServiceOK
  <2> QED BY <1>0, <2>2, <2>8 DEF TypedInv, QueueOK, CallsOK, CallOK, Active, queueVars
<1>15. CASE UNCHANGED stVars
  BY <1>0, <1>15 DEF stVars, TypedInv, FilesOK, QueueOK, CallsOK, CallOK, Active, StoreOK, ServiceOK, svcVars, fileVars, queueVars, storeVars, savedVars, histVars
<1> QED BY <1>1, <1>2, <1>3, <1>4, <1>5, <1>6, <1>7, <1>8, <1>9, <1>10, <1>11, <1>12, <1>13, <1>14, <1>15 DEF StateNext

(* Files, queues, calls and counts of the state service hold only values   *)
(* its code can give them: the type invariant HqTypeOK asks for there.     *)
THEOREM StateTypeCorrect == StateSpec => []StateTypeOK
<1>1. TypedInv => StateTypeOK
  BY DEF TypedInv, FilesOK, QueueOK, CallsOK, StoreOK, ServiceOK, StateTypeOK
<1> QED BY <1>1, TypedInit, TypedStep, PTL DEF StateSpec
-----------------------------------------------------------------------------
(* Nothing is saving unless a save is under way; two calls never are.      *)
LEMMA UndisturbedInit == StateInit => Undisturbed
<1> SUFFICES ASSUME StateInit PROVE Undisturbed
  OBVIOUS
<1>1. PICK kept \in {None, Known} : remote = [g \in File |-> kept]
  BY DEF StateInit
<1>2. Resting.phase = "idle"
  BY DEF Resting
<1>3. \A c \in Caller : call[c].phase = "idle"
  BY <1>2 DEF StateInit
<1>4. \A c \in Caller : ~Active(c) /\ ~Saving(c)
  BY <1>3 DEF Active, Saving
<1>5. ASSUME NEW f \in File PROVE InSync(f)
  <2>1. remote[f] = kept /\ (svcMode = "git" => cached[f] = remote[f])
    BY <1>1 DEF StateInit
  <2>2. expected[f] = IF remote[f] = None THEN Blank ELSE remote[f]
    BY DEF StateInit
  <2> QED BY <2>1, <2>2 DEF InSync
<1>6. NoWork
  BY DEF StateInit, NoWork
<1>7. Stored
  <2>1. "enrichment" \in File
    BY DEF File
  <2>2. expected["enrichment"] \in {Blank, Known}
    BY <1>1, <2>1 DEF StateInit
  <2>3. Blank.issues = 0 /\ Blank.coordinator = 0 /\ Known.issues = 0 /\ Known.coordinator = 0
    BY DEF Blank, Known
  <2>4. memory.issues = 0 /\ memory.coordinator = 0
    BY DEF StateInit
  <2> QED BY <2>2, <2>3, <2>4 DEF Stored
<1>8. SaverInv
  BY <1>4 DEF SaverInv
<1> QED BY <1>3, <1>4, <1>5, <1>6, <1>7, <1>8 DEF Undisturbed, Quiet

(* While the one active call is not saving, nothing is being written.      *)
LEMMA NothingUnderWay ==
    ASSUME Undisturbed, NEW c \in Caller, ~Saving(c), \A d \in Caller \ {c} : ~Active(d)
    PROVE  NoWork /\ \A f \in File : InSync(f)
<1>1. \A d \in Caller : ~Saving(d)
  BY DEF Saving, Active
<1> QED BY <1>1 DEF Undisturbed

(* In an undisturbed run calls come one after another.                     *)
LEMMA OthersRest ==
    ASSUME Undisturbed, NEW c \in Caller, Active(c)
    PROVE  \A d \in Caller \ {c} : ~Active(d)
BY DEF Undisturbed

(* A file in sync stays so while nobody touches it.                        *)
LEMMA StaysInSync ==
    ASSUME NEW f \in File, InSync(f), remote'[f] = remote[f], cached'[f] = cached[f],
           expected'[f] = expected[f], svcMode' = svcMode
    PROVE  InSync(f)'
BY DEF InSync

(* The one active call, or one that starts, moves on without saving.       *)
LEMMA UnsavedStep ==
    ASSUME TypedInv, Undisturbed, NEW c \in Caller, NEW k \in Calls, call' = [call EXCEPT ![c] = k],
           ~Saving(c), \A d \in Caller \ {c} : ~Active(d),
           k.phase \notin {"saving", "fetched"},
           k.phase \in {"holding", "checking"} => k.copy = expected[FileOf(k.op)],
           svcUp' \notin {"down", "killed"},
           UNCHANGED <<svcMode, fileVars, queueVars, storeVars, savedVars>>
    PROVE  Undisturbed'
<1>1. call'[c] = k /\ \A d \in Caller \ {c} : call'[d] = call[d]
  BY DEF TypedInv, CallsOK
<1>2. \A d \in Caller \ {c} : ~Active(d)' /\ ~Saving(d)' /\ call'[d].phase \notin {"fetched", "holding", "checking"}
  BY <1>1 DEF Active, Saving
<1>3. ~Saving(c)' /\ call'[c].phase # "fetched"
  BY <1>1 DEF Saving
<1>4. NoWork' /\ \A f \in File : InSync(f)'
  <2>1. NoWork /\ \A f \in File : InSync(f)
    BY NothingUnderWay
  <2> QED BY <2>1, StaysInSync DEF NoWork, fileVars, queueVars, savedVars
<1>5. SaverInv'
  BY <1>2, <1>3 DEF SaverInv
<1>6. \A d \in Caller : call'[d].phase \in {"holding", "checking"} => call'[d].copy = expected'[FileOf(call'[d].op)]
  BY <1>1, <1>2 DEF savedVars
<1>7. ~dirty' /\ ~cleaned' => Stored'
  BY DEF Undisturbed, Stored, storeVars, savedVars
<1>8. \A d, e \in Caller : Active(d)' /\ Active(e)' => d = e
  BY <1>2
<1> QED BY <1>2, <1>3, <1>4, <1>5, <1>6, <1>7, <1>8 DEF Undisturbed

(* The write of a save moves on.                                           *)
LEMMA SaverStep ==
    ASSUME TypedInv, Undisturbed, NEW c \in Caller, Saving(c), call' = call,
           \A f \in File \ {FileOf(call[c].op)} : InSync(f)' /\ pendingWrites'[f] = None,
           Scheduled(c, FileOf(call[c].op))' \/ Writing(c, FileOf(call[c].op))',
           svcUp' \notin {"down", "killed"}, UNCHANGED <<storeVars, savedVars>>
    PROVE  Undisturbed'
<1>1. Active(c) /\ \A d \in Caller \ {c} : ~Active(d) /\ ~Saving(d)
  BY OthersRest DEF Active, Saving
<1>2. \A d \in Caller : (Active(d)' <=> Active(d)) /\ (Saving(d)' <=> Saving(d))
  BY DEF Active, Saving
<1>3. SaverInv'
  <2>1. \A d \in Caller : Saving(d)' => d = c
    BY <1>1, <1>2
  <2> QED BY <2>1 DEF SaverInv
<1>4. ~((\A d \in Caller : ~Saving(d))')
  BY <1>2
<1>5. \A d \in Caller : /\ call'[d].phase # "fetched"
                        /\ call'[d].phase \in {"holding", "checking"} => call'[d].copy = expected'[FileOf(call'[d].op)]
                        /\ Saving(d)' /\ call'[d].op = "flush" => Stored' /\ ~cleaned'
  BY <1>2 DEF Undisturbed, Stored, storeVars, savedVars
<1>6. ~dirty' /\ ~cleaned' => Stored'
  BY DEF Undisturbed, Stored, storeVars, savedVars
<1>7. \A d, e \in Caller : Active(d)' /\ Active(e)' => d = e
  BY <1>1, <1>2
<1> QED BY <1>3, <1>4, <1>5, <1>6, <1>7 DEF Undisturbed

(* A save is answered: its file is in sync again.                          *)
LEMMA SaverAnswered ==
    ASSUME TypedInv, Undisturbed, NEW c \in Caller, Saving(c), Answer({c}, TRUE), NoWork',
           \A f \in File : InSync(f)', svcUp' = svcUp, svcUp \notin {"down", "killed"},
           UNCHANGED <<memory, savedVars>>
    PROVE  Undisturbed'
<1>1. Active(c) /\ \A d \in Caller \ {c} : ~Active(d) /\ ~Saving(d)
  BY OthersRest DEF Active, Saving
<1>2. call[c] \in Calls /\ call'[c] = Settled(call[c], TRUE) /\ \A d \in Caller \ {c} : call'[d] = call[d]
  BY DEF Answer, TypedInv, CallsOK
<1>3. call'[c].phase \in {"reading", "idle", "ok", "failed"}
  BY <1>2, SettledCall
<1>4. \A d \in Caller : ~Saving(d)' /\ call'[d].phase \notin {"fetched", "holding", "checking"}
  <2>1. \A d \in Caller \ {c} : call[d].phase \in {"idle", "ok", "failed"}
    BY <1>1 DEF Active
  <2> QED BY <1>2, <1>3, <2>1 DEF Saving
<1>5. SaverInv'
  BY <1>4 DEF SaverInv
<1>6. ~dirty' /\ ~cleaned' => Stored'
  <2>1. Stored' <=> Stored
    BY DEF Stored, savedVars
  <2>2. CASE call[c].op = "flush"
    BY <2>1, <2>2 DEF Undisturbed
  <2>3. CASE call[c].op # "flush"
    BY <2>1, <2>3 DEF Undisturbed, Answer, savedVars
  <2> QED BY <2>2, <2>3
<1>7. \A d, e \in Caller : Active(d)' /\ Active(e)' => d = e
  BY <1>1, <1>2 DEF Active
<1> QED BY <1>4, <1>5, <1>6, <1>7 DEF Undisturbed

(* A write under way is the one of the save under way.                     *)
LEMMA OneWrite ==
    ASSUME Undisturbed, NEW k \in writes
    PROVE  \E c \in Caller :
              /\ Saving(c) /\ k.file = FileOf(call[c].op) /\ Writing(c, k.file)
              /\ writes = {k} /\ k.content = expected[k.file] /\ k.waiters = {c}
              /\ k.live => call[c].op = "flush"
              /\ \/ k.phase = "sha" /\ svcMode = "git" /\ cached[k.file] = remote[k.file]
                 \/ k.phase = "put" /\ svcMode = "git" /\ cached[k.file] = remote[k.file] /\ k.sha = remote[k.file]
                 \/ k.phase = "cache" /\ svcMode = "git" /\ remote[k.file] = expected[k.file]
                 \/ k.phase = "mkdir"
                 \/ k.phase = "open" /\ remote[k.file] = Cut
              /\ \A f \in File : pendingWrites[f] = None
              /\ \A f \in File \ {k.file} : InSync(f)
<1>1. PICK c \in Caller : Saving(c)
  BY DEF Undisturbed, NoWork
<1>2. /\ \A f \in File \ {FileOf(call[c].op)} : InSync(f) /\ pendingWrites[f] = None
      /\ Writing(c, FileOf(call[c].op))
  BY <1>1 DEF Undisturbed, SaverInv, Scheduled
<1>3. k.file = FileOf(call[c].op) /\ writes = {k}
  BY <1>2 DEF Writing
<1>4. /\ k.content = expected[k.file] /\ k.waiters = {c} /\ pendingWrites[k.file] = None
      /\ k.live => call[c].op = "flush"
      /\ \/ k.phase = "sha" /\ svcMode = "git" /\ cached[k.file] = remote[k.file]
         \/ k.phase = "put" /\ svcMode = "git" /\ cached[k.file] = remote[k.file] /\ k.sha = remote[k.file]
         \/ k.phase = "cache" /\ svcMode = "git" /\ remote[k.file] = expected[k.file]
         \/ k.phase = "mkdir"
         \/ k.phase = "open" /\ remote[k.file] = Cut
  BY <1>2, <1>3 DEF Writing
<1> QED BY <1>1, <1>2, <1>3, <1>4

(* Data pending are those of the save under way.                           *)
LEMMA OnePending ==
    ASSUME Undisturbed, NEW f \in File, pendingWrites[f] # None
    PROVE  \E c \in Caller :
              /\ Saving(c) /\ f = FileOf(call[c].op) /\ Scheduled(c, f)
              /\ \A g \in File \ {f} : InSync(g) /\ pendingWrites[g] = None
<1>1. PICK c \in Caller : Saving(c)
  BY DEF Undisturbed, NoWork
<1>2. /\ \A g \in File \ {FileOf(call[c].op)} : InSync(g) /\ pendingWrites[g] = None
      /\ Scheduled(c, FileOf(call[c].op)) \/ Writing(c, FileOf(call[c].op))
  BY <1>1 DEF Undisturbed, SaverInv
<1>3. f = FileOf(call[c].op)
  BY <1>2
<1> QED BY <1>1, <1>2, <1>3 DEF Writing
(* A caller's step.                                                        *)
LEMMA CallStepUndisturbed ==
    ASSUME TypedInv, Undisturbed, NEW c \in Caller, CallStep(c)
    PROVE  Undisturbed'
<1> DEFINE f == FileOf(call[c].op)
<1>1. /\ call[c] \in Calls /\ call[c].op \in Op /\ CallOK(c) /\ f \in File
      /\ remote[f] \in Content \cup {None, Cut} /\ cached[f] \in Content \cup {None}
      /\ expected[f] \in Content
  BY CallValues DEF TypedInv, StoreOK
<1>2. call[c].phase \in {"reading", "holding", "checking", "fetched"}
  BY DEF CallStep, ReadFile, FetchServed, FetchCached, CallRefused, AddChecksRepo, PutFindsProject, Save
<1>3. Active(c) /\ ~Saving(c) /\ \A d \in Caller \ {c} : ~Active(d)
  BY <1>2, OthersRest DEF Active, Saving
<1>4. NoWork /\ \A g \in File : InSync(g)
  BY <1>3, NothingUnderWay
<1>5. /\ remote[f] = None => expected[f] = Blank
      /\ remote[f] # None => remote[f] = expected[f]
      /\ remote[f] # Cut
      /\ svcMode = "git" => cached[f] = remote[f]
  BY <1>1, <1>4, Contents DEF InSync
<1>6. call[c].phase # "fetched"
  BY DEF Undisturbed
<1>7. call[c].phase \in {"holding", "checking"} => call[c].copy = expected[f]
  BY DEF Undisturbed
<1>8. Running => svcUp \notin {"down", "killed"}
  BY DEF Running
<1>9. ASSUME NEW k \in Calls, call' = [call EXCEPT ![c] = k], Running,
             k.phase \notin {"saving", "fetched"},
             k.phase \in {"holding", "checking"} => k.copy = expected[FileOf(k.op)],
             UNCHANGED <<svcVars, fileVars, queueVars, storeVars, histVars>>
      PROVE  Undisturbed'
  BY <1>3, <1>8, <1>9, UnsavedStep DEF svcVars, histVars
<1>10. CASE ReadFile(c)
  <2> DEFINE found == IF svcMode = "git" THEN cached[f] ELSE IF remote[f] \in {None, Cut} THEN Blank ELSE remote[f]
             k == [call[c] EXCEPT !.phase = "holding", !.copy = found]
  <2>1. found # None /\ call' = [call EXCEPT ![c] = k] /\ Running
        /\ UNCHANGED <<svcVars, fileVars, queueVars, storeVars, histVars>>
    BY <1>10 DEF ReadFile
  <2>2. found = expected[f]
    BY <1>5, <2>1
  <2> HIDE DEF found
  <2>3. k \in Calls /\ k.op = call[c].op /\ k.phase = "holding" /\ k.copy = found
    BY <1>1, <2>2 DEF Calls, Phase
  <2> HIDE DEF k
  <2> QED BY <1>9, <2>1, <2>2, <2>3
<1>11. CASE FetchServed(c)
  <2>1. remote[f] = None /\ Running /\ UNCHANGED <<svcVars, fileVars, queueVars, storeVars, histVars>>
    BY <1>5, <1>11 DEF FetchServed
  <2> DEFINE k == [call[c] EXCEPT !.phase = "holding", !.copy = Blank]
  <2>2. call' = [call EXCEPT ![c] = k]
    BY <1>11, <2>1 DEF FetchServed
  <2>3. k \in Calls /\ k.op = call[c].op /\ k.phase = "holding" /\ k.copy = Blank
    BY <1>1, Contents DEF Calls, Phase
  <2> HIDE DEF k
  <2> QED BY <1>5, <1>9, <2>1, <2>2, <2>3
<1>12. CASE FetchCached(c)
  BY <1>6, <1>12 DEF FetchCached
<1>13. CASE CallRefused(c)
  <2> DEFINE k == [call[c] EXCEPT !.phase = "ok", !.copy = None]
  <2>1. call' = [call EXCEPT ![c] = k] /\ Running /\ UNCHANGED <<svcVars, fileVars, queueVars, storeVars, histVars>>
    BY <1>13 DEF CallRefused
  <2>2. k \in Calls /\ k.phase = "ok"
    BY <1>1 DEF Calls, Phase
  <2> HIDE DEF k
  <2> QED BY <1>9, <2>1, <2>2
<1>14. CASE AddChecksRepo(c)
  <2>1. PICK exists \in BOOLEAN :
           call' = [call EXCEPT ![c].phase = IF exists THEN "checking" ELSE "failed",
                                ![c].copy = IF exists THEN @ ELSE None]
    BY <1>14 DEF AddChecksRepo
  <2> DEFINE k == [call[c] EXCEPT !.phase = IF exists THEN "checking" ELSE "failed", !.copy = IF exists THEN @ ELSE None]
  <2>2. call[c].phase = "holding" /\ call' = [call EXCEPT ![c] = k] /\ Running
        /\ UNCHANGED <<svcVars, fileVars, queueVars, storeVars, histVars>>
    BY <1>14, <2>1 DEF AddChecksRepo
  <2>3. k \in Calls /\ k.op = call[c].op /\ (k.phase = "checking" => k.copy = call[c].copy) /\ k.phase \in {"checking", "failed"}
    BY <1>1 DEF Calls, Phase
  <2> HIDE DEF k
  <2> QED BY <1>7, <1>9, <2>2, <2>3
<1>15. CASE PutFindsProject(c)
  <2> DEFINE k == [op |-> "status", phase |-> "reading", copy |-> None]
  <2>1. call' = [call EXCEPT ![c] = k] /\ Running /\ UNCHANGED <<svcVars, fileVars, queueVars, storeVars, histVars>>
    BY <1>15 DEF PutFindsProject
  <2>2. k \in Calls /\ k.phase = "reading"
    BY DEF Calls, Phase, Op
  <2> HIDE DEF k
  <2> QED BY <1>9, <2>1, <2>2
<1>16. CASE Save(c)
  <2> DEFINE op == call[c].op
             data == Changed(op, c, call[c].copy)
             k == [call[c] EXCEPT !.phase = "saving", !.copy = None]
  <2>1. /\ call[c].phase \in {"holding", "checking"} /\ op # "put" /\ call' = [call EXCEPT ![c] = k]
        /\ expected' = [expected EXCEPT ![f] = Changed(op, c, expected[f])]
        /\ cleaned' = (op = "forget" \/ (cleaned /\ op # "flush"))
        /\ UNCHANGED <<svcVars, fileVars, storeVars>> /\ Running
    BY <1>16 DEF Save
  <2>2. data = Changed(op, c, expected[f])
    BY <1>7, <2>1
  <2>3. expected'[f] = data /\ \A g \in File \ {f} : expected'[g] = expected[g]
    BY <1>1, <2>1, <2>2 DEF TypedInv, StoreOK
  <2>4. k.phase = "saving" /\ k.op = op /\ call'[c] = k /\ \A d \in Caller \ {c} : call'[d] = call[d]
    BY <1>1, <2>1 DEF Calls, TypedInv, CallsOK
  <2> HIDE DEF k
  <2>5. FileOf(call'[c].op) = f /\ Saving(c)' /\ call'[c].op = op
    BY <2>4 DEF Saving
  <2>6. \A d \in Caller \ {c} : ~Active(d)' /\ ~Saving(d)' /\ call'[d].phase \notin {"fetched", "holding", "checking"}
    BY <1>3, <2>4 DEF Active, Saving
  <2>7. \A g \in File \ {f} : InSync(g)'
    BY <1>4, <2>1, <2>3, StaysInSync DEF svcVars, fileVars
  <2>8. ASSUME svcMode = "git"
        PROVE  Scheduled(c, f)' /\ \A g \in File \ {f} : pendingWrites'[g] = None
    <3>1. writes' = {} /\ Schedule(c, f, data, op = "flush")
      BY <1>4, <1>16, <2>8 DEF Save, NoWork
    <3>2. pendingWrites' = [pendingWrites EXCEPT ![f] = [content |-> data, live |-> op = "flush", waiters |-> {c}]]
      BY <1>1, <1>4, <3>1 DEF Schedule, NoWork
    <3>3. pendingWrites'[f] = [content |-> data, live |-> op = "flush", waiters |-> {c}]
          /\ \A g \in File \ {f} : pendingWrites'[g] = None
      BY <1>1, <1>4, <3>2 DEF NoWork, TypedInv, QueueOK
    <3>4. pendingWrites'[f].content = data /\ pendingWrites'[f].waiters = {c} /\ pendingWrites'[f].live = (op = "flush")
      BY <3>3
    <3>5. pendingWrites'[f] # None
      <4>1. data \in Content
        BY <1>1, <1>3, <2>1, <2>2, ChangedContent DEF CallOK, Caller, TypedInv
      <4> HIDE DEF data
      <4>2. [content |-> data, live |-> op = "flush", waiters |-> {c}] \in PendingRecords
        BY <4>1 DEF PendingRecords
      <4> QED BY <3>3, <4>2, MarkAssumption
    <3>6. svcMode' = "git" /\ cached'[f] = remote'[f]
      BY <1>5, <2>1, <2>8 DEF svcVars, fileVars
    <3> HIDE DEF data
    <3>7. Scheduled(c, f)'
      BY <2>3, <2>5, <3>1, <3>4, <3>5, <3>6 DEF Scheduled
    <3> QED BY <3>3, <3>7
  <2>9. ASSUME svcMode # "git"
        PROVE  Writing(c, f)' /\ \A g \in File : pendingWrites'[g] = None
    <3> DEFINE new == [file |-> f, content |-> data, sha |-> None, phase |-> "mkdir",
                       waiters |-> {c}, live |-> op = "flush", awaited |-> FALSE]
    <3>1. writes' = {new} /\ UNCHANGED pendingWrites
      BY <1>4, <1>16, <2>9 DEF Save, WriteLocal, NoWork
    <3>2. new.file = f /\ new.content = data /\ new.waiters = {c} /\ new.phase = "mkdir" /\ new.live = (op = "flush")
      OBVIOUS
    <3>3. \A g \in File : pendingWrites'[g] = None
      BY <1>4, <3>1 DEF NoWork
    <3> HIDE DEF new, data
    <3>4. Writing(c, f)'
      BY <1>1, <2>3, <2>5, <3>1, <3>2, <3>3 DEF Writing
    <3> QED BY <3>3, <3>4
  <2>10. SaverInv'
    <3>1. \A d \in Caller : Saving(d)' => d = c
      BY <2>6
    <3>2. /\ \A g \in File \ {f} : InSync(g)' /\ pendingWrites'[g] = None
          /\ Scheduled(c, f)' \/ Writing(c, f)'
      BY <2>7, <2>8, <2>9
    <3> QED BY <2>5, <3>1, <3>2 DEF SaverInv
  <2>11. /\ op = "flush" => Stored' /\ ~cleaned'
         /\ ~dirty' /\ ~cleaned' => Stored'
    <3>1. "enrichment" \in File /\ expected["enrichment"] \in Content
      BY DEF File, TypedInv, StoreOK
    <3>2. CASE op = "flush"
      <4>1. f = "enrichment" /\ data = FlushedProject(expected[f])
        BY <2>2, <3>2 DEF FileOf, ConfigOp, Changed
      <4>2. expected'["enrichment"].issues = memory.issues /\ expected'["enrichment"].coordinator = memory.coordinator
        BY <2>3, <3>1, <4>1, ZenonT(30) DEF FlushedProject, Content
      <4>3. Stored' /\ ~cleaned'
        BY <2>1, <3>2, <4>2 DEF Stored, storeVars
      <4> QED BY <4>3
    <3>3. CASE op = "forget"
      BY <2>1, <3>3
    <3>4. CASE op \notin {"flush", "forget"}
      <4>1. expected'["enrichment"].issues = expected["enrichment"].issues
            /\ expected'["enrichment"].coordinator = expected["enrichment"].coordinator
        <5>1. CASE op \in ConfigOp
          BY <2>3, <3>1, <5>1 DEF FileOf
        <5>2. CASE op = "status"
          <6>1. f = "enrichment" /\ data = PutProject(c, expected[f])
            BY <2>2, <5>2 DEF FileOf, ConfigOp, Changed
          <6>2. expected'["enrichment"] = PutProject(c, expected["enrichment"])
            BY <2>3, <6>1
          <6> QED BY <3>1, <6>2 DEF PutProject, Content
        <5> QED BY <1>1, <3>4, <5>1, <5>2 DEF Op
      <4>2. ~dirty /\ ~cleaned => Stored
        BY DEF Undisturbed
      <4> QED BY <2>1, <3>4, <4>1, <4>2 DEF Stored, storeVars
    <3> QED BY <3>2, <3>3, <3>4
  <2>12. svcUp' \notin {"down", "killed"}
    BY <1>8, <2>1 DEF svcVars
  <2>13. call'[c].phase = "saving"
    BY <2>4
  <2> HIDE DEF op, data
  <2>14. \A d, e \in Caller : Active(d)' /\ Active(e)' => d = e
    BY <2>6
  <2>15. \A d \in Caller : /\ call'[d].phase # "fetched"
                           /\ call'[d].phase \in {"holding", "checking"} => call'[d].copy = expected'[FileOf(call'[d].op)]
                           /\ Saving(d)' /\ call'[d].op = "flush" => Stored' /\ ~cleaned'
    BY <2>5, <2>6, <2>11, <2>13
  <2>16. ~((\A d \in Caller : ~Saving(d))')
    BY <2>5
  <2> QED BY <2>10, <2>11, <2>12, <2>14, <2>15, <2>16 DEF Undisturbed
<1> QED BY <1>10, <1>11, <1>12, <1>13, <1>14, <1>15, <1>16 DEF CallStep
(* A step of the write under way.                                          *)
LEMMA WriteStepUndisturbed ==
    ASSUME TypedInv, Undisturbed, NEW k \in writes, WriteStep(k)
    PROVE  Undisturbed'
<1> DEFINE f == k.file
<1>1. PICK c \in Caller :
         /\ Saving(c) /\ f = FileOf(call[c].op) /\ Writing(c, f)
         /\ writes = {k} /\ k.content = expected[f] /\ k.waiters = {c}
         /\ k.live => call[c].op = "flush"
         /\ \/ k.phase = "sha" /\ svcMode = "git" /\ cached[f] = remote[f]
            \/ k.phase = "put" /\ svcMode = "git" /\ cached[f] = remote[f] /\ k.sha = remote[f]
            \/ k.phase = "cache" /\ svcMode = "git" /\ remote[f] = expected[f]
            \/ k.phase = "mkdir"
            \/ k.phase = "open" /\ remote[f] = Cut
         /\ \A g \in File : pendingWrites[g] = None
         /\ \A g \in File \ {f} : InSync(g)
  BY OneWrite
<1>2. /\ k \in WriteRecords /\ f \in File /\ expected[f] \in Content
      /\ remote[f] \in Content \cup {None, Cut} /\ cached[f] \in Content \cup {None}
      /\ svcMode = "git" => remote[f] # Cut /\ k.phase \notin {"mkdir", "open"}
  BY DEF TypedInv, QueueOK, FilesOK, StoreOK, WriteRecords
<1>3. svcUp \notin {"down", "killed"}
  BY DEF WriteStep, WriteSha, PutAccepted, PutConflicts, WriteRefresh, WriteCached, PutRejected, LocalOpen, LocalFill, Running
<1>4. ASSUME NEW m, call' = call, writes' = {m}, m.file = f, m.content = k.content, m.waiters = k.waiters,
             m.live => k.live, pendingWrites' = pendingWrites, cached' = cached,
             \A g \in File \ {f} : remote'[g] = remote[g],
             UNCHANGED <<svcVars, storeVars, savedVars>>,
             \/ m.phase = "put" /\ svcMode = "git" /\ cached[f] = remote[f] /\ m.sha = remote[f] /\ remote' = remote
             \/ m.phase = "cache" /\ svcMode = "git" /\ remote'[f] = expected[f]
             \/ m.phase = "open" /\ remote'[f] = Cut
      PROVE  Undisturbed'
  <2>1. \A g \in File \ {f} : InSync(g)' /\ pendingWrites'[g] = None
    BY <1>1, <1>4, StaysInSync DEF svcVars, savedVars
  <2>2. FileOf(call'[c].op) = f /\ expected' = expected /\ svcMode' = svcMode
    BY <1>1, <1>4 DEF svcVars, savedVars
  <2>3. Writing(c, FileOf(call[c].op))'
    BY <1>1, <1>2, <1>4, <2>2 DEF Writing
  <2> QED BY <1>1, <1>3, <1>4, <2>1, <2>3, SaverStep DEF svcVars
<1>5. CASE WriteSha(k)
  <2> DEFINE m == [k EXCEPT !.phase = "put", !.sha = IF cached[f] # None THEN cached[f] ELSE remote[f]]
  <2>1. writes' = {m} /\ k.phase = "sha" /\ UNCHANGED <<svcVars, fileVars, storeVars, histVars, pendingWrites, call>>
    BY <1>1, <1>5 DEF WriteSha, Move
  <2>2. cached[f] = remote[f] /\ svcMode = "git"
    BY <1>1, <2>1
  <2>3. /\ m.phase = "put" /\ m.sha = remote[f] /\ m.file = f /\ m.content = k.content
        /\ m.waiters = k.waiters /\ m.live = k.live
    BY <1>2, <2>2 DEF WriteRecords
  <2> HIDE DEF m
  <2> QED BY <1>4, <2>1, <2>2, <2>3 DEF fileVars, histVars
<1>6. CASE PutAccepted(k)
  <2> DEFINE m == [k EXCEPT !.phase = "cache"]
  <2>1. /\ writes' = {m} /\ remote' = [remote EXCEPT ![f] = k.content] /\ k.phase \in {"put", "again"}
        /\ UNCHANGED <<svcVars, storeVars, histVars, cached, pendingWrites, call>>
    BY <1>1, <1>6 DEF PutAccepted, Move
  <2>2. svcMode = "git" /\ remote'[f] = expected[f] /\ \A g \in File \ {f} : remote'[g] = remote[g]
    BY <1>1, <1>2, <2>1 DEF TypedInv, FilesOK
  <2>3. m.phase = "cache" /\ m.file = f /\ m.content = k.content /\ m.waiters = k.waiters /\ m.live = k.live
    BY <1>2 DEF WriteRecords
  <2> HIDE DEF m
  <2> QED BY <1>4, <2>1, <2>2, <2>3 DEF histVars
<1>7. CASE PutConflicts(k)
  BY <1>1, <1>7 DEF PutConflicts
<1>8. CASE WriteRefresh(k)
  BY <1>1, <1>8 DEF WriteRefresh
<1>9. CASE WriteCached(k)
  <2>1. k.phase = "cache" /\ cached' = [cached EXCEPT ![f] = k.content] /\ Answer({c}, TRUE)
        /\ writes' = {} /\ UNCHANGED <<svcVars, histVars, remote, pendingWrites, memory>>
    BY <1>1, <1>9 DEF WriteCached
  <2>2. cached'[f] = expected[f] /\ remote[f] = expected[f] /\ \A g \in File \ {f} : cached'[g] = cached[g]
    BY <1>1, <1>2, <2>1 DEF TypedInv, FilesOK
  <2>3. InSync(f)'
    BY <1>2, <2>1, <2>2, Contents DEF InSync, histVars, savedVars
  <2>4. \A g \in File \ {f} : InSync(g)'
    BY <1>1, <2>1, <2>2, StaysInSync DEF svcVars, histVars, savedVars
  <2>5. NoWork'
    BY <1>1, <2>1 DEF NoWork
  <2> QED BY <1>1, <1>3, <2>1, <2>3, <2>4, <2>5, SaverAnswered DEF svcVars, histVars
<1>10. CASE PutRejected(k)
  BY <1>1, <1>10 DEF PutRejected
<1>11. CASE LocalOpen(k)
  <2> DEFINE m == [k EXCEPT !.phase = "open", !.live = FALSE]
  <2>1. /\ writes' = {m} /\ remote' = [remote EXCEPT ![f] = Cut]
        /\ UNCHANGED <<svcVars, storeVars, histVars, cached, pendingWrites, call>>
    BY <1>1, <1>11 DEF LocalOpen, Move
  <2>2. remote'[f] = Cut /\ \A g \in File \ {f} : remote'[g] = remote[g]
    BY <1>2, <2>1 DEF TypedInv, FilesOK
  <2>3. m.phase = "open" /\ m.file = f /\ m.content = k.content /\ m.waiters = k.waiters /\ (m.live => k.live)
    BY <1>2 DEF WriteRecords
  <2> HIDE DEF m
  <2> QED BY <1>4, <2>1, <2>2, <2>3 DEF histVars
<1>12. CASE LocalFill(k)
  <2>1. k.phase = "open" /\ remote[f] = Cut /\ svcMode # "git"
    BY <1>1, <1>2, <1>12 DEF LocalFill
  <2>2. /\ remote' = [remote EXCEPT ![f] = k.content] /\ Answer({c}, TRUE)
        /\ writes' = {} /\ UNCHANGED <<svcVars, histVars, cached, pendingWrites, memory>>
    BY <1>1, <1>12, <2>1 DEF LocalFill
  <2>3. remote'[f] = expected[f] /\ \A g \in File \ {f} : remote'[g] = remote[g]
    BY <1>1, <1>2, <2>2 DEF TypedInv, FilesOK
  <2>4. InSync(f)'
    BY <1>2, <2>1, <2>2, <2>3, Contents DEF InSync, svcVars, histVars, savedVars
  <2>5. \A g \in File \ {f} : InSync(g)'
    BY <1>1, <2>2, <2>3, StaysInSync DEF svcVars, histVars, savedVars
  <2>6. NoWork'
    BY <1>1, <2>2 DEF NoWork
  <2> QED BY <1>1, <1>3, <2>2, <2>4, <2>5, <2>6, SaverAnswered DEF svcVars, histVars
<1> QED BY <1>5, <1>6, <1>7, <1>8, <1>9, <1>10, <1>11, <1>12 DEF WriteStep

(* Calls, files and writes stay: what is under way stays.                  *)
LEMMA SameWork ==
    ASSUME Undisturbed, UNCHANGED <<svcMode, fileVars, queueVars, call, savedVars>>,
           svcUp' \in {"down", "killed"} => Quiet,
           \A c \in Caller : Saving(c) /\ call[c].op = "flush" => Stored',
           ~dirty' /\ ~cleaned' => Stored'
    PROVE  Undisturbed'
<1>1. \A c \in Caller : (Active(c)' <=> Active(c)) /\ (Saving(c)' <=> Saving(c))
  BY DEF Active, Saving
<1>2. \A f \in File : InSync(f)' <=> InSync(f)
  BY DEF InSync, fileVars, savedVars
<1>3. NoWork' <=> NoWork
  BY DEF NoWork, queueVars
<1>4. \A c \in Caller : \A f \in File : (Scheduled(c, f)' <=> Scheduled(c, f)) /\ (Writing(c, f)' <=> Writing(c, f))
  BY DEF Scheduled, Writing, queueVars, fileVars, savedVars
<1>5. \A c \in Caller : FileOf(call[c].op) \in File
  BY DEF FileOf, File
<1>6. SaverInv'
  <2> SUFFICES ASSUME NEW c \in Caller, Saving(c)'
               PROVE  /\ \A f \in File \ {FileOf(call'[c].op)} : InSync(f)' /\ pendingWrites'[f] = None
                      /\ (Scheduled(c, FileOf(call[c].op)) \/ Writing(c, FileOf(call[c].op)))'
    BY DEF SaverInv
  <2>1. FileOf(call'[c].op) = FileOf(call[c].op) /\ pendingWrites' = pendingWrites
    BY DEF queueVars
  <2>2. /\ \A f \in File \ {FileOf(call[c].op)} : InSync(f) /\ pendingWrites[f] = None
        /\ Scheduled(c, FileOf(call[c].op)) \/ Writing(c, FileOf(call[c].op))
    BY <1>1 DEF Undisturbed, SaverInv
  <2>3. (Scheduled(c, FileOf(call[c].op)) \/ Writing(c, FileOf(call[c].op)))'
    BY <2>1, <2>2 DEF Scheduled, Writing, queueVars, fileVars, savedVars
  <2> QED BY <1>2, <2>1, <2>2, <2>3
<1>7. svcUp' \in {"down", "killed"} => Quiet'
  BY <1>1 DEF Quiet
<1>8. (\A c \in Caller : ~Saving(c))' => NoWork' /\ \A f \in File : InSync(f)'
  BY <1>1, <1>2, <1>3 DEF Undisturbed
<1>9. \A c \in Caller : /\ call'[c].phase # "fetched"
                        /\ call'[c].phase \in {"holding", "checking"} => call'[c].copy = expected'[FileOf(call'[c].op)]
                        /\ Saving(c)' /\ call'[c].op = "flush" => Stored' /\ ~cleaned'
  BY <1>1 DEF Undisturbed, savedVars
<1>10. \A c, d \in Caller : Active(c)' /\ Active(d)' => c = d
  BY <1>1 DEF Undisturbed
<1> QED BY <1>6, <1>7, <1>8, <1>9, <1>10 DEF Undisturbed

(* While no flush is under way nothing written holds the store's array.    *)
LEMMA NothingLive ==
    ASSUME TypedInv, Undisturbed, ~FlushActive
    PROVE  /\ \A c \in Caller : Saving(c) => call[c].op # "flush"
           /\ \A f \in File : pendingWrites[f] # None => ~pendingWrites[f].live
           /\ \A k \in writes : ~k.live
<1>1. ASSUME NEW c \in Caller, Saving(c) PROVE call[c].op # "flush"
  <2>1. Active(c) /\ CallOK(c)
    BY <1>1 DEF Saving, Active, TypedInv, CallsOK
  <2>2. c \notin Flush
    BY <2>1 DEF FlushActive
  <2> QED BY <2>1, <2>2 DEF CallOK, Caller
<1>2. ASSUME NEW f \in File, pendingWrites[f] # None PROVE ~pendingWrites[f].live
  BY <1>1, <1>2, OnePending DEF Scheduled
<1>3. ASSUME NEW k \in writes PROVE ~k.live
  BY <1>1, OneWrite
<1> QED BY <1>1, <1>2, <1>3
(* Nothing but a disturbance breaks the invariant of undisturbed runs.     *)
LEMMA UndisturbedStep ==
    ASSUME TypedInv, Undisturbed, [StateNext]_stVars, ~disturbed'
    PROVE  Undisturbed'
<1>0. FilesOK /\ QueueOK /\ CallsOK /\ StoreOK /\ ServiceOK
  BY DEF TypedInv
<1>a. \A c \in Caller : call[c] \in Calls /\ CallOK(c)
  BY <1>0 DEF CallsOK
<1>b. ~StFault
  BY DEF StFault
<1>c. ASSUME Quiet PROVE \A c \in Caller : ~Active(c) /\ ~Saving(c)
  BY <1>c DEF Quiet, Saving, Active
<1>1. ASSUME NEW r \in Request, NEW op \in ConfigOp, RequestStart(r, op) PROVE Undisturbed'
  <2> DEFINE k == [op |-> op, phase |-> "reading", copy |-> None]
  <2>1. call' = [call EXCEPT ![r] = k] /\ r \in Caller /\ Quiet /\ svcUp' = "up"
        /\ UNCHANGED <<svcVars, fileVars, queueVars, storeVars, savedVars>>
    BY <1>1 DEF RequestStart, Caller, svcVars
  <2>2. k \in Calls /\ k.phase = "reading"
    BY DEF Calls, Op, Phase
  <2> HIDE DEF k
  <2> QED BY <1>c, <2>1, <2>2, UnsavedStep DEF svcVars
<1>2. ASSUME NEW c \in Flush, FlushStart(c) PROVE Undisturbed'
  <2> DEFINE k == [op |-> "flush", phase |-> "reading", copy |-> None]
  <2>1. call' = [call EXCEPT ![c] = k] /\ c \in Caller /\ Quiet /\ svcUp' = "up"
        /\ UNCHANGED <<svcVars, fileVars, queueVars, storeVars, savedVars>>
    BY <1>2 DEF FlushStart, Caller, svcVars
  <2>2. k \in Calls /\ k.phase = "reading"
    BY DEF Calls, Op, Phase
  <2> HIDE DEF k
  <2> QED BY <1>c, <2>1, <2>2, UnsavedStep DEF svcVars
<1>3. ASSUME NEW c \in Caller, CallStep(c) \/ FetchFails(c) PROVE Undisturbed'
  BY <1>b, <1>3, CallStepUndisturbed DEF FetchFails
<1>4. ASSUME NEW f \in File, WriteBegin(f) PROVE Undisturbed'
  <2>1. PICK c \in Caller :
           /\ Saving(c) /\ f = FileOf(call[c].op) /\ Scheduled(c, f)
           /\ \A g \in File \ {f} : InSync(g) /\ pendingWrites[g] = None
    BY <1>4, OnePending DEF WriteBegin
  <2> DEFINE m == Begun(f, FALSE)
  <2>2. /\ writes' = {m} /\ pendingWrites' = [pendingWrites EXCEPT ![f] = None] /\ svcUp' = svcUp
        /\ UNCHANGED <<svcVars, fileVars, storeVars, histVars, call>> /\ svcUp \notin {"down", "killed"}
    BY <1>4, <2>1 DEF WriteBegin, Scheduled, svcVars, Running
  <2>3. m.file = f /\ m.content = expected[f] /\ m.waiters = {c} /\ m.phase = "sha" /\ ~m.live
    BY <2>1 DEF Begun, Scheduled
  <2> HIDE DEF m
  <2>4. \A g \in File : pendingWrites'[g] = None
    BY <1>0, <2>1, <2>2 DEF QueueOK
  <2>5. \A g \in File \ {f} : InSync(g)'
    BY <2>1, <2>2, StaysInSync DEF svcVars, fileVars, histVars, savedVars
  <2>6. FileOf(call'[c].op) = f
    BY <2>1, <2>2
  <2>7. svcMode' = "git" /\ cached'[f] = remote'[f] /\ expected' = expected
    BY <2>1, <2>2 DEF Scheduled, svcVars, fileVars, histVars, savedVars
  <2>8. Writing(c, FileOf(call[c].op))'
    BY <2>2, <2>3, <2>4, <2>6, <2>7 DEF Writing
  <2> QED BY <2>1, <2>2, <2>4, <2>5, <2>8, SaverStep DEF histVars
<1>5. ASSUME NEW f \in File, EditedElsewhere(f) PROVE Undisturbed'
  BY <1>b, <1>5 DEF EditedElsewhere
<1>6. ASSUME NEW k \in writes, WriteStep(k) \/ WriteFails(k) PROVE Undisturbed'
  BY <1>b, <1>6, WriteStepUndisturbed DEF WriteFails
<1>7. CASE UpdateIssue
  <2>1. ~FlushActive /\ dirty' = TRUE /\ svcUp' = "up" /\ UNCHANGED <<svcMode, fileVars, call, savedVars>>
        /\ SeeIssue(memory.issues + 1)
    BY <1>7 DEF UpdateIssue, svcVars
  <2>2. /\ \A c \in Caller : Saving(c) => call[c].op # "flush"
        /\ \A f \in File : pendingWrites[f] # None => ~pendingWrites[f].live
        /\ \A k \in writes : ~k.live
    BY <2>1, NothingLive
  <2>3. pendingWrites' = [f \in File |-> pendingWrites[f]]
    BY <2>1, <2>2 DEF SeeIssue
  <2>4. pendingWrites' = pendingWrites
    BY <1>0, <2>3 DEF QueueOK
  <2>5. writes' = {k : k \in writes}
    BY <2>1, <2>2 DEF SeeIssue
  <2>6. UNCHANGED queueVars
    BY <2>4, <2>5 DEF queueVars
  <2> QED BY <2>1, <2>2, <2>6, SameWork
<1>8. CASE SetIssues
  <2>1. ~FlushActive /\ dirty' = TRUE /\ svcUp' = "up" /\ UNCHANGED <<svcMode, fileVars, call, savedVars>>
    BY <1>8 DEF SetIssues, svcVars
  <2>2. /\ \A c \in Caller : Saving(c) => call[c].op # "flush"
        /\ \A f \in File : pendingWrites[f] # None => ~pendingWrites[f].live
        /\ \A k \in writes : ~k.live
    BY <2>1, NothingLive
  <2>3. ASSUME NEW r \in PendingRecords, ~r.live PROVE [r EXCEPT !.live = FALSE] = r
    BY <2>3 DEF PendingRecords
  <2>4. ASSUME NEW k \in WriteRecords, ~k.live PROVE [k EXCEPT !.live = FALSE] = k
    BY <2>4 DEF WriteRecords
  <2>5. pendingWrites' = [f \in File |-> pendingWrites[f]]
    BY <1>0, <1>8, <2>2, <2>3 DEF SetIssues, QueueOK
  <2>6. pendingWrites' = pendingWrites
    BY <1>0, <2>5 DEF QueueOK
  <2>7. \A k \in writes : [k EXCEPT !.live = FALSE] = k
    BY <1>0, <2>2, <2>4 DEF QueueOK
  <2>8. writes' = writes
    BY <1>8, <2>7 DEF SetIssues
  <2>9. UNCHANGED queueVars
    BY <2>6, <2>8 DEF queueVars
  <2> QED BY <2>1, <2>2, <2>9, SameWork
<1>9. CASE SetCoordinator
  <2>1. ~FlushActive /\ dirty' = TRUE /\ svcUp' = "up" /\ UNCHANGED <<svcMode, fileVars, queueVars, call, savedVars>>
    BY <1>9 DEF SetCoordinator, svcVars
  <2>2. \A c \in Caller : Saving(c) => call[c].op # "flush"
    BY <2>1, NothingLive
  <2> QED BY <2>1, <2>2, SameWork
<1>10. CASE CloseStart
  <2>1. Quiet /\ svcUp' = "closing" /\ UNCHANGED <<fileVars, queueVars, storeVars, svcMode, savedVars>>
    BY <1>10 DEF CloseStart
  <2>2. CASE dirty
    <3>1. PICK c \in Flush : call' = [call EXCEPT ![c].phase = "reading"]
      BY <1>10, <2>2 DEF CloseStart
    <3> DEFINE k == [call[c] EXCEPT !.phase = "reading"]
    <3>2. c \in Caller /\ call' = [call EXCEPT ![c] = k]
      BY <3>1 DEF Caller
    <3>3. k \in Calls /\ k.phase = "reading"
      BY <1>a, <3>2 DEF Calls, Phase
    <3> HIDE DEF k
    <3> QED BY <1>c, <2>1, <3>2, <3>3, UnsavedStep
  <2>3. CASE ~dirty
    <3>1. call' = call
      BY <1>10, <2>3 DEF CloseStart
    <3>2. \A c \in Caller : ~Saving(c)
      BY <1>c, <2>1
    <3>3. ~dirty' /\ ~cleaned' => Stored'
      BY <2>1 DEF Undisturbed, Stored, storeVars, savedVars
    <3> QED BY <2>1, <3>1, <3>2, <3>3, SameWork
  <2> QED BY <2>2, <2>3
<1>11. CASE CloseState
  <2>1. /\ writes' = writes \cup {Begun(f, TRUE) : f \in {g \in File : pendingWrites[g] # None}}
        /\ pendingWrites' = [f \in File |-> None] /\ svcUp' = "flushing"
        /\ UNCHANGED <<fileVars, storeVars, histVars, svcMode, call>>
    BY <1>11 DEF CloseState
  <2>2. CASE \A f \in File : pendingWrites[f] = None
    <3>1. writes' = writes
      BY <2>1, <2>2
    <3>2. pendingWrites' = pendingWrites
      BY <1>0, <2>1, <2>2 DEF QueueOK
    <3>3. /\ \A c \in Caller : Saving(c) /\ call[c].op = "flush" => Stored'
          /\ ~dirty' /\ ~cleaned' => Stored'
      BY <2>1 DEF Undisturbed, Stored, storeVars, histVars, savedVars
    <3> QED BY <2>1, <3>1, <3>2, <3>3, SameWork DEF queueVars, histVars
  <2>3. ASSUME NEW f \in File, pendingWrites[f] # None PROVE Undisturbed'
    <3>1. PICK c \in Caller :
             /\ Saving(c) /\ f = FileOf(call[c].op) /\ Scheduled(c, f)
             /\ \A g \in File \ {f} : InSync(g) /\ pendingWrites[g] = None
      BY <2>3, OnePending
    <3> DEFINE m == Begun(f, TRUE)
    <3>2. writes' = {m}
      BY <2>1, <2>3, <3>1 DEF Scheduled
    <3>3. m.file = f /\ m.content = expected[f] /\ m.waiters = {c} /\ m.phase = "sha" /\ ~m.live
      BY <3>1 DEF Begun, Scheduled
    <3> HIDE DEF m
    <3>4. \A g \in File : pendingWrites'[g] = None
      BY <2>1
    <3>5. \A g \in File \ {f} : InSync(g)'
      BY <2>1, <3>1, StaysInSync DEF fileVars, histVars, savedVars
    <3>6. FileOf(call'[c].op) = f
      BY <2>1, <3>1
    <3>7. svcMode' = "git" /\ cached'[f] = remote'[f] /\ expected' = expected
      BY <2>1, <3>1 DEF Scheduled, fileVars, histVars, savedVars
    <3>8. Writing(c, FileOf(call[c].op))'
      BY <3>2, <3>3, <3>4, <3>6, <3>7 DEF Writing
    <3> QED BY <2>1, <3>1, <3>4, <3>5, <3>8, SaverStep DEF histVars
  <2> QED BY <2>2, <2>3
<1>12. CASE CloseDone
  <2>1. Quiet /\ Stopped
    BY <1>12 DEF CloseDone
  <2>2. \A c \in Caller : ~Active(c) /\ ~Saving(c)
    BY <1>c, <2>1
  <2>3. \A f \in File : InSync(f)
    BY <2>2 DEF Undisturbed
  <2>4. \A f \in File : InSync(f)'
    BY <2>1, <2>3, StaysInSync DEF Stopped, fileVars, savedVars
  <2>5. NoWork'
    BY <2>1 DEF Stopped, NoWork
  <2>6. \A c \in Caller : call'[c].phase \in {"idle", "ok", "failed"}
    <3>1. Resting.phase = "idle"
      BY DEF Resting
    <3> SUFFICES ASSUME NEW c \in Caller PROVE call'[c].phase \in {"idle", "ok", "failed"}
      OBVIOUS
    <3>2. CASE c \in Flush
      BY <2>1, <3>1, <3>2 DEF Stopped
    <3>3. CASE c \notin Flush
      BY <2>1, <2>2, <3>3 DEF Stopped, Active
    <3> QED BY <3>2, <3>3
  <2>7. \A c \in Caller : ~Active(c)' /\ ~Saving(c)'
    BY <2>6 DEF Active, Saving
  <2>8. ~dirty' /\ ~cleaned' => Stored'
    BY <2>1 DEF Stopped, Undisturbed, Stored, storeVars, savedVars
  <2> QED BY <2>4, <2>5, <2>6, <2>7, <2>8 DEF Undisturbed, SaverInv, Quiet
<1>13. CASE Killed
  BY <1>b, <1>13 DEF Killed
<1>14. ASSUME NEW synced \in BOOLEAN, Restart(synced) PROVE Undisturbed'
  <2>0. synced
    BY <1>b, <1>14 DEF Restart
  <2>1. Quiet /\ svcUp \in {"down", "killed"}
    BY <1>14 DEF Restart, Undisturbed
  <2>2. \A c \in Caller : ~Active(c) /\ ~Saving(c)
    BY <1>c, <2>1
  <2>3. NoWork /\ \A f \in File : InSync(f)
    BY <2>2 DEF Undisturbed
  <2> DEFINE fresh == IF svcMode = "git" THEN [f \in File |-> IF remote[f] # None THEN remote[f] ELSE cached[f]] ELSE cached
             kept == IF svcMode = "git" THEN IF fresh["enrichment"] = None THEN Blank ELSE fresh["enrichment"]
                     ELSE IF remote["enrichment"] \in {None, Cut} THEN Blank ELSE remote["enrichment"]
  <2>4. /\ cached' = fresh /\ memory' = [issues |-> kept.issues, coordinator |-> kept.coordinator] /\ svcUp' = "up"
        /\ UNCHANGED <<queueVars, svcMode, remote, call, expected>>
    BY <1>14, <2>0 DEF Restart
  <2>5. \A f \in File : fresh[f] = cached[f] /\ (svcMode = "git" => fresh[f] = remote[f])
    BY <2>3 DEF InSync
  <2>6. \A f \in File : InSync(f)'
    BY <2>3, <2>4, <2>5, StaysInSync
  <2>7. kept = expected["enrichment"]
    <3>1. "enrichment" \in File
      BY DEF File
    <3>2. InSync("enrichment") /\ expected["enrichment"] \in Content
      BY <1>0, <2>3, <3>1 DEF StoreOK
    <3>3. svcMode = "git" => fresh["enrichment"] = remote["enrichment"]
      BY <2>5, <3>1
    <3> HIDE DEF fresh
    <3> QED BY <3>2, <3>3, Contents DEF InSync
  <2> HIDE DEF fresh, kept
  <2>8. Stored'
    BY <2>4, <2>7 DEF Stored
  <2>9. NoWork'
    BY <2>3, <2>4 DEF NoWork, queueVars
  <2>10. \A c \in Caller : /\ ~Active(c)' /\ ~Saving(c)'
                           /\ call'[c].phase \notin {"fetched", "holding", "checking"}
    BY <2>2, <2>4 DEF Active, Saving
  <2> QED BY <2>4, <2>6, <2>8, <2>9, <2>10 DEF Undisturbed, SaverInv
<1>15. CASE UNCHANGED stVars
  <2>1. /\ \A c \in Caller : Saving(c) /\ call[c].op = "flush" => Stored'
        /\ ~dirty' /\ ~cleaned' => Stored'
    BY <1>15 DEF stVars, Undisturbed, Stored, storeVars, histVars, savedVars
  <2> QED BY <1>15, <2>1, SameWork DEF stVars, svcVars, histVars, Undisturbed
<1> QED BY <1>1, <1>2, <1>3, <1>4, <1>5, <1>6, <1>7, <1>8, <1>9, <1>10, <1>11, <1>12, <1>13, <1>14, <1>15 DEF StateNext

(* A disturbance is remembered.                                            *)
LEMMA DisturbedStays == disturbed /\ [StateNext]_stVars => disturbed'
<1> SUFFICES ASSUME disturbed, StateNext PROVE disturbed'
  BY DEF stVars, histVars
<1>1. ASSUME NEW r \in Request, NEW op \in ConfigOp, RequestStart(r, op) PROVE disturbed'
  BY <1>1 DEF RequestStart
<1>2. ASSUME NEW c \in Flush, FlushStart(c) PROVE disturbed'
  BY <1>2 DEF FlushStart
<1>3. ASSUME NEW c \in Caller, CallStep(c) \/ FetchFails(c) PROVE disturbed'
  BY <1>3 DEF CallStep, ReadFile, FetchServed, FetchCached, CallRefused, AddChecksRepo, PutFindsProject, Save,
              FetchFails, StFault, histVars
<1>4. ASSUME NEW f \in File, WriteBegin(f) \/ EditedElsewhere(f) PROVE disturbed'
  BY <1>4 DEF WriteBegin, EditedElsewhere, StFault, histVars
<1>5. ASSUME NEW k \in writes, WriteStep(k) \/ WriteFails(k) PROVE disturbed'
  BY <1>5 DEF WriteStep, WriteSha, PutAccepted, PutConflicts, WriteRefresh, WriteCached, PutRejected, LocalOpen,
              LocalFill, WriteFails, StFault, histVars
<1>6. CASE UpdateIssue \/ SetIssues \/ SetCoordinator
  BY <1>6 DEF UpdateIssue, SetIssues, SetCoordinator
<1>7. CASE CloseStart \/ CloseState \/ CloseDone \/ Killed
  BY <1>7 DEF CloseStart, CloseState, CloseDone, Killed, StFault, histVars
<1>8. ASSUME NEW synced \in BOOLEAN, Restart(synced) PROVE disturbed'
  BY <1>8 DEF Restart, StFault
<1> QED BY <1>1, <1>2, <1>3, <1>4, <1>5, <1>6, <1>7, <1>8 DEF StateNext

(* While calls do not overlap and nothing fails, at most one save is under *)
(* way, its data are what all saves in turn make of the file, and every    *)
(* other file, the cache and the store agree.                              *)
THEOREM StateInvariant == StateSpec => []StateInv
<1>1. StateInit => StateInv
  BY TypedInit, UndisturbedInit DEF StateInv
<1>2. StateInv /\ [StateNext]_stVars => StateInv'
  BY TypedStep, UndisturbedStep, DisturbedStays DEF StateInv
<1> QED BY <1>1, <1>2, PTL DEF StateSpec

(* While calls do not overlap and nothing fails, the debounced, cached and *)
(* conditionally written files of GitStateManager, and the files of        *)
(* LocalStateManager, behave like files that are updated in place, through *)
(* orderly shutdowns and restarts as well.                                 *)
THEOREM SequentialSavesAreExactHolds == StateSpec => []SequentialSavesAreExact
<1>1. StateInv => SequentialSavesAreExact
  <2> SUFFICES ASSUME TypedInv, Undisturbed, Quiet PROVE
          /\ \A f \in File :
                /\ remote[f] = (IF remote[f] = None THEN None ELSE expected[f])
                /\ remote[f] = None => expected[f] = Blank
                /\ svcMode = "git" => cached[f] = remote[f] /\ pendingWrites[f] = None
          /\ ~dirty /\ ~cleaned =>
                /\ memory.issues = expected["enrichment"].issues
                /\ memory.coordinator = expected["enrichment"].coordinator
    BY DEF StateInv, SequentialSavesAreExact
  <2>1. \A c \in Caller : ~Saving(c)
    BY DEF Quiet, Saving, Active
  <2>2. NoWork /\ \A f \in File : InSync(f)
    BY <2>1 DEF Undisturbed
  <2> QED BY <2>2 DEF NoWork, InSync, Undisturbed, Stored
<1> QED BY <1>1, StateInvariant, PTL
-----------------------------------------------------------------------------
(* The settings. *)

(* A configuration, what a file may hold of one, and a request's next step.*)
Partial(c) == DOMAIN c \subseteq Fields /\ MergeConfig(DefaultLaunchpadConfig, c) \in Configs
PutSteps == {"reset", "switch", "migrate", "swap", "save", "bootstrap", "tunnel", "persist"}
Puts == [nth : Nat, cfg : Configs, next : PutSteps, migrates : Configs \cup {NoConfig},
         tunnel : BOOLEAN, applied : BOOLEAN]

SettingTypes ==
    /\ Partial(file)
    /\ repos \in [Repos -> Configs \cup {NoConfig}] /\ localCopy \in Configs \cup {NoConfig}
    /\ hq \in {"down", "wizard", "up"} /\ service \in Repos \cup {"local"}
    /\ inForce \in Configs /\ puts \subseteq Puts
    /\ wizard.step \in Nat \ {0} /\ wizard.cfg \in Configs
    /\ plain \in BOOLEAN /\ putsSent \in Nat

(* What a start would have in force, given config.json, the repositories   *)
(* and the machine's copy.                                                 *)
Found(fl, rp, lc) ==
    LET local == MergeConfig(DefaultLaunchpadConfig, fl)
    IN ResolveFullLaunchpadConfig(local,
           IF local.stateMode # "git" THEN NoConfig
           ELSE IF rp[local.stateRepo] # NoConfig THEN rp[local.stateRepo] ELSE lc)

AsInForce(found, c) == \A f \in Fields \ {"onboardingComplete"} : found[f] = c[f]

Survives == AsInForce(Found(file, repos, localCopy), inForce)

(* Both say where the settings are kept alike.                             *)
SamePlace(c, d) == c.stateMode = d.stateMode /\ (c.stateMode = "git" => c.stateRepo = d.stateRepo)

(* The settings move to a repository as they are.                          *)
Moving(p) == inForce.stateMode = "local" /\ p.cfg = [inForce EXCEPT !.stateMode = "git"] /\ ~p.tunnel

(* What a request that is alone has reached.                               *)
Reached(p) ==
    \/ p.next = "reset" /\ Survives /\ p.cfg = [LoadLaunchpadConfig EXCEPT !.onboardingComplete = FALSE]
    \/ p.next = "switch" /\ Moving(p)
    \/ p.next = "migrate" /\ Moving(p) /\ p.migrates = inForce
    \/ p.next = "swap" /\ Moving(p) /\ p.migrates = inForce /\ repos[p.cfg.stateRepo] = inForce
    \/ p.next = "save" /\ SamePlace(p.cfg, inForce)
    \/ p.next = "bootstrap" /\ p.cfg.stateMode = "git" /\ SamePlace(p.cfg, inForce) /\ repos[p.cfg.stateRepo] = p.cfg
    \/ p.next = "tunnel" /\ p.applied /\ p.cfg = inForce /\ Survives
    \/ p.next = "persist" /\ p.applied /\ p.cfg = inForce /\ SamePlace(LoadLaunchpadConfig, inForce)

PlainInv ==
    /\ service = IF inForce.stateMode = "git" THEN inForce.stateRepo ELSE "local"
    /\ puts = {} => Survives
    /\ \A p \in puts : puts = {p} /\ Reached(p)

SettingsInv ==
    /\ SettingTypes
    /\ hq # "up" => puts = {}
    /\ hq = "up" /\ plain => PlainInv

(* Configurations field by field.                                          *)
LEMMA FieldNames ==
    Fields = {"stateMode", "stateRepo", "sessionType", "model", "tunnel", "configured", "otel", "onboardingComplete"}
BY DEF Fields, DefaultLaunchpadConfig

(* Every configuration has all the fields.                                 *)
LEMMA ConfigFields == ASSUME NEW c \in Configs PROVE DOMAIN c = Fields
BY FieldNames DEF Configs

(* The defaults are one.                                                   *)
LEMMA DefaultConfig == DefaultLaunchpadConfig \in Configs
BY SettingsAssumption DEF DefaultLaunchpadConfig, Configs

(* No configuration is not one.                                            *)
LEMMA NoConfigIsNone == NoConfig \notin Configs /\ DOMAIN NoConfig = {}
BY DEF NoConfig, Configs

(* Merging nothing changes nothing.                                        *)
LEMMA NothingMerged == ASSUME NEW c \in Configs PROVE MergeConfig(c, NoConfig) = c
BY DEF MergeConfig, Configs, NoConfig

(* Merging a whole configuration replaces all.                             *)
LEMMA AllMerged == ASSUME NEW c \in Configs, NEW d \in Configs PROVE MergeConfig(c, d) = d
BY DEF MergeConfig, Configs

(* A file may hold a whole configuration.                                  *)
LEMMA ConfigIsPartial == ASSUME NEW c \in Configs PROVE Partial(c)
BY ConfigFields, DefaultConfig, AllMerged DEF Partial

(* A file may hold none.                                                   *)
LEMMA NoConfigIsPartial == Partial(NoConfig)
BY NoConfigIsNone, DefaultConfig, NothingMerged DEF Partial

(* The bootstrap file says where the rest is.                              *)
LEMMA Bootstrap ==
    ASSUME NEW c \in Configs, NEW m \in {"local", "git"}, NEW r \in Repos
    PROVE  LET b == [stateMode |-> m, stateRepo |-> r] IN
           /\ MergeConfig(c, b) \in Configs
           /\ MergeConfig(c, b).stateMode = m /\ MergeConfig(c, b).stateRepo = r
           /\ \A f \in Fields \ {"stateMode", "stateRepo"} : MergeConfig(c, b)[f] = c[f]
           /\ DOMAIN b \subseteq Fields
<1>1. MergeConfig(c, [stateMode |-> m, stateRepo |-> r]) \in Configs
  BY DEF MergeConfig, Configs
<1> QED BY <1>1, FieldNames, ConfigFields DEF MergeConfig

(* What a start finds.                                                     *)
LEMMA FoundLocally ==
    ASSUME NEW fl, NEW rp, NEW lc, MergeConfig(DefaultLaunchpadConfig, fl).stateMode # "git"
    PROVE  Found(fl, rp, lc) = MergeConfig(DefaultLaunchpadConfig, fl)
BY DEF Found, ResolveFullLaunchpadConfig

(* In git mode a start finds what the repository or the copy kept.         *)
LEMMA FoundInRepo ==
    ASSUME NEW fl, Partial(fl), NEW rp, NEW lc, NEW kept \in Configs \cup {NoConfig},
           MergeConfig(DefaultLaunchpadConfig, fl).stateMode = "git",
           kept = LET r == MergeConfig(DefaultLaunchpadConfig, fl).stateRepo IN IF rp[r] # NoConfig THEN rp[r] ELSE lc
    PROVE  /\ Found(fl, rp, lc).stateMode = "git"
           /\ Found(fl, rp, lc).stateRepo = MergeConfig(DefaultLaunchpadConfig, fl).stateRepo
           /\ Found(fl, rp, lc) \in Configs
           /\ kept \in Configs => \A f \in Fields \ {"stateMode", "stateRepo"} : Found(fl, rp, lc)[f] = kept[f]
<1> DEFINE local == MergeConfig(DefaultLaunchpadConfig, fl)
           whole == MergeConfig(DefaultLaunchpadConfig, kept)
<1>1. local \in Configs /\ local.stateRepo \in Repos
  BY DEF Partial, Configs
<1>2. whole \in Configs /\ (kept \in Configs => whole = kept)
  BY DefaultConfig, AllMerged, NothingMerged
<1>3. Found(fl, rp, lc) = MergeConfig(whole, [stateMode |-> "git", stateRepo |-> local.stateRepo])
  BY DEF Found, ResolveFullLaunchpadConfig
<1> HIDE DEF local, whole
<1> QED BY <1>1, <1>2, <1>3, Bootstrap DEF local

(* The settings are found where the file says they are.                    *)
LEMMA FoundAsSaved ==
    ASSUME NEW fl, Partial(fl), NEW rp, NEW lc, NEW c \in Configs, NEW r \in Configs,
           MergeConfig(DefaultLaunchpadConfig, fl).stateMode = "git", c.stateMode = "git",
           MergeConfig(DefaultLaunchpadConfig, fl).stateRepo = c.stateRepo, rp[c.stateRepo] = r,
           \A f \in Fields \ {"stateMode", "stateRepo"} : r[f] = c[f]
    PROVE  AsInForce(Found(fl, rp, lc), c)
<1>1. r # NoConfig
  BY NoConfigIsNone
<1>2. /\ Found(fl, rp, lc).stateMode = "git" /\ Found(fl, rp, lc).stateRepo = c.stateRepo
      /\ \A f \in Fields \ {"stateMode", "stateRepo"} : Found(fl, rp, lc)[f] = r[f]
  BY <1>1, FoundInRepo
<1> QED BY <1>2 DEF AsInForce

(* A start finds the place the file names.                                 *)
LEMMA FoundPlace ==
    ASSUME SettingTypes
    PROVE  SamePlace(LoadLaunchpadConfig, Found(file, repos, localCopy)) /\ Found(file, repos, localCopy) \in Configs
<1> DEFINE local == MergeConfig(DefaultLaunchpadConfig, file)
           kept == IF repos[local.stateRepo] # NoConfig THEN repos[local.stateRepo] ELSE localCopy
<1>1. local \in Configs /\ LoadLaunchpadConfig = local /\ Partial(file)
  BY DEF SettingTypes, Partial, LoadLaunchpadConfig
<1>2. CASE local.stateMode = "git"
  <2>1. kept \in Configs \cup {NoConfig}
    BY <1>1 DEF SettingTypes, Configs
  <2> QED BY <1>1, <1>2, <2>1, FoundInRepo DEF SamePlace
<1>3. CASE local.stateMode # "git"
  BY <1>1, <1>3, FoundLocally DEF SamePlace
<1> QED BY <1>2, <1>3

(* What the pages put makes a configuration of the settings in force.      *)
Bodies ==
    HandleStateModeChange \cup HandleValidateRepo \cup HandleCopilotChange
        \cup HandleTunnelModeChange \cup SaveAndFinish

(* A body merged into a configuration gives a configuration.               *)
LEMMA PutConfig ==
    ASSUME NEW c \in Configs, inForce = c, NEW b \in Bodies
    PROVE  MergeConfig(c, b) \in Configs
<1>1. CASE b \in HandleStateModeChange
  <2>1. PICK m \in {"local", "git"} : b = [stateMode |-> m]
    BY <1>1 DEF HandleStateModeChange
  <2> QED BY <2>1 DEF MergeConfig, Configs
<1>2. CASE b \in HandleValidateRepo
  <2>1. PICK r \in Repos : b = [stateRepo |-> r]
    BY <1>2 DEF HandleValidateRepo
  <2> QED BY <2>1 DEF MergeConfig, Configs
<1>3. CASE b \in HandleCopilotChange
  BY <1>3 DEF HandleCopilotChange, MergeConfig, Configs
<1>4. CASE b \in HandleTunnelModeChange
  BY <1>4 DEF HandleTunnelModeChange, MergeConfig, Configs
<1>5. CASE b \in SaveAndFinish
  BY <1>5 DEF SaveAndFinish, MergeConfig, Configs
<1> QED BY <1>1, <1>2, <1>3, <1>4, <1>5 DEF Bodies

(* So does the telemetry switch, which leaves the place alone.             *)
LEMMA OtelConfig ==
    ASSUME NEW c \in Configs, NEW b \in HandleOtelChange
    PROVE  /\ MergeConfig(c, b) \in Configs
           /\ MergeConfig(c, b).stateMode = c.stateMode /\ MergeConfig(c, b).stateRepo = c.stateRepo
<1>1. PICK o \in BOOLEAN : b = [otel |-> o]
  BY DEF HandleOtelChange
<1> QED BY <1>1 DEF MergeConfig, Configs

(* Every step of the wizard leaves a configuration.                        *)
LEMMA WizardConfig ==
    ASSUME NEW c \in Configs, NEW i \in 1 .. Len(DefaultSteps), NEW b \in DefaultSteps[i] \cup {<< >>}
    PROVE  MergeConfig(c, b) \in Configs
<1>1. i \in 1 .. 5
  BY DEF DefaultSteps
<1>2. CASE b = << >>
  BY <1>2, NothingMerged DEF NoConfig
<1>3. CASE b \in StateModeStep
  <2>1. CASE b = [stateMode |-> "local"]
    BY <2>1 DEF MergeConfig, Configs
  <2>2. ASSUME NEW r \in Repos, b = [stateMode |-> "git", stateRepo |-> r] PROVE MergeConfig(c, b) \in Configs
    BY <2>2, Bootstrap
  <2> QED BY <1>3, <2>1, <2>2 DEF StateModeStep
<1>4. CASE b \in CopilotPrefStep
  <2>1. PICK t \in {"sdk", "cli"} : b = [sessionType |-> t]
    BY <1>4 DEF CopilotPrefStep
  <2> QED BY <2>1 DEF MergeConfig, Configs
<1>5. CASE b \in ModelStep
  <2>1. PICK m \in Models : b = [model |-> m]
    BY <1>5 DEF ModelStep
  <2> QED BY <2>1 DEF MergeConfig, Configs
<1>6. CASE b \in DevtunnelStep
  <2>1. CASE b = [tunnel |-> "on-demand", configured |-> FALSE]
    BY <2>1 DEF MergeConfig, Configs
  <2>2. CASE b = [tunnel |-> "always", configured |-> TRUE]
    BY <2>2 DEF MergeConfig, Configs
  <2> QED BY <1>6, <2>1, <2>2 DEF DevtunnelStep
<1>7. CASE b \in OtelStep
  <2>1. CASE b = [otel |-> TRUE]
    BY <2>1 DEF MergeConfig, Configs
  <2> QED BY <1>2, <1>7, <2>1 DEF OtelStep
<1>8. DefaultSteps[i] \in {StateModeStep, CopilotPrefStep, ModelStep, DevtunnelStep, OtelStep}
  BY <1>1 DEF DefaultSteps
<1> QED BY <1>2, <1>3, <1>4, <1>5, <1>6, <1>7, <1>8

(* A request, at first and later.                                          *)
LEMMA InFlightPut ==
    ASSUME SettingTypes, NEW c \in Configs, NEW next \in PutSteps, NEW t \in BOOLEAN
    PROVE  /\ InFlight(c, next, t) \in Puts
           /\ InFlight(c, next, t).cfg = c /\ InFlight(c, next, t).next = next /\ InFlight(c, next, t).tunnel = t
BY DEF InFlight, Puts, SettingTypes

(* The parts of a request in flight.                                       *)
LEMMA PutFields ==
    ASSUME SettingTypes, NEW p \in puts
    PROVE  /\ p \in Puts /\ p.cfg \in Configs /\ p.next \in PutSteps /\ p.tunnel \in BOOLEAN /\ p.applied \in BOOLEAN
           /\ p.migrates \in Configs \cup {NoConfig}
           /\ p.cfg.stateRepo \in Repos /\ p.cfg.stateMode \in {"local", "git"}
BY DEF SettingTypes, Puts, Configs

(* A request goes on to its next step.                                     *)
LEMMA LaterPut ==
    ASSUME NEW p \in Puts, NEW next \in PutSteps
    PROVE  [p EXCEPT !.next = next] \in Puts /\ [p EXCEPT !.next = next].next = next
           /\ [p EXCEPT !.next = next].cfg = p.cfg /\ [p EXCEPT !.next = next].tunnel = p.tunnel
           /\ [p EXCEPT !.next = next].migrates = p.migrates /\ [p EXCEPT !.next = next].applied = p.applied
BY DEF Puts

(* A request whose settings are in force goes on to the tunnel.            *)
LEMMA AppliedPut ==
    ASSUME NEW p \in Puts
    PROVE  LET q == [p EXCEPT !.next = "tunnel", !.applied = TRUE] IN
           q \in Puts /\ q.next = "tunnel" /\ q.applied = TRUE /\ q.cfg = p.cfg
BY DEF Puts, PutSteps

(* A request that learned whether the tunnel is configured.                *)
LEMMA ConfiguredPut ==
    ASSUME NEW p \in Puts, NEW b \in BOOLEAN
    PROVE  LET q == [p EXCEPT !.cfg.configured = b, !.next = "persist"] IN
           q \in Puts /\ q.next = "persist" /\ q.applied = p.applied /\ q.cfg = [p.cfg EXCEPT !.configured = b]
<1>1. p.cfg \in Configs /\ [p.cfg EXCEPT !.configured = b] \in Configs
  BY DEF Puts, Configs
<1> HIDE DEF Configs
<1> QED BY <1>1 DEF Puts, PutSteps

(* Saves and applied requests keep the types.                              *)
LEMMA SavedTypes ==
    ASSUME SettingTypes, NEW to \in Repos \cup {"local"}, NEW c \in Configs, SaveLaunchpadConfig(to, c)
    PROVE  repos' \in [Repos -> Configs \cup {NoConfig}] /\ localCopy' \in Configs \cup {NoConfig}
BY DEF SaveLaunchpadConfig, SettingTypes

(* Applying a request keeps the types.                                     *)
LEMMA AppliedTypes ==
    ASSUME SettingTypes, NEW p \in puts, Applied(p)
    PROVE  inForce' \in Configs /\ puts' \subseteq Puts
<1>1. p \in Puts /\ p.cfg \in Configs
  BY PutFields
<1>2. [p EXCEPT !.next = "tunnel", !.applied = TRUE] \in Puts
  BY <1>1, AppliedPut
<1>3. ASSUME NEW q \in Puts PROVE [q EXCEPT !.applied = FALSE] \in Puts
  BY <1>3 DEF Puts
<1> QED BY <1>1, <1>2, <1>3 DEF Applied, SettingTypes

(* So does marking the tunnel configured.                                  *)
LEMMA ConfiguredTypes ==
    ASSUME SettingTypes, NEW p \in puts, NEW b \in BOOLEAN, SetConfigured(p, b, "persist")
    PROVE  inForce' \in Configs /\ puts' \subseteq Puts
<1>1. p \in Puts
  BY PutFields
<1>2. puts' \subseteq Puts
  BY <1>1, ConfiguredPut DEF SetConfigured, Continue, SettingTypes
<1>3. [inForce EXCEPT !.configured = b] \in Configs
  BY DEF SettingTypes, Configs
<1> QED BY <1>2, <1>3 DEF SetConfigured, SettingTypes

(* The invariant holds at first.                                           *)
LEMMA SettingsStart == StgInit => SettingsInv
<1> SUFFICES ASSUME StgInit PROVE SettingsInv
  OBVIOUS
<1>1. SettingTypes
  BY DefaultConfig, NoConfigIsPartial DEF StgInit, SettingTypes
<1> QED BY <1>1 DEF StgInit, SettingsInv

(* What a start loads is typed.                                            *)
LEMMA FilesTyped ==
    ASSUME SettingTypes
    PROVE  /\ LoadLaunchpadConfig \in Configs
           /\ LoadLaunchpadConfig.stateRepo \in Repos /\ LoadLaunchpadConfig.stateMode \in {"local", "git"}
           /\ \A r \in Repos, fetched \in BOOLEAN : Kept(r, fetched) \in Configs \cup {NoConfig}
<1>1. LoadLaunchpadConfig \in Configs
  BY DEF SettingTypes, Partial, LoadLaunchpadConfig
<1>2. \A r \in Repos, fetched \in BOOLEAN : Kept(r, fetched) \in Configs \cup {NoConfig}
  BY DEF SettingTypes, Kept
<1> QED BY <1>1, <1>2 DEF Configs

(* What a start resolves is a configuration kept where the file says.      *)
LEMMA ResolvedConfig ==
    ASSUME NEW local \in Configs, NEW kept \in Configs \cup {NoConfig}
    PROVE  /\ ResolveFullLaunchpadConfig(local, kept) \in Configs
           /\ ResolveFullLaunchpadConfig(local, kept).stateMode = local.stateMode
           /\ ResolveFullLaunchpadConfig(local, kept).stateRepo = local.stateRepo
<1>1. MergeConfig(DefaultLaunchpadConfig, kept) \in Configs /\ local.stateRepo \in Repos
  BY DefaultConfig, AllMerged, NothingMerged DEF Configs
<1>2. CASE local.stateMode = "git"
  BY <1>1, <1>2, Bootstrap DEF ResolveFullLaunchpadConfig
<1>3. CASE local.stateMode # "git"
  BY <1>3 DEF ResolveFullLaunchpadConfig
<1> QED BY <1>2, <1>3

(* What the bootstrap file holds resolves to what was saved in it.         *)
LEMMA BootstrapSaved ==
    ASSUME NEW c \in Configs, SaveBootstrapConfig(c)
    PROVE  /\ Partial(file') /\ MergeConfig(DefaultLaunchpadConfig, file').stateMode = c.stateMode
           /\ MergeConfig(DefaultLaunchpadConfig, file').stateRepo = c.stateRepo
<1>1. c.stateMode \in {"local", "git"} /\ c.stateRepo \in Repos
  BY DEF Configs
<1> QED BY <1>1, Bootstrap, DefaultConfig DEF SaveBootstrapConfig, Partial

(* The steps of a request keep the types.                                  *)
LEMMA PutStepTyped ==
    ASSUME SettingTypes, NEW p \in puts,
           \/ ResetSaved(p) \/ SaveSettings(p) \/ SaveBootstrap(p) \/ Reinitialize(p)
           \/ MigrateStateSnapshot(p) \/ Swap(p) \/ TunnelChanged(p) \/ PersistTunnel(p)
    PROVE  SettingTypes'
<1>1. /\ p \in Puts /\ p.cfg \in Configs /\ p.next \in PutSteps /\ p.tunnel \in BOOLEAN /\ p.applied \in BOOLEAN
      /\ p.migrates \in Configs \cup {NoConfig} /\ p.cfg.stateRepo \in Repos /\ p.cfg.stateMode \in {"local", "git"}
  BY PutFields
<1>2. /\ Partial(file) /\ repos \in [Repos -> Configs \cup {NoConfig}] /\ localCopy \in Configs \cup {NoConfig}
      /\ hq \in {"down", "wizard", "up"} /\ service \in Repos \cup {"local"}
      /\ inForce \in Configs /\ puts \subseteq Puts /\ wizard.step \in Nat \ {0} /\ wizard.cfg \in Configs
      /\ plain \in BOOLEAN /\ putsSent \in Nat
  BY DEF SettingTypes
<1>3. Partial(p.cfg)
  BY <1>1, ConfigIsPartial
<1>4. \A next \in PutSteps : [p EXCEPT !.next = next] \in Puts
  BY <1>1, LaterPut
<1>5. Failed(p) => plain' \in BOOLEAN
  BY DEF Failed
<1>6. CASE ResetSaved(p)
  BY <1>2, <1>3, <1>6 DEF ResetSaved, SettingTypes
<1>7. CASE SaveSettings(p)
  <2>0. UNCHANGED <<hq, wizard, service, putsSent>>
    BY <1>7 DEF SaveSettings
  <2>1. CASE file' = p.cfg /\ Applied(p) /\ UNCHANGED <<repos, localCopy, plain, settingFaults>>
    BY <1>2, <1>3, <2>0, <2>1, AppliedTypes DEF SettingTypes
  <2>2. CASE /\ SaveLaunchpadConfig(service, p.cfg) /\ Continue(p, [p EXCEPT !.next = "bootstrap"])
             /\ UNCHANGED <<file, inForce, plain, settingFaults>>
    <3>1. puts' \subseteq Puts
      BY <1>2, <1>4, <2>2 DEF Continue, PutSteps
    <3>2. repos' \in [Repos -> Configs \cup {NoConfig}] /\ localCopy' \in Configs \cup {NoConfig}
      BY <1>1, <1>2, <2>2, SavedTypes
    <3> QED BY <1>2, <2>0, <2>2, <3>1, <3>2 DEF SettingTypes
  <2>3. CASE Failed(p) /\ puts' = puts \ {p} /\ UNCHANGED <<file, repos, localCopy, inForce>>
    BY <1>2, <1>5, <2>0, <2>3 DEF SettingTypes
  <2> QED BY <1>7, <2>1, <2>2, <2>3 DEF SaveSettings
<1>8. CASE SaveBootstrap(p)
  <2>1. Partial(file')
    BY <1>1, <1>8, BootstrapSaved DEF SaveBootstrap
  <2>2. inForce' \in Configs /\ puts' \subseteq Puts
    BY <1>8, AppliedTypes DEF SaveBootstrap
  <2> QED BY <1>2, <1>8, <2>1, <2>2 DEF SaveBootstrap, SettingTypes
<1>9. CASE Reinitialize(p)
  <2> DEFINE q == [p EXCEPT !.next = "migrate", !.migrates = IF inForce.stateMode = "local" THEN inForce ELSE NoConfig]
  <2>1. q \in Puts
    BY <1>1, <1>2 DEF Puts, PutSteps
  <2>2. puts' = (puts \ {p}) \cup {q}
    BY <1>9 DEF Reinitialize, Continue
  <2> HIDE DEF q
  <2>3. puts' \subseteq Puts
    BY <1>2, <2>1, <2>2
  <2>4. localCopy' \in Configs \cup {NoConfig}
    BY <1>1, <1>2, <1>9, FilesTyped DEF Reinitialize
  <2> QED BY <1>2, <1>9, <2>3, <2>4 DEF Reinitialize, SettingTypes
<1>10. CASE MigrateStateSnapshot(p)
  <2>0. UNCHANGED <<file, hq, wizard, service, inForce, putsSent>>
    BY <1>10 DEF MigrateStateSnapshot
  <2>1. UNCHANGED <<repos, localCopy>> \/ (p.migrates \in Configs /\ SaveLaunchpadConfig(p.cfg.stateRepo, p.migrates))
    BY <1>1, <1>10 DEF MigrateStateSnapshot
  <2>2. repos' \in [Repos -> Configs \cup {NoConfig}] /\ localCopy' \in Configs \cup {NoConfig}
    BY <1>1, <1>2, <2>1, SavedTypes
  <2>3. puts' \subseteq Puts
    BY <1>2, <1>4, <1>10 DEF MigrateStateSnapshot, Continue, PutSteps
  <2>4. plain' \in BOOLEAN
    BY <1>2, <1>5, <1>10 DEF MigrateStateSnapshot
  <2> QED BY <1>2, <2>0, <2>2, <2>3, <2>4 DEF SettingTypes
<1>11. CASE Swap(p)
  <2>0. UNCHANGED <<hq, wizard, plain, putsSent, settingFaults>> /\ Applied(p)
    BY <1>11 DEF Swap
  <2>1. inForce' \in Configs /\ puts' \subseteq Puts
    BY <2>0, AppliedTypes
  <2>2. service' \in Repos \cup {"local"}
    BY <1>1, <1>11 DEF Swap
  <2>3. Partial(file')
    BY <1>1, <1>2, <1>11, BootstrapSaved DEF Swap
  <2>4. repos' \in [Repos -> Configs \cup {NoConfig}] /\ localCopy' \in Configs \cup {NoConfig}
    BY <1>1, <1>2, <1>11, SavedTypes DEF Swap
  <2> QED BY <1>2, <2>0, <2>1, <2>2, <2>3, <2>4 DEF SettingTypes
<1>12. CASE TunnelChanged(p)
  <2>1. inForce' \in Configs /\ puts' \subseteq Puts
    BY <1>2, <1>12, ConfiguredTypes DEF TunnelChanged
  <2> QED BY <1>2, <1>12, <2>1 DEF TunnelChanged, SettingTypes
<1>13. CASE PersistTunnel(p)
  <2>0. UNCHANGED <<hq, wizard, service, putsSent>>
    BY <1>13 DEF PersistTunnel
  <2>1. CASE Persist(p.cfg) /\ puts' = puts \ {p} /\ UNCHANGED <<inForce, plain, settingFaults>>
    <3>1. Partial(file') /\ repos' \in [Repos -> Configs \cup {NoConfig}] /\ localCopy' \in Configs \cup {NoConfig}
      BY <1>1, <1>2, <1>3, <2>1, SavedTypes DEF Persist
    <3> QED BY <1>2, <2>0, <2>1, <3>1 DEF SettingTypes
  <2>2. CASE /\ Failed(p) /\ UNCHANGED <<file, repos, localCopy>>
             /\ IF p.cfg.tunnel = "always" /\ p.cfg.configured THEN SetConfigured(p, FALSE, "persist")
                ELSE puts' = puts \ {p} /\ UNCHANGED inForce
    <3>1. inForce' \in Configs /\ puts' \subseteq Puts
      BY <1>2, <2>2, ConfiguredTypes
    <3> QED BY <1>2, <1>5, <2>0, <2>2, <3>1 DEF SettingTypes
  <2> QED BY <1>13, <2>1, <2>2 DEF PersistTunnel
<1> QED BY <1>6, <1>7, <1>8, <1>9, <1>10, <1>11, <1>12, <1>13

(* So do all other steps.                                                  *)
LEMMA SettingsTyped == SettingTypes /\ [StgNext]_stgVars => SettingTypes'
<1> SUFFICES ASSUME SettingTypes, [StgNext]_stgVars PROVE SettingTypes'
  OBVIOUS
<1>1. /\ Partial(file) /\ repos \in [Repos -> Configs \cup {NoConfig}] /\ localCopy \in Configs \cup {NoConfig}
      /\ hq \in {"down", "wizard", "up"} /\ service \in Repos \cup {"local"}
      /\ inForce \in Configs /\ puts \subseteq Puts /\ wizard.step \in Nat \ {0} /\ wizard.cfg \in Configs
      /\ plain \in BOOLEAN /\ putsSent \in Nat
  BY DEF SettingTypes
<1>2. /\ LoadLaunchpadConfig \in Configs
      /\ LoadLaunchpadConfig.stateRepo \in Repos /\ LoadLaunchpadConfig.stateMode \in {"local", "git"}
      /\ \A r \in Repos, fetched \in BOOLEAN : Kept(r, fetched) \in Configs \cup {NoConfig}
  BY FilesTyped
<1>3. CASE StartWizard
  <2>1. wizard'.step = 1 /\ wizard'.cfg = LoadLaunchpadConfig
    BY <1>3 DEF StartWizard
  <2> QED BY <1>1, <1>2, <1>3, <2>1 DEF StartWizard, SettingTypes
<1>4. CASE RunWizard
  <2>1. CASE /\ wizard.step <= Len(DefaultSteps) /\ UNCHANGED <<file, hq>>
             /\ \E values \in DefaultSteps[wizard.step] \cup {<< >>} :
                   wizard' = [step |-> wizard.step + 1, cfg |-> MergeConfig(wizard.cfg, values)]
    <3>1. PICK values \in DefaultSteps[wizard.step] \cup {<< >>} :
             wizard' = [step |-> wizard.step + 1, cfg |-> MergeConfig(wizard.cfg, values)]
      BY <2>1
    <3>2. wizard.step \in 1 .. Len(DefaultSteps)
      BY <1>1, <2>1 DEF DefaultSteps
    <3>3. MergeConfig(wizard.cfg, values) \in Configs
      BY <1>1, <3>1, <3>2, WizardConfig
    <3>4. wizard'.step \in Nat \ {0} /\ wizard'.cfg \in Configs
      BY <1>1, <3>1, <3>3
    <3> QED BY <1>1, <1>4, <2>1, <3>4 DEF RunWizard, SettingTypes
  <2>2. CASE file' = [wizard.cfg EXCEPT !.onboardingComplete = TRUE] /\ hq' = "down" /\ UNCHANGED wizard
    <3>1. [wizard.cfg EXCEPT !.onboardingComplete = TRUE] \in Configs
      BY <1>1 DEF Configs
    <3>2. Partial(file')
      BY <2>2, <3>1, ConfigIsPartial
    <3> QED BY <1>1, <1>4, <2>2, <3>2 DEF RunWizard, SettingTypes
  <2> QED BY <1>4, <2>1, <2>2 DEF RunWizard
<1>5. CASE Boot
  <2> DEFINE local == LoadLaunchpadConfig
  <2>1. PICK fetched \in BOOLEAN :
           LET kept == IF local.stateMode = "git" THEN Kept(local.stateRepo, fetched) ELSE localCopy IN
           /\ localCopy' = kept /\ plain' = fetched
           /\ service' = IF local.stateMode = "git" THEN local.stateRepo ELSE "local"
           /\ inForce' = ResolveFullLaunchpadConfig(local, kept)
    BY <1>5 DEF Boot
  <2>2. localCopy' \in Configs \cup {NoConfig} /\ service' \in Repos \cup {"local"} /\ plain' \in BOOLEAN
    BY <1>1, <1>2, <2>1
  <2>3. inForce' \in Configs
    BY <1>2, <2>1, <2>2, ResolvedConfig
  <2> QED BY <1>1, <1>5, <2>2, <2>3 DEF Boot, SettingTypes
<1>6. CASE StopHq
  BY <1>1, <1>6 DEF StopHq, SettingTypes
<1>7. ASSUME NEW c \in Configs, NEW next \in PutSteps, NEW t \in BOOLEAN,
             puts' = puts \cup {InFlight(c, next, t)}, Sent, plain' \in BOOLEAN,
             UNCHANGED <<file, repos, localCopy, hq, wizard, service, inForce>>
      PROVE  SettingTypes'
  <2>1. puts' \subseteq Puts
    BY <1>1, <1>7, InFlightPut
  <2>2. putsSent' \in Nat
    BY <1>1, <1>7 DEF Sent
  <2> QED BY <1>1, <1>7, <2>1, <2>2 DEF SettingTypes
<1>8. CASE Reset
  <2>1. [LoadLaunchpadConfig EXCEPT !.onboardingComplete = FALSE] \in Configs
    BY <1>2 DEF Configs
  <2>2. plain' \in BOOLEAN
    BY <1>8, Zenon DEF Reset
  <2> QED BY <1>7, <1>8, <2>1, <2>2 DEF Reset, PutSteps
<1>9. ASSUME NEW b \in Bodies, PutSettings(b) PROVE SettingTypes'
  <2> DEFINE cfg == MergeConfig(inForce, b)
  <2>1. cfg \in Configs
    BY <1>1, PutConfig
  <2>2. \E next \in {"switch", "save"}, t \in BOOLEAN : puts' = puts \cup {InFlight(cfg, next, t)}
    BY <1>9 DEF PutSettings
  <2>3. Sent /\ UNCHANGED <<file, repos, localCopy, hq, wizard, service, inForce>>
    BY <1>9 DEF PutSettings
  <2>4. plain' \in BOOLEAN
    BY <1>9, Zenon DEF PutSettings
  <2> HIDE DEF cfg
  <2> QED BY <1>7, <2>1, <2>2, <2>3, <2>4 DEF PutSteps
<1>10. ASSUME NEW b \in HandleOtelChange, PutOtel(b) PROVE SettingTypes'
  <2>1. MergeConfig(inForce, b) \in Configs
    BY <1>1, OtelConfig
  <2>2. plain' \in BOOLEAN
    BY <1>10, Zenon DEF PutOtel
  <2> QED BY <1>7, <1>10, <2>1, <2>2 DEF PutOtel, PutSteps
<1>11. ASSUME NEW p \in puts,
              \/ ResetSaved(p) \/ SaveSettings(p) \/ SaveBootstrap(p) \/ Reinitialize(p)
              \/ MigrateStateSnapshot(p) \/ Swap(p) \/ TunnelChanged(p) \/ PersistTunnel(p)
       PROVE  SettingTypes'
  BY <1>11, PutStepTyped
<1>12. CASE UNCHANGED stgVars
  BY <1>1, <1>12 DEF stgVars, SettingTypes
<1> QED BY <1>3, <1>4, <1>5, <1>6, <1>8, <1>9, <1>10, <1>11, <1>12 DEF StgNext, Bodies

(* A request that is alone is applied: its settings are in force, and it   *)
(* goes on to the tunnel or is over.                                       *)
LEMMA AppliedAlone ==
    ASSUME SettingTypes, NEW p \in puts, puts = {p}, Applied(p), Survives',
           service' = IF inForce'.stateMode = "git" THEN inForce'.stateRepo ELSE "local"
    PROVE  PlainInv'
<1> DEFINE q == [p EXCEPT !.next = "tunnel", !.applied = TRUE]
<1>1. puts' = (IF p.tunnel THEN {q} ELSE {}) /\ inForce' = p.cfg
  BY DEF Applied
<1>2. q.next = "tunnel" /\ q.applied = TRUE /\ q.cfg = p.cfg
  BY PutFields, AppliedPut
<1> HIDE DEF q
<1>3. \A r \in puts' : puts' = {r} /\ r = q
  BY <1>1
<1>4. \A r \in puts' : puts' = {r} /\ Reached(r)'
  BY <1>1, <1>2, <1>3 DEF Reached
<1> QED BY <1>4 DEF PlainInv

(* A request that is alone goes on.                                        *)
LEMMA AloneGoesOn ==
    ASSUME NEW q, puts' = {q}, Reached(q)',
           service' = IF inForce'.stateMode = "git" THEN inForce'.stateRepo ELSE "local"
    PROVE  PlainInv'
BY DEF PlainInv

(* It is over.                                                             *)
LEMMA AloneEnds ==
    ASSUME puts' = {}, Survives',
           service' = IF inForce'.stateMode = "git" THEN inForce'.stateRepo ELSE "local"
    PROVE  PlainInv'
BY DEF PlainInv

(* A save to a repository is found there and in the copy.                  *)
LEMMA SavedInRepo ==
    ASSUME SettingTypes, NEW to \in Repos, NEW c \in Configs, SaveLaunchpadConfig(to, c)
    PROVE  repos'[to] = c /\ localCopy' = c
BY SettingsAssumption DEF SaveLaunchpadConfig, SettingTypes

(* The settings in config.json, or in the repository it names.             *)
LEMMA SurvivesLocally ==
    ASSUME NEW c \in Configs, c.stateMode # "git", file' = c, inForce' = c
    PROVE  Survives'
<1>1. MergeConfig(DefaultLaunchpadConfig, file') = c
  BY DefaultConfig, AllMerged
<1> QED BY <1>1, FoundLocally DEF Survives, AsInForce

(* The settings in a repository, at the place the file names.              *)
LEMMA SurvivesInRepo ==
    ASSUME NEW c \in Configs, NEW r \in Configs, Partial(file'), inForce' = c,
           MergeConfig(DefaultLaunchpadConfig, file').stateMode = "git", c.stateMode = "git",
           MergeConfig(DefaultLaunchpadConfig, file').stateRepo = c.stateRepo, repos'[c.stateRepo] = r,
           \A f \in Fields \ {"stateMode", "stateRepo"} : r[f] = c[f]
    PROVE  Survives'
BY FoundAsSaved DEF Survives

(* The steps of a request that is alone and does not fail.                 *)
LEMMA PlainPutStep ==
    ASSUME SettingTypes, PlainInv, plain', NEW p \in puts,
           \/ ResetSaved(p) \/ SaveSettings(p) \/ SaveBootstrap(p) \/ Reinitialize(p)
           \/ MigrateStateSnapshot(p) \/ Swap(p) \/ TunnelChanged(p) \/ PersistTunnel(p)
    PROVE  PlainInv'
<1>1. /\ p \in Puts /\ p.cfg \in Configs /\ p.next \in PutSteps /\ p.tunnel \in BOOLEAN /\ p.applied \in BOOLEAN
      /\ p.migrates \in Configs \cup {NoConfig} /\ p.cfg.stateRepo \in Repos /\ p.cfg.stateMode \in {"local", "git"}
  BY PutFields
<1>2. puts = {p} /\ Reached(p) /\ service = IF inForce.stateMode = "git" THEN inForce.stateRepo ELSE "local"
  BY DEF PlainInv
<1>3. inForce \in Configs /\ NoConfig \notin Configs /\ inForce.stateMode \in {"local", "git"}
  BY NoConfigIsNone DEF SettingTypes, Configs
<1>4. ~Failed(p)
  BY DEF Failed
<1>5. Moving(p) => p.cfg.stateMode = "git" /\ p.cfg.stateRepo = inForce.stateRepo
                   /\ \A f \in Fields \ {"stateMode", "stateRepo"} : inForce[f] = p.cfg[f]
  BY <1>3, FieldNames DEF Moving, Configs
<1>6. CASE ResetSaved(p)
  <2> DEFINE local == LoadLaunchpadConfig
  <2>1. Survives /\ file' = [local EXCEPT !.onboardingComplete = FALSE] /\ puts' = {}
        /\ UNCHANGED <<repos, localCopy, service, inForce>>
    BY <1>2, <1>6 DEF ResetSaved, Reached
  <2>2. local \in Configs
    BY FilesTyped
  <2>3. file' \in Configs /\ \A f \in Fields \ {"onboardingComplete"} : file'[f] = local[f]
    BY <2>1, <2>2, FieldNames DEF Configs
  <2>4. MergeConfig(DefaultLaunchpadConfig, file') = file'
    BY <2>3, DefaultConfig, AllMerged
  <2>5. file'.stateMode = local.stateMode /\ file'.stateRepo = local.stateRepo
    BY <2>3, FieldNames
  <2>6. CASE local.stateMode # "git"
    <3>1. Found(file, repos, localCopy) = local
      BY <2>6, FoundLocally DEF LoadLaunchpadConfig
    <3>2. Found(file', repos', localCopy') = file'
      BY <2>4, <2>5, <2>6, FoundLocally
    <3>3. Survives'
      BY <2>1, <2>3, <3>1, <3>2 DEF Survives, AsInForce
    <3> QED BY <1>2, <2>1, <3>3, AloneEnds
  <2>7. CASE local.stateMode = "git"
    <3>1. Found(file', repos', localCopy') = Found(file, repos, localCopy)
      BY <2>1, <2>4, <2>5, <2>7 DEF Found, ResolveFullLaunchpadConfig, LoadLaunchpadConfig
    <3>2. Survives'
      BY <2>1, <3>1 DEF Survives
    <3> QED BY <1>2, <2>1, <3>2, AloneEnds
  <2> QED BY <2>6, <2>7
<1>7. CASE SaveSettings(p)
  <2>0. p.next = "save" /\ UNCHANGED <<hq, wizard, service, putsSent>>
    BY <1>7 DEF SaveSettings
  <2>1. SamePlace(p.cfg, inForce)
    BY <1>2, <2>0 DEF Reached
  <2>2. CASE p.cfg.stateMode = "local"
    <3>1. file' = p.cfg /\ Applied(p) /\ inForce' = p.cfg
      BY <1>7, <2>2 DEF SaveSettings, Applied
    <3>2. Survives'
      BY <1>1, <2>2, <3>1, SurvivesLocally
    <3> QED BY <1>2, <2>0, <2>1, <2>2, <3>1, <3>2, AppliedAlone DEF SamePlace
  <2>3. CASE p.cfg.stateMode = "git"
    <3> DEFINE q == [p EXCEPT !.next = "bootstrap"]
    <3>1. SaveLaunchpadConfig(service, p.cfg) /\ puts' = {q} /\ UNCHANGED <<file, inForce>>
      BY <1>2, <1>4, <1>7, <2>3 DEF SaveSettings, Continue
    <3>2. service = p.cfg.stateRepo
      BY <1>2, <2>1, <2>3 DEF SamePlace
    <3>3. repos'[p.cfg.stateRepo] = p.cfg
      BY <1>1, <3>1, <3>2, SavedInRepo
    <3>4. q.next = "bootstrap" /\ q.cfg = p.cfg
      BY <1>1, LaterPut DEF PutSteps
    <3> HIDE DEF q
    <3>5. Reached(q)'
      BY <2>1, <2>3, <3>1, <3>3, <3>4 DEF Reached
    <3> QED BY <1>2, <2>0, <3>1, <3>5, AloneGoesOn
  <2> QED BY <1>1, <2>2, <2>3
<1>8. CASE SaveBootstrap(p)
  <2>1. p.cfg.stateMode = "git" /\ SamePlace(p.cfg, inForce) /\ repos[p.cfg.stateRepo] = p.cfg
    BY <1>2, <1>8 DEF SaveBootstrap, Reached
  <2>2. SaveBootstrapConfig(p.cfg) /\ Applied(p) /\ inForce' = p.cfg /\ UNCHANGED <<repos, service>>
    BY <1>8 DEF SaveBootstrap, Applied
  <2>3. /\ Partial(file') /\ MergeConfig(DefaultLaunchpadConfig, file').stateMode = "git"
        /\ MergeConfig(DefaultLaunchpadConfig, file').stateRepo = p.cfg.stateRepo
    BY <1>1, <2>1, <2>2, BootstrapSaved
  <2>4. Survives'
    BY <1>1, <2>1, <2>2, <2>3, SurvivesInRepo
  <2> QED BY <1>2, <2>1, <2>2, <2>4, AppliedAlone DEF SamePlace
<1>9. CASE Reinitialize(p)
  <2>1. Moving(p)
    BY <1>2, <1>9 DEF Reinitialize, Reached
  <2>2. PICK q : q = [p EXCEPT !.next = "migrate", !.migrates = inForce]
    OBVIOUS
  <2>3. puts' = {q} /\ UNCHANGED <<service, inForce>>
    BY <1>2, <1>9, <2>1, <2>2 DEF Reinitialize, Continue, Moving
  <2>4. q.next = "migrate" /\ q.migrates = inForce /\ q.cfg = p.cfg /\ q.tunnel = p.tunnel
    BY <1>1, <2>2 DEF Puts
  <2>5. Reached(q)'
    BY <2>1, <2>3, <2>4 DEF Reached, Moving
  <2> QED BY <1>2, <2>3, <2>5, AloneGoesOn
<1>10. CASE MigrateStateSnapshot(p)
  <2>1. Moving(p) /\ p.migrates = inForce
    BY <1>2, <1>10 DEF MigrateStateSnapshot, Reached
  <2> DEFINE q == [p EXCEPT !.next = "swap"]
  <2>2. SaveLaunchpadConfig(p.cfg.stateRepo, inForce) /\ puts' = {q} /\ UNCHANGED <<service, inForce>>
    BY <1>2, <1>3, <1>4, <1>10, <2>1 DEF MigrateStateSnapshot, Continue
  <2>3. q.next = "swap" /\ q.migrates = p.migrates /\ q.cfg = p.cfg /\ q.tunnel = p.tunnel
    BY <1>1, LaterPut DEF PutSteps
  <2>4. repos'[p.cfg.stateRepo] = inForce
    BY <1>1, <1>3, <2>2, SavedInRepo
  <2> HIDE DEF q
  <2>5. Reached(q)'
    BY <2>1, <2>2, <2>3, <2>4 DEF Reached, Moving
  <2> QED BY <1>2, <2>2, <2>5, AloneGoesOn
<1>11. CASE Swap(p)
  <2>1. Moving(p) /\ p.next = "swap" /\ p.migrates = inForce /\ repos[p.cfg.stateRepo] = inForce
    BY <1>2, <1>5, <1>11 DEF Swap, Reached
  <2>2. SaveBootstrapConfig(p.cfg) /\ Applied(p) /\ inForce' = p.cfg /\ repos' = repos /\ service' = p.cfg.stateRepo
    BY <1>3, <1>11, <2>1 DEF Swap, Applied
  <2>3. p.cfg.stateMode = "git" /\ \A f \in Fields \ {"stateMode", "stateRepo"} : inForce[f] = p.cfg[f]
    BY <1>5, <2>1
  <2>4. /\ Partial(file') /\ MergeConfig(DefaultLaunchpadConfig, file').stateMode = "git"
        /\ MergeConfig(DefaultLaunchpadConfig, file').stateRepo = p.cfg.stateRepo
    BY <1>1, <2>2, <2>3, BootstrapSaved
  <2>5. Survives'
    BY <1>1, <1>3, <2>1, <2>2, <2>3, <2>4, SurvivesInRepo
  <2> QED BY <1>2, <2>2, <2>3, <2>5, AppliedAlone
<1>12. CASE TunnelChanged(p)
  <2>1. p.applied /\ p.cfg = inForce /\ Survives /\ UNCHANGED <<file, repos, localCopy, service>>
    BY <1>2, <1>12 DEF TunnelChanged, Reached
  <2>2. CASE puts' = puts \ {p} /\ UNCHANGED inForce
    <3>1. Survives' /\ puts' = {}
      BY <1>2, <2>1, <2>2 DEF Survives
    <3> QED BY <1>2, <2>1, <2>2, <3>1, AloneEnds
  <2>3. ASSUME NEW b \in BOOLEAN, SetConfigured(p, b, "persist") PROVE PlainInv'
    <3> DEFINE q == [p EXCEPT !.cfg.configured = b, !.next = "persist"]
    <3>1. puts' = {q} /\ inForce' = [inForce EXCEPT !.configured = b]
      BY <1>2, <2>1, <2>3 DEF SetConfigured, Continue
    <3>2. q.next = "persist" /\ q.applied = p.applied /\ q.cfg = inForce'
      BY <1>1, <2>1, <3>1, ConfiguredPut
    <3>3. inForce'.stateMode = inForce.stateMode /\ inForce'.stateRepo = inForce.stateRepo
      BY <1>3, <3>1 DEF Configs
    <3>4. SamePlace(LoadLaunchpadConfig, inForce)
      BY <2>1, FoundPlace, FieldNames DEF Survives, AsInForce, SamePlace
    <3>5. SamePlace(LoadLaunchpadConfig, inForce)'
      BY <2>1, <3>3, <3>4 DEF SamePlace, LoadLaunchpadConfig
    <3> HIDE DEF q
    <3>6. Reached(q)'
      BY <2>1, <3>2, <3>5 DEF Reached
    <3> QED BY <1>2, <2>1, <3>1, <3>3, <3>6, AloneGoesOn
  <2> QED BY <1>12, <2>2, <2>3 DEF TunnelChanged
<1>13. CASE PersistTunnel(p)
  <2>1. p.cfg = inForce /\ SamePlace(LoadLaunchpadConfig, inForce)
    BY <1>2, <1>13 DEF PersistTunnel, Reached
  <2>2. Persist(p.cfg) /\ puts' = {} /\ UNCHANGED <<service, inForce>>
    BY <1>2, <1>4, <1>13 DEF PersistTunnel
  <2>3. CASE p.cfg.stateMode = "git"
    <3>1. SaveLaunchpadConfig(service, p.cfg) /\ file' = file /\ service = p.cfg.stateRepo
      BY <1>2, <2>1, <2>2, <2>3 DEF Persist
    <3>2. repos'[p.cfg.stateRepo] = p.cfg
      BY <1>1, <3>1, SavedInRepo
    <3>3. /\ Partial(file') /\ MergeConfig(DefaultLaunchpadConfig, file').stateMode = "git"
          /\ MergeConfig(DefaultLaunchpadConfig, file').stateRepo = p.cfg.stateRepo
      BY <2>1, <2>3, <3>1 DEF SamePlace, LoadLaunchpadConfig, SettingTypes
    <3>4. Survives'
      BY <1>1, <2>1, <2>2, <2>3, <3>2, <3>3, SurvivesInRepo
    <3> QED BY <1>2, <2>2, <3>4, AloneEnds
  <2>4. CASE p.cfg.stateMode # "git"
    <3>1. file' = p.cfg
      BY <2>2, <2>4 DEF Persist
    <3>2. Survives'
      BY <1>1, <2>1, <2>2, <2>4, <3>1, SurvivesLocally
    <3> QED BY <1>2, <2>2, <3>2, AloneEnds
  <2> QED BY <2>3, <2>4
<1> QED BY <1>6, <1>7, <1>8, <1>9, <1>10, <1>11, <1>12, <1>13

(* The other steps: a start, and the requests that come alone.             *)
LEMMA PlainStep ==
    ASSUME SettingsInv, [StgNext]_stgVars, hq' = "up", plain'
    PROVE  PlainInv'
<1>1. SettingTypes /\ (hq # "up" => puts = {}) /\ (hq = "up" /\ plain => PlainInv)
  BY DEF SettingsInv
<1>2. inForce \in Configs /\ inForce.stateMode \in {"local", "git"}
  BY <1>1 DEF SettingTypes, Configs
<1>3. ~StartWizard /\ ~RunWizard /\ ~StopHq
  BY <1>1 DEF StartWizard, RunWizard, StopHq
<1>4. CASE Boot
  <2> DEFINE local == LoadLaunchpadConfig
  <2>1. PICK kept :
           /\ kept = IF local.stateMode = "git" THEN Kept(local.stateRepo, TRUE) ELSE localCopy
           /\ localCopy' = kept /\ inForce' = ResolveFullLaunchpadConfig(local, kept)
           /\ service' = IF local.stateMode = "git" THEN local.stateRepo ELSE "local"
    BY <1>4 DEF Boot
  <2>2. local \in Configs /\ kept \in Configs \cup {NoConfig}
    BY <1>1, <2>1, FilesTyped DEF SettingTypes
  <2>3. inForce'.stateMode = local.stateMode /\ inForce'.stateRepo = local.stateRepo
    BY <2>1, <2>2, ResolvedConfig
  <2>4. puts' = {} /\ UNCHANGED <<file, repos>>
    BY <1>1, <1>4 DEF Boot
  <2>5. Found(file', repos', localCopy') = inForce'
    BY <2>1, <2>4 DEF Found, ResolveFullLaunchpadConfig, Kept, LoadLaunchpadConfig
  <2>6. Survives'
    BY <2>5 DEF Survives, AsInForce
  <2> QED BY <2>1, <2>3, <2>4, <2>6, AloneEnds
<1>5. ASSUME NEW c \in Configs, NEW next \in PutSteps, NEW t \in BOOLEAN, hq = "up", plain, puts = {},
             puts' = puts \cup {InFlight(c, next, t)}, UNCHANGED <<file, repos, localCopy, service, inForce>>,
             \/ next = "reset" /\ c = [LoadLaunchpadConfig EXCEPT !.onboardingComplete = FALSE]
             \/ next = "switch" /\ inForce.stateMode = "local" /\ c = [inForce EXCEPT !.stateMode = "git"] /\ ~t
             \/ next = "save" /\ SamePlace(c, inForce)
      PROVE  PlainInv'
  <2>1. Survives /\ service = IF inForce.stateMode = "git" THEN inForce.stateRepo ELSE "local"
    BY <1>1, <1>5 DEF PlainInv
  <2>2. PICK q : q = InFlight(c, next, t)
    OBVIOUS
  <2>3. puts' = {q} /\ q.cfg = c /\ q.next = next /\ q.tunnel = t
    BY <1>1, <1>5, <2>2, InFlightPut
  <2>4. Survives' /\ LoadLaunchpadConfig' = LoadLaunchpadConfig
    BY <1>5, <2>1 DEF Survives, LoadLaunchpadConfig
  <2>5. Reached(q)'
    BY <1>5, <2>3, <2>4 DEF Reached, Moving
  <2> QED BY <1>5, <2>1, <2>3, <2>5, AloneGoesOn
<1>6. CASE Reset
  <2>1. [LoadLaunchpadConfig EXCEPT !.onboardingComplete = FALSE] \in Configs
    BY <1>1, FilesTyped DEF Configs
  <2>2. plain /\ puts = {}
    BY <1>6, Zenon DEF Reset
  <2> QED BY <1>5, <1>6, <2>1, <2>2 DEF Reset, PutSteps
<1>7. ASSUME NEW b \in Bodies, PutSettings(b) PROVE PlainInv'
  <2>1. PICK cfg : cfg = MergeConfig(inForce, b)
    OBVIOUS
  <2>2. cfg \in Configs /\ cfg.stateMode \in {"local", "git"} /\ cfg.tunnel = [cfg EXCEPT !.stateMode = "git"].tunnel
    BY <1>2, <2>1, PutConfig DEF Configs
  <2>3. hq = "up" /\ UNCHANGED <<file, repos, localCopy, service, inForce>>
        /\ puts' = puts \cup {InFlight(cfg, IF cfg.stateMode # inForce.stateMode THEN "switch" ELSE "save",
                                       cfg.tunnel # inForce.tunnel)}
    BY <1>7, <2>1 DEF PutSettings
  <2>4. plain /\ puts = {}
        /\ ~(cfg.stateMode = "local" /\ cfg.stateMode # inForce.stateMode)
        /\ ~(cfg.stateMode = "git" /\ cfg.stateMode # inForce.stateMode /\ cfg # [inForce EXCEPT !.stateMode = "git"])
        /\ ~(cfg.stateMode = "git" /\ cfg.stateRepo # inForce.stateRepo)
    BY <1>7, <2>1, Zenon DEF PutSettings
  <2>5. CASE cfg.stateMode # inForce.stateMode
    <3>1. inForce.stateMode = "local" /\ cfg = [inForce EXCEPT !.stateMode = "git"]
      BY <1>2, <2>2, <2>4, <2>5
    <3>2. cfg.tunnel = inForce.tunnel
      BY <1>2, <3>1 DEF Configs
    <3>3. puts' = puts \cup {InFlight(cfg, "switch", FALSE)}
      BY <2>3, <2>5, <3>2
    <3> QED BY <1>5, <2>2, <2>3, <2>4, <3>1, <3>3 DEF PutSteps
  <2>6. CASE cfg.stateMode = inForce.stateMode
    <3>1. PICK t \in BOOLEAN : puts' = puts \cup {InFlight(cfg, "save", t)}
      BY <2>3, <2>6
    <3>2. SamePlace(cfg, inForce)
      BY <2>4, <2>6 DEF SamePlace
    <3> QED BY <1>5, <2>2, <2>3, <2>4, <3>1, <3>2 DEF PutSteps
  <2> QED BY <2>5, <2>6
<1>8. ASSUME NEW b \in HandleOtelChange, PutOtel(b) PROVE PlainInv'
  <2>1. PICK cfg : cfg = MergeConfig(inForce, b)
    OBVIOUS
  <2>2. cfg \in Configs /\ SamePlace(cfg, inForce)
    BY <1>2, <2>1, OtelConfig DEF SamePlace
  <2>3. plain /\ puts = {}
    BY <1>8, Zenon DEF PutOtel
  <2>4. hq = "up" /\ puts' = puts \cup {InFlight(cfg, "save", FALSE)}
        /\ UNCHANGED <<file, repos, localCopy, service, inForce>>
    BY <1>8, <2>1 DEF PutOtel
  <2> QED BY <1>5, <2>2, <2>3, <2>4 DEF PutSteps
<1>9. ASSUME NEW p \in puts,
             \/ ResetSaved(p) \/ SaveSettings(p) \/ SaveBootstrap(p) \/ Reinitialize(p)
             \/ MigrateStateSnapshot(p) \/ Swap(p) \/ TunnelChanged(p) \/ PersistTunnel(p)
      PROVE  PlainInv'
  <2>1. hq = "up" /\ plain
    BY <1>1, <1>9
       DEF ResetSaved, SaveSettings, SaveBootstrap, Reinitialize, MigrateStateSnapshot, Swap, TunnelChanged, PersistTunnel, Failed
  <2> QED BY <1>1, <1>9, <2>1, PlainPutStep
<1>10. CASE UNCHANGED stgVars
  <2>1. UNCHANGED <<file, repos, localCopy, hq, service, inForce, puts, plain>>
    BY <1>10 DEF stgVars
  <2>2. Survives' = Survives /\ LoadLaunchpadConfig' = LoadLaunchpadConfig
    BY <2>1 DEF Survives, LoadLaunchpadConfig
  <2>3. ASSUME NEW p \in puts, Reached(p) PROVE Reached(p)'
    BY <2>1, <2>2, <2>3 DEF Reached, Moving
  <2> QED BY <1>1, <2>1, <2>2, <2>3 DEF PlainInv
<1> QED BY <1>3, <1>4, <1>6, <1>7, <1>8, <1>9, <1>10 DEF StgNext, Bodies

(* HQ that is down has no request in flight.                               *)
LEMMA DownIsIdle ==
    ASSUME SettingsInv, [StgNext]_stgVars, hq' # "up"
    PROVE  puts' = {}
<1>1. hq # "up" => puts = {}
  BY DEF SettingsInv
<1>2. CASE StartWizard \/ RunWizard \/ StopHq
  BY <1>1, <1>2 DEF StartWizard, RunWizard, StopHq
<1>3. ~Boot
  BY DEF Boot
<1>4. CASE Reset \/ (\E b \in Bodies : PutSettings(b)) \/ (\E b \in HandleOtelChange : PutOtel(b))
  BY <1>4 DEF Reset, PutSettings, PutOtel
<1>5. ASSUME NEW p \in puts,
             \/ ResetSaved(p) \/ SaveSettings(p) \/ SaveBootstrap(p) \/ Reinitialize(p)
             \/ MigrateStateSnapshot(p) \/ Swap(p) \/ TunnelChanged(p) \/ PersistTunnel(p)
      PROVE  puts' = {}
  BY <1>1, <1>5
     DEF ResetSaved, SaveSettings, SaveBootstrap, Reinitialize, MigrateStateSnapshot, Swap, TunnelChanged, PersistTunnel
<1>6. CASE UNCHANGED stgVars
  BY <1>1, <1>6 DEF stgVars
<1> QED BY <1>2, <1>3, <1>4, <1>5, <1>6 DEF StgNext, Bodies

(* Every state: the configurations are whole where the code keeps them     *)
(* whole, and, while all is plain, a request that is alone has reached a   *)
(* known place between the files and the settings in force.                *)
THEOREM SettingsInvariant == StgSpec => []SettingsInv
<1>1. SettingsInv /\ [StgNext]_stgVars => SettingsInv'
  <2> SUFFICES ASSUME SettingsInv, [StgNext]_stgVars PROVE SettingsInv'
    OBVIOUS
  <2>1. SettingTypes'
    BY SettingsTyped DEF SettingsInv
  <2> QED BY <2>1, DownIsIdle, PlainStep DEF SettingsInv
<1> QED BY <1>1, SettingsStart, PTL DEF StgSpec

(* SettingsSurviveRestart: after requests that came one after another,     *)
(* without failure and without moving the settings piecemeal, a restart of *)
(* HQ finds the settings in force, over bootstrap file, state repository,  *)
(* machine copy and the late save after a tunnel start.                    *)
THEOREM SettingsSurviveRestartHolds == StgSpec => []SettingsSurviveRestart
<1>1. SettingsInv => SettingsSurviveRestart
  <2> SUFFICES ASSUME SettingsInv, hq = "up", puts = {}, plain
               PROVE  LET local == LoadLaunchpadConfig
                          again == ResolveFullLaunchpadConfig(local,
                              IF local.stateMode = "git" THEN Kept(local.stateRepo, TRUE) ELSE NoConfig)
                      IN  \A f \in Fields \ {"onboardingComplete"} : again[f] = inForce[f]
    BY DEF SettingsSurviveRestart
  <2>1. AsInForce(Found(file, repos, localCopy), inForce)
    BY DEF SettingsInv, PlainInv, Survives
  <2> QED BY <2>1 DEF AsInForce, Found, Kept, LoadLaunchpadConfig, ResolveFullLaunchpadConfig
<1> QED BY <1>1, SettingsInvariant, PTL

(* The files, the copies, the wizard and every request that is being       *)
(* handled hold whole configurations (StgTypeOK).                          *)
THEOREM SettingsTypesHold == StgSpec => []StgTypeOK
  <1>1. SettingsInv => StgTypeOK
    <2> SUFFICES ASSUME SettingTypes PROVE StgTypeOK
      BY DEF SettingsInv
    <2>1. MergeConfig(DefaultLaunchpadConfig, file) \in Configs
      BY DEF SettingTypes, Partial
    <2>2. \A r \in Repos : repos[r] = NoConfig \/ repos[r] \in Configs
      BY DEF SettingTypes
    <2>3. \A p \in puts : p.cfg \in Configs
      BY DEF SettingTypes, Puts
    <2> QED BY <2>1, <2>2, <2>3 DEF SettingTypes, StgTypeOK
  <1> QED BY <1>1, SettingsInvariant, PTL
=============================================================================
