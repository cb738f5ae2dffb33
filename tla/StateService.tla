---------------------------- MODULE StateService ----------------------------
(***************************************************************************)
(* HQ's persistent state: src/src/server/state/ (GitStateManager with its  *)
(* LocalCache and GitHubStateClient, LocalStateManager) and the callers    *)
(* that read, change and save a file of it: the project routes,            *)
(* updateProjectState, the self-daemon's registration, and the flush of    *)
(* the workflow store (src/src/server/workflow/store.ts).                  *)
(*                                                                         *)
(* One project is tracked.  A file is what the callers tell apart in it:   *)
(* is the project listed, whose token, agent and status it has, and which  *)
(* version of the store's issues and coordinator.  A blob SHA is a hash of *)
(* the content, so the content stands for it.  In git mode `remote' is the *)
(* file on GitHub; in local mode it is the file under ~/.launchpad/state.  *)
(* Timers may fire at any time; failures, crashes and edits from another   *)
(* machine are faults, at most MaxFaults of them.                          *)
(***************************************************************************)
EXTENDS Naturals, FiniteSets

CONSTANTS
    Modes,       \* the modes HQ may be configured for
    Request,     \* HTTP requests, and the self-daemon's registration
    Flush,       \* calls of WorkflowStore.flush that may be under way at once
    None,        \* "null", "not there"
    Cut,         \* what a file holds that cannot be parsed
    MaxChange,   \* bound on the versions of issues and coordinator
    MaxWrites,   \* bound on the writes under way at once
    MaxFaults,   \* bound on faults
    MaxClose     \* bound on orderly shutdowns

ASSUME StateAssumption ==
    /\ Modes \subseteq {"git", "local"}
    /\ Request \cap Flush = {}
    /\ {None, Cut} \cap (Request \cup Flush) = {} /\ None # Cut
    /\ {MaxChange, MaxWrites, MaxFaults, MaxClose} \subseteq Nat

VARIABLES
    svcMode,       \* "git" or "local"
    remote,        \* each file where it is kept: a Content, None, or Cut
    cached,        \* LocalCache: content (and SHA) of each file, or None
    pendingWrites, \* GitStateManager.pendingWrites
    writes,        \* executions of doWrite / writeJson
    call,          \* what each caller is doing
    memory,        \* WorkflowStore.data
    dirty,         \* WorkflowStore.dirty
    svcUp,         \* "up", "closing", "flushing", "down", "killed"
    closer,        \* the flush that WorkflowStore.close awaits
    expected,      \* history: each file had every save been applied in turn
    cleaned,       \* history: DELETE dropped what the store had saved; no flush or load since
    disturbed,     \* history: did calls overlap, or something fail?
    stFaults, closes

svcVars   == <<svcMode, svcUp, closer, closes>>
fileVars  == <<remote, cached>>
queueVars == <<pendingWrites, writes>>
storeVars == <<memory, dirty>>
savedVars == <<expected, cleaned>>
histVars  == <<savedVars, disturbed, stFaults>>
stVars    == <<svcVars, fileVars, queueVars, call, storeVars, histVars>>

File   == {"config", "enrichment"}
Caller == Request \cup Flush
Who    == Request \cup {None}

Content == [listed : BOOLEAN, token : Who, agent : Who, status : Who,
            issues : 0..MaxChange, coordinator : 0..MaxChange]

(* The default content of a file, and one that knows the project.          *)
Blank == [listed |-> FALSE, token |-> None, agent |-> None, status |-> None,
          issues |-> 0, coordinator |-> 0]

Known == [Blank EXCEPT !.listed = TRUE]

ConfigOp == {"add", "regenerate", "agent", "register", "remove", "put"}
Op == ConfigOp \cup {"forget", "status", "flush"}
Phase == {"idle", "reading", "fetched", "holding", "checking", "saving", "ok", "failed"}
Calls == [op : Op, phase : Phase, copy : Content \cup {None}]
PendingRecords == [content : Content, waiters : SUBSET Caller, live : BOOLEAN]
WritePhase == {"sha", "put", "refresh", "again", "cache", "mkdir", "open"}
WriteRecords == [file : File, content : Content, sha : Content \cup {None},
                 phase : WritePhase, waiters : SUBSET Caller, live : BOOLEAN, awaited : BOOLEAN]

ASSUME MarkAssumption == {None, Cut} \cap Content = {} /\ None \notin PendingRecords

StateTypeOK ==
    /\ svcMode \in {"git", "local"}
    /\ remote \in [File -> Content \cup {None, Cut}]
    /\ cached \in [File -> Content \cup {None}]
    /\ pendingWrites \in [File -> PendingRecords \cup {None}]
    /\ writes \subseteq WriteRecords
    /\ call \in [Caller -> Calls]
    /\ memory \in [issues : 0..MaxChange, coordinator : 0..MaxChange]
    /\ dirty \in BOOLEAN
    /\ svcUp \in {"up", "closing", "flushing", "down", "killed"}
    /\ closer \in Flush \cup {None}
    /\ expected \in [File -> Content]
    /\ {cleaned, disturbed} \subseteq BOOLEAN
    /\ stFaults \in 0..MaxFaults /\ closes \in 0..MaxClose

Resting == [op |-> "flush", phase |-> "idle", copy |-> None]

StateInit ==
    /\ svcMode \in Modes
    /\ \E kept \in {None, Known} : remote = [f \in File |-> kept]
    /\ cached = IF svcMode = "git" THEN remote ELSE [f \in File |-> None]
    /\ pendingWrites = [f \in File |-> None]
    /\ writes = {}
    /\ call = [c \in Caller |-> Resting]
    /\ memory = [issues |-> 0, coordinator |-> 0]
    /\ dirty = FALSE
    /\ svcUp = "up" /\ closer = None
    /\ expected = [f \in File |-> IF remote[f] = None THEN Blank ELSE remote[f]]
    /\ cleaned = FALSE /\ disturbed = FALSE
    /\ stFaults = 0 /\ closes = 0

-----------------------------------------------------------------------------
(* Helpers. *)

Running == svcUp \in {"up", "closing", "flushing"}
FileOf(op) == IF op \in ConfigOp THEN "config" ELSE "enrichment"
Active(c)  == call[c].phase \notin {"idle", "ok", "failed"}
Quiet      == \A c \in Caller : ~Active(c)
Move(k, m) == writes' = (writes \ {k}) \cup {m}
Room       == Cardinality(writes) < MaxWrites
StFault    == stFaults < MaxFaults /\ stFaults' = stFaults + 1 /\ disturbed' = TRUE

(* What each caller leaves in the copy it read.                            *)
PostProject(r)                  == [Blank EXCEPT !.listed = TRUE, !.token = r]
RegenerateToken(r, old)         == [old EXCEPT !.token = r]
UpdateProjectState(r, old)      == [old EXCEPT !.agent = r]
EnsureProjectRegistered(r, old) == [old EXCEPT !.listed = TRUE, !.token = r]
DeleteProject(old)              == Blank
PutProject(r, old)              == [old EXCEPT !.listed = TRUE, !.status = r]
FlushedProject(old) ==
    [old EXCEPT !.listed = TRUE, !.issues = memory.issues, !.coordinator = memory.coordinator]

Changed(op, c, old) ==
    CASE op = "add"        -> PostProject(c)
      [] op = "regenerate" -> RegenerateToken(c, old)
      [] op = "agent"      -> UpdateProjectState(c, old)
      [] op = "register"   -> EnsureProjectRegistered(c, old)
      [] op \in {"remove", "forget"} -> DeleteProject(old)
      [] op = "status"     -> PutProject(c, old)
      [] op = "flush"      -> FlushedProject(old)

(* Calls that return early after reading: a duplicate, an unknown project, *)
(* nothing to clean up.                                                    *)
ReturnsEarly(op, old) ==
    \/ op = "add" /\ old.listed
    \/ op \in {"regenerate", "agent", "remove", "put", "forget"} /\ ~old.listed

(* The next stage of a call, once its save succeeded or failed: DELETE     *)
(* goes on with the enrichment file and swallows a failure there; a flush  *)
(* ends either way.                                                        *)
Settled(k, ok) ==
    CASE k.op = "remove" /\ ok -> [op |-> "forget", phase |-> "reading", copy |-> None]
      [] k.op = "flush"        -> Resting
      [] OTHER -> [k EXCEPT !.phase = IF ok \/ k.op = "forget" THEN "ok" ELSE "failed",
                            !.copy = None]

(* The waiters of a write are resolved or rejected: flush() clears the     *)
(* dirty flag, or keeps it.                                                *)
Answer(waiters, ok) ==
    /\ call' = [c \in Caller |-> IF c \in waiters THEN Settled(call[c], ok) ELSE call[c]]
    /\ dirty' = IF ok /\ \E c \in waiters : call[c].op = "flush" THEN FALSE ELSE dirty

-----------------------------------------------------------------------------
(* Mutants. *)

(* A save replaces the pending data and its waiters.                       *)
ScheduleDropsWaiters(c, f, data, live) ==
    pendingWrites' = [pendingWrites EXCEPT ![f] =
        [content |-> data, waiters |-> {c}, live |-> live]]

(* The cache is not updated after a write.                                 *)
WriteCacheForgotten(k) ==
    /\ Running
    /\ k.phase = "cache"
    /\ Answer(k.waiters, TRUE)
    /\ writes' = writes \ {k}
    /\ UNCHANGED <<svcVars, fileVars, histVars, pendingWrites, memory>>

-----------------------------------------------------------------------------
(* Callers. *)

(* A request arrives.                                                      *)
RequestStart(r, op) ==
    /\ svcUp = "up"
    /\ call[r].phase = "idle"
    /\ call' = [call EXCEPT ![r] = [op |-> op, phase |-> "reading", copy |-> None]]
    /\ disturbed' = (disturbed \/ ~Quiet)
    /\ UNCHANGED <<svcVars, fileVars, queueVars, storeVars, savedVars, stFaults>>

(* The interval timer calls flush(), which returns at once unless dirty.   *)
FlushStart(c) ==
    /\ svcUp = "up"
    /\ dirty
    /\ call[c].phase = "idle"
    /\ call' = [call EXCEPT ![c] = [op |-> "flush", phase |-> "reading", copy |-> None]]
    /\ disturbed' = (disturbed \/ ~Quiet)
    /\ UNCHANGED <<svcVars, fileVars, queueVars, storeVars, savedVars, stFaults>>

(* readState finds the file in the cache; readJson reads it from disk, and *)
(* takes the default when it is missing or cannot be parsed.               *)
ReadFile(c) ==
    LET f == FileOf(call[c].op)
        found == IF svcMode = "git" THEN cached[f]
                 ELSE IF remote[f] \in {None, Cut} THEN Blank ELSE remote[f]
    IN  /\ Running
        /\ call[c].phase = "reading"
        /\ found # None
        /\ call' = [call EXCEPT ![c].phase = "holding", ![c].copy = found]
        /\ UNCHANGED <<svcVars, fileVars, queueVars, storeVars, histVars>>

(* readState misses the cache and GitHub answers: the content, or 404.     *)
FetchServed(c) ==
    LET f == FileOf(call[c].op) IN
    /\ Running /\ svcMode = "git"
    /\ call[c].phase = "reading"
    /\ cached[f] = None
    /\ call' = [call EXCEPT ![c].phase = IF remote[f] = None THEN "holding" ELSE "fetched",
                            ![c].copy = IF remote[f] = None THEN Blank ELSE remote[f]]
    /\ UNCHANGED <<svcVars, fileVars, queueVars, storeVars, histVars>>

(* readState puts what it fetched in the cache.                            *)
FetchCached(c) ==
    /\ Running
    /\ call[c].phase = "fetched"
    /\ cached' = [cached EXCEPT ![FileOf(call[c].op)] = call[c].copy]
    /\ call' = [call EXCEPT ![c].phase = "holding"]
    /\ UNCHANGED <<svcVars, queueVars, storeVars, histVars, remote>>

(* GitHub does not answer a read: the request fails, flush() only warns.   *)
FetchFails(c) ==
    /\ Running /\ svcMode = "git"
    /\ call[c].phase = "reading"
    /\ cached[FileOf(call[c].op)] = None
    /\ StFault
    /\ call' = [call EXCEPT ![c] = Settled(@, FALSE)]
    /\ UNCHANGED <<svcVars, fileVars, queueVars, storeVars, savedVars>>

(* The call returns without saving.                                        *)
CallRefused(c) ==
    /\ Running
    /\ call[c].phase = "holding"
    /\ ReturnsEarly(call[c].op, call[c].copy)
    /\ call' = [call EXCEPT ![c].phase = "ok", ![c].copy = None]
    /\ UNCHANGED <<svcVars, fileVars, queueVars, storeVars, histVars>>

(* POST /api/projects asks GitHub whether the repository exists, holding   *)
(* the copy it read.                                                       *)
AddChecksRepo(c) ==
    /\ Running
    /\ call[c].phase = "holding" /\ call[c].op = "add"
    /\ ~ReturnsEarly("add", call[c].copy)
    /\ \E exists \in BOOLEAN :
          call' = [call EXCEPT ![c].phase = IF exists THEN "checking" ELSE "failed",
                               ![c].copy = IF exists THEN @ ELSE None]
    /\ UNCHANGED <<svcVars, fileVars, queueVars, storeVars, histVars>>

(* PUT goes on to the enrichment file once it saw the project.             *)
PutFindsProject(c) ==
    /\ Running
    /\ call[c].phase = "holding" /\ call[c].op = "put"
    /\ call[c].copy.listed
    /\ call' = [call EXCEPT ![c] = [op |-> "status", phase |-> "reading", copy |-> None]]
    /\ UNCHANGED <<svcVars, fileVars, queueVars, storeVars, histVars>>

(* GitStateManager.writeState: a write already pending takes the new data, *)
(* another waiter and a new timer.                                         *)
Schedule(c, f, data, live) ==
    pendingWrites' = [pendingWrites EXCEPT ![f] =
        [content |-> data, live |-> live,
         waiters |-> {c} \cup (IF @ = None THEN {} ELSE @.waiters)]]

(* LocalStateManager.writeJson starts with mkdir.                          *)
WriteLocal(c, f, data, live) ==
    /\ Room
    /\ writes' = writes \cup {[file |-> f, content |-> data, sha |-> None, phase |-> "mkdir",
                               waiters |-> {c}, live |-> live, awaited |-> FALSE]}

(* The caller changes its copy and saves it.  flush() hands over the       *)
(* store's own issue array: it stays live until it is written out.         *)
Save(c) ==
    LET op == call[c].op
        f  == FileOf(op)
        data == Changed(op, c, call[c].copy)
    IN  /\ Running
        /\ call[c].phase = IF op = "add" THEN "checking" ELSE "holding"
        /\ op # "put"
        /\ ~ReturnsEarly(op, call[c].copy)
        /\ IF svcMode = "git" THEN Schedule(c, f, data, op = "flush") /\ UNCHANGED writes
                              ELSE WriteLocal(c, f, data, op = "flush") /\ UNCHANGED pendingWrites
        /\ call' = [call EXCEPT ![c].phase = "saving", ![c].copy = None]
        /\ expected' = [expected EXCEPT ![f] = Changed(op, c, @)]
        /\ cleaned' = (op = "forget" \/ (cleaned /\ op # "flush"))
        /\ UNCHANGED <<svcVars, fileVars, storeVars, disturbed, stFaults>>

-----------------------------------------------------------------------------
(* GitStateManager: the write of a file. *)

Begun(f, atClose) ==
    [file |-> f, content |-> pendingWrites[f].content, sha |-> None, phase |-> "sha",
     waiters |-> pendingWrites[f].waiters, live |-> FALSE, awaited |-> atClose]

(* The debounce timer fires: executePendingWrite takes the pending data    *)
(* and doWrite turns it into text.                                         *)
WriteBegin(f) ==
    /\ Running
    /\ pendingWrites[f] # None
    /\ Room
    /\ writes' = writes \cup {Begun(f, FALSE)}
    /\ pendingWrites' = [pendingWrites EXCEPT ![f] = None]
    /\ UNCHANGED <<svcVars, fileVars, storeVars, histVars, call>>

(* The SHA to replace: the cached one, or the one GitHub has.              *)
WriteSha(k) ==
    /\ Running
    /\ k.phase = "sha"
    /\ Move(k, [k EXCEPT !.phase = "put",
          !.sha = IF cached[k.file] # None THEN cached[k.file] ELSE remote[k.file]])
    /\ UNCHANGED <<svcVars, fileVars, storeVars, histVars, pendingWrites, call>>

(* GitHub accepts a PUT whose SHA is the file's.                           *)
PutAccepted(k) ==
    /\ Running
    /\ k.phase \in {"put", "again"}
    /\ k.sha = remote[k.file]
    /\ remote' = [remote EXCEPT ![k.file] = k.content]
    /\ Move(k, [k EXCEPT !.phase = "cache"])
    /\ UNCHANGED <<svcVars, storeVars, histVars, cached, pendingWrites, call>>

(* GitHub answers 409 to another SHA: the first time it is fetched again.  *)
PutConflicts(k) ==
    /\ Running
    /\ k.phase = "put"
    /\ k.sha \notin {None, remote[k.file]}
    /\ Move(k, [k EXCEPT !.phase = "refresh"])
    /\ UNCHANGED <<svcVars, fileVars, storeVars, histVars, pendingWrites, call>>

WriteRefresh(k) ==
    /\ Running
    /\ k.phase = "refresh"
    /\ Move(k, [k EXCEPT !.phase = "again", !.sha = remote[k.file]])
    /\ UNCHANGED <<svcVars, fileVars, storeVars, histVars, pendingWrites, call>>

(* After an accepted PUT the cache takes the content, the waiters resolve. *)
WriteCached(k) ==
    /\ Running
    /\ k.phase = "cache"
    /\ cached' = [cached EXCEPT ![k.file] = k.content]
    /\ Answer(k.waiters, TRUE)
    /\ writes' = writes \ {k}
    /\ UNCHANGED <<svcVars, histVars, remote, pendingWrites, memory>>

(* An existing file written without a SHA, or a second conflict: the       *)
(* waiters are rejected.                                                   *)
PutRejected(k) ==
    /\ Running
    /\ k.sha # remote[k.file]
    /\ \/ k.phase = "put" /\ k.sha = None
       \/ k.phase = "again"
    /\ Answer(k.waiters, FALSE)
    /\ writes' = writes \ {k}
    /\ UNCHANGED <<svcVars, fileVars, histVars, pendingWrites, memory>>

(* GitHub, or the file system, fails at some step of a write; the answer   *)
(* to a PUT that was applied may be what is lost.                          *)
WriteFails(k) ==
    /\ Running
    /\ StFault
    /\ Answer(k.waiters, FALSE)
    /\ writes' = writes \ {k}
    /\ UNCHANGED <<svcVars, fileVars, pendingWrites, memory, savedVars>>

-----------------------------------------------------------------------------
(* LocalStateManager: writeFile truncates the file, then fills it. *)

LocalOpen(k) ==
    /\ Running
    /\ k.phase = "mkdir"
    /\ remote' = [remote EXCEPT ![k.file] = Cut]
    /\ Move(k, [k EXCEPT !.phase = "open", !.live = FALSE])
    /\ UNCHANGED <<svcVars, storeVars, histVars, cached, pendingWrites, call>>

(* When another write filled the file since this one opened it, a longer   *)
(* rest of the other may stay behind, and the file cannot be parsed.       *)
LocalFill(k) ==
    /\ Running
    /\ k.phase = "open"
    /\ \/ remote' = [remote EXCEPT ![k.file] = k.content]
       \/ remote[k.file] # Cut /\ remote' = [remote EXCEPT ![k.file] = Cut]
    /\ Answer(k.waiters, TRUE)
    /\ writes' = writes \ {k}
    /\ UNCHANGED <<svcVars, histVars, cached, pendingWrites, memory>>

-----------------------------------------------------------------------------
(* The workflow store. *)

FlushActive == \E c \in Flush : Active(c)

(* Data that still holds the store's own issue array sees the change.      *)
SeeIssue(v) ==
    /\ pendingWrites' = [f \in File |->
          IF pendingWrites[f] # None /\ pendingWrites[f].live
          THEN [pendingWrites[f] EXCEPT !.content.issues = v] ELSE pendingWrites[f]]
    /\ writes' = {IF k.live THEN [k EXCEPT !.content.issues = v] ELSE k : k \in writes}

(* updateIssue: an element of the issue array is replaced in place.        *)
UpdateIssue ==
    /\ svcUp = "up"
    /\ memory.issues < MaxChange
    /\ memory' = [memory EXCEPT !.issues = @ + 1]
    /\ dirty' = TRUE
    /\ disturbed' = (disturbed \/ FlushActive)
    /\ SeeIssue(memory.issues + 1)
    /\ UNCHANGED <<svcVars, fileVars, call, savedVars, stFaults>>

(* setIssues: a sync puts a new array in the store; data that is waiting   *)
(* to be written keeps the old one.                                        *)
SetIssues ==
    /\ svcUp = "up"
    /\ memory.issues < MaxChange
    /\ memory' = [memory EXCEPT !.issues = @ + 1]
    /\ dirty' = TRUE
    /\ disturbed' = (disturbed \/ FlushActive)
    /\ pendingWrites' = [f \in File |-> IF pendingWrites[f] = None THEN None
                                        ELSE [pendingWrites[f] EXCEPT !.live = FALSE]]
    /\ writes' = {[k EXCEPT !.live = FALSE] : k \in writes}
    /\ UNCHANGED <<svcVars, fileVars, call, savedVars, stFaults>>

(* setCoordinator: the record is replaced.                                 *)
SetCoordinator ==
    /\ svcUp = "up"
    /\ memory.coordinator < MaxChange
    /\ memory' = [memory EXCEPT !.coordinator = @ + 1]
    /\ dirty' = TRUE
    /\ disturbed' = (disturbed \/ FlushActive)
    /\ UNCHANGED <<svcVars, fileVars, queueVars, call, savedVars, stFaults>>

-----------------------------------------------------------------------------
(* Shutdown, crash, restart. *)

(* SIGTERM: the hooks run in reverse order, so WorkflowStore.close comes   *)
(* first; it stops the timer and flushes, which does nothing unless dirty. *)
CloseStart ==
    /\ svcUp = "up"
    /\ closes < MaxClose
    /\ closes' = closes + 1
    /\ svcUp' = "closing"
    /\ disturbed' = (disturbed \/ ~Quiet)
    /\ IF dirty THEN \E c \in Flush :
                        /\ ~Active(c)
                        /\ closer' = c
                        /\ call' = [call EXCEPT ![c].phase = "reading"]
                ELSE UNCHANGED <<closer, call>>
    /\ UNCHANGED <<fileVars, queueVars, storeVars, svcMode, savedVars, stFaults>>

(* The state plugin's hook: flush() executes the writes that are pending   *)
(* and waits for those only.                                               *)
CloseState ==
    /\ svcUp = "closing"
    /\ closer # None => ~Active(closer)
    /\ writes' = writes \cup {Begun(f, TRUE) : f \in {g \in File : pendingWrites[g] # None}}
    /\ pendingWrites' = [f \in File |-> None]
    /\ svcUp' = "flushing"
    /\ UNCHANGED <<fileVars, storeVars, histVars, svcMode, call, closer, closes>>

(* What the process held in memory is gone.                                *)
Stopped ==
    /\ call' = [c \in Caller |->
          IF c \in Flush THEN Resting
          ELSE IF Active(c) THEN [call[c] EXCEPT !.phase = "failed", !.copy = None] ELSE call[c]]
    /\ pendingWrites' = [f \in File |-> None]
    /\ writes' = {}
    /\ closer' = None
    /\ UNCHANGED <<fileVars, storeVars, svcMode, savedVars, closes>>

(* server.close() resolves once the HTTP requests are answered, too, and   *)
(* the process exits.                                                      *)
CloseDone ==
    /\ svcUp = "flushing"
    /\ \A k \in writes : ~k.awaited
    /\ \A r \in Request : Active(r) => call[r].op = "register"
    /\ svcUp' = "down"
    /\ disturbed' = (disturbed \/ ~Quiet)
    /\ Stopped
    /\ UNCHANGED stFaults

(* The process is killed, or exits because closing took five seconds.      *)
Killed ==
    /\ Running
    /\ svcUp' = "killed"
    /\ StFault
    /\ Stopped

(* The next start: sync() fills the cache, or fails and leaves the cache   *)
(* of the last run; WorkflowStore.load reads the enrichment file.          *)
Restart(synced) ==
    LET fresh == IF svcMode = "git" /\ synced
                 THEN [f \in File |-> IF remote[f] # None THEN remote[f] ELSE cached[f]]
                 ELSE cached
        kept  == IF svcMode = "git"
                 THEN IF fresh["enrichment"] = None THEN Blank ELSE fresh["enrichment"]
                 ELSE IF remote["enrichment"] \in {None, Cut} THEN Blank
                      ELSE remote["enrichment"]
    IN  /\ svcUp \in {"down", "killed"}
        /\ IF synced THEN UNCHANGED <<stFaults, disturbed>> ELSE svcMode = "git" /\ StFault
        /\ svcUp' = "up"
        /\ cached' = fresh
        /\ memory' = [issues |-> kept.issues, coordinator |-> kept.coordinator]
        /\ dirty' = FALSE
        /\ cleaned' = FALSE
        /\ UNCHANGED <<queueVars, svcMode, remote, call, closer, expected, closes>>

(* Another machine, or the user, edits a file of the state repository.     *)
EditedElsewhere(f) ==
    /\ svcMode = "git"
    /\ StFault
    /\ remote' = [remote EXCEPT ![f] = Known]
    /\ UNCHANGED <<svcVars, queueVars, storeVars, cached, call, savedVars>>

-----------------------------------------------------------------------------
CallStep(c) ==
    \/ ReadFile(c) \/ FetchServed(c) \/ FetchCached(c)
    \/ CallRefused(c) \/ AddChecksRepo(c) \/ PutFindsProject(c) \/ Save(c)
WriteStep(k) ==
    \/ WriteSha(k) \/ PutAccepted(k) \/ PutConflicts(k) \/ WriteRefresh(k)
    \/ WriteCached(k) \/ PutRejected(k) \/ LocalOpen(k) \/ LocalFill(k)

StateNext ==
    \/ \E r \in Request, op \in ConfigOp : RequestStart(r, op)
    \/ \E c \in Flush : FlushStart(c)
    \/ \E c \in Caller : CallStep(c) \/ FetchFails(c)
    \/ \E f \in File : WriteBegin(f) \/ EditedElsewhere(f)
    \/ \E k \in writes : WriteStep(k) \/ WriteFails(k)
    \/ UpdateIssue \/ SetIssues \/ SetCoordinator
    \/ CloseStart \/ CloseState \/ CloseDone \/ Killed
    \/ \E synced \in BOOLEAN : Restart(synced)

StateSpec == StateInit /\ [][StateNext]_stVars

(* Timers fire, files and GitHub answer or fail; requests, changes,        *)
(* shutdowns and faults need not happen.                                   *)
StateFairness ==
    /\ \A f \in File : WF_stVars(WriteBegin(f))
    /\ \A c \in Caller : WF_stVars(\E k \in writes : c \in k.waiters /\ WriteStep(k))

-----------------------------------------------------------------------------
(* Properties. *)

(* While calls do not overlap and nothing fails, reading a file, changing  *)
(* the copy and saving it behaves like an update in place: once every call *)
(* is over, the file is what all saves in turn make of it, the cache has   *)
(* the same content, and a store that is not dirty is saved in it, unless  *)
(* DELETE took it out, which leaves the store in memory as it was.  This   *)
(* is what the debounce, the cached SHA and the cache written after GitHub *)
(* must preserve.                                                          *)
SequentialSavesAreExact ==
    ~disturbed /\ Quiet /\ svcUp \in {"up", "down"} =>
        /\ \A f \in File :
              /\ remote[f] = (IF remote[f] = None THEN None ELSE expected[f])
              /\ remote[f] = None => expected[f] = Blank
              /\ svcMode = "git" => cached[f] = remote[f] /\ pendingWrites[f] = None
        /\ ~dirty /\ ~cleaned =>
              /\ memory.issues = expected["enrichment"].issues
              /\ memory.coordinator = expected["enrichment"].coordinator

(* Every save is answered, however many are folded into one write and      *)
(* whatever GitHub answers: its promise resolves or rejects unless the     *)
(* process dies.                                                           *)
SavesAreAnswered == \A c \in Caller : call[c].phase = "saving" ~> call[c].phase # "saving"

(* "Call this on server shutdown to ensure no data is lost": an orderly    *)
(* shutdown during which nothing fails leaves the store's issues and       *)
(* coordinator in the enrichment file.                                     *)
ShutdownSavesStore ==
    svcUp = "down" /\ stFaults = 0 /\ memory # [issues |-> 0, coordinator |-> 0] =>
        /\ remote["enrichment"] \notin {None, Cut}
        /\ remote["enrichment"].issues = memory.issues
        /\ remote["enrichment"].coordinator = memory.coordinator
=============================================================================
