------------------------------- MODULE EventLog -------------------------------
(***************************************************************************)
(* The event log of one Copilot session at HQ: the copy in memory that the *)
(* browser pages through (aggregator.ts) and its JSONL file, written       *)
(* behind through a buffer (event-persistence.ts).                         *)
(*                                                                         *)
(* flush() hands the buffer to an appendFile that other steps overtake;    *)
(* the first getEvents after a start or a removal awaits a flush and a     *)
(* read, and then replaces the copy in memory by what it read; a removed   *)
(* session's file is deleted half a minute later.                          *)
(***************************************************************************)
EXTENDS Naturals, SequencesExt


CONSTANTS
    MaxEvents,          \* bound on the events of the session
    FlushThreshold,     \* FLUSH_THRESHOLD
    MaxLog,             \* MAX_EVENTS_PER_SESSION
    MaxRemovals,        \* bound on removals of the session
    MaxHqEnds         \* bound on ends of HQ's process

ASSUME LogAssumption ==
    /\ {MaxEvents, FlushThreshold, MaxLog, MaxRemovals, MaxHqEnds} \subseteq Nat
    /\ FlushThreshold > 0 /\ MaxLog > 0

VARIABLES
    stored,         \* events so far; an event is its number
    log,            \* eventLogs of the session
    buffer,         \* pendingBuffers; its timer is armed while it is not empty
    writes,         \* chunks in an appendFile
    file,           \* the JSONL file; empty when there is none
    hydrated,       \* hydratedSessions
    fileLoads,          \* loadEvents calls: the chunk they await, then what they read
    cleanup,        \* "none", "armed" (30 s timer) or "unlinking"
    removals, hqEnds,
    cleaned         \* history: has the file been deleted?

memVars == <<log, hydrated, fileLoads>>
diskVars == <<buffer, writes, file>>
boundVars == <<removals, hqEnds>>
elVars == <<stored, memVars, diskVars, cleanup, boundVars, cleaned>>

Events == 1..MaxEvents
Load == [phase : {"flush", "read", "done"}, chunk : Seq(Events), got : Seq(Events)]

ElTypeOK ==
    /\ stored \in 0..MaxEvents
    /\ log \in Seq(Events) /\ buffer \in Seq(Events) /\ file \in Seq(Events)
    /\ \A k \in writes : k \in Seq(Events) /\ k # <<>>
    /\ hydrated \in BOOLEAN /\ cleaned \in BOOLEAN
    /\ fileLoads \subseteq Load
    /\ cleanup \in {"none", "armed", "unlinking"}
    /\ removals \in 0..MaxRemovals /\ hqEnds \in 0..MaxHqEnds

ElInit ==
    /\ stored = 0 /\ log = <<>> /\ buffer = <<>> /\ writes = {} /\ file = <<>>
    /\ hydrated = FALSE /\ fileLoads = {} /\ cleanup = "none"
    /\ removals = 0 /\ hqEnds = 0 /\ cleaned = FALSE

-----------------------------------------------------------------------------
Newest(seq) == SubSeq(seq, IF Len(seq) > MaxLog THEN Len(seq) - MaxLog + 1 ELSE 1, Len(seq))

(* storeEvent: the memory copy, capped, and appendEvent, which flushes a   *)
(* full buffer at once.                                                    *)
StoreEvent ==
    /\ stored < MaxEvents
    /\ stored' = stored + 1
    /\ log' = Newest(Append(log, stored'))
    /\ LET lines == Append(buffer, stored')
       IN  IF Len(lines) >= FlushThreshold
           THEN buffer' = <<>> /\ writes' = writes \cup {lines}
           ELSE buffer' = lines /\ UNCHANGED writes
    /\ UNCHANGED <<file, hydrated, fileLoads, cleanup, boundVars, cleaned>>

(* flush: the buffer goes with its timer, and the append is under way.     *)
StartFlush == buffer' = <<>> /\ writes' = writes \cup {buffer}

FlushTimer ==
    /\ buffer # <<>> /\ StartFlush
    /\ UNCHANGED <<stored, memVars, file, cleanup, boundVars, cleaned>>

AppendedDropsBuffer(chunk) ==
    /\ writes' = writes \ {chunk}
    /\ file' = file \o chunk
    /\ fileLoads' = {IF l.phase = "flush" /\ l.chunk = chunk THEN [l EXCEPT !.phase = "read"] ELSE l
                    : l \in fileLoads}
    /\ buffer' = <<>>
    /\ UNCHANGED <<stored, log, hydrated, cleanup, boundVars, cleaned>>

(* An append reaches the file; appends that overlap do so in any order.    *)
Appended(chunk) ==
    /\ writes' = writes \ {chunk}
    /\ file' = file \o chunk
    /\ fileLoads' = {IF l.phase = "flush" /\ l.chunk = chunk THEN [l EXCEPT !.phase = "read"] ELSE l
                    : l \in fileLoads}
    /\ UNCHANGED <<stored, log, hydrated, buffer, cleanup, boundVars, cleaned>>

(* getEvents of a session that is not hydrated; later callers do not wait  *)
(* for this one.  loadEvents flushes what is buffered now.                 *)
GetEvents ==
    /\ ~hydrated /\ hydrated' = TRUE
    /\ IF buffer = <<>>
       THEN /\ fileLoads' = fileLoads \cup {[phase |-> "read", chunk |-> <<>>, got |-> <<>>]}
            /\ UNCHANGED <<buffer, writes>>
       ELSE /\ fileLoads' = fileLoads \cup {[phase |-> "flush", chunk |-> buffer, got |-> <<>>]}
            /\ StartFlush
    /\ UNCHANGED <<stored, log, file, cleanup, boundVars, cleaned>>

FileRead(l) ==
    /\ l.phase = "read"
    /\ fileLoads' = (fileLoads \ {l}) \cup {[l EXCEPT !.phase = "done", !.got = file]}
    /\ UNCHANGED <<stored, log, hydrated, diskVars, cleanup, boundVars, cleaned>>

(* hydrateFromDisk: what was read replaces the memory copy, unless there   *)
(* was nothing.                                                            *)
Hydrate(l) ==
    /\ l.phase = "done"
    /\ fileLoads' = fileLoads \ {l}
    /\ log' = IF l.got = <<>> THEN log ELSE l.got
    /\ UNCHANGED <<stored, hydrated, diskVars, cleanup, boundVars, cleaned>>

(* removeSession and removeDaemon: the memory copy goes, the timer starts  *)
(* anew; the file stays until it fires, and an event of the session meets  *)
(* an empty memory copy.                                                   *)
RemoveSession ==
    /\ removals < MaxRemovals /\ cleanup # "unlinking"
    /\ removals' = removals + 1
    /\ log' = <<>> /\ hydrated' = FALSE
    /\ cleanup' = "armed"
    /\ UNCHANGED <<stored, fileLoads, diskVars, hqEnds, cleaned>>

(* EventPersistence.cleanup: what is buffered is dropped, what is being    *)
(* written is not, and recreates the file when it comes after unlink.      *)
CleanupTimer ==
    /\ cleanup = "armed" /\ cleanup' = "unlinking"
    /\ buffer' = <<>> /\ cleaned' = TRUE
    /\ UNCHANGED <<stored, memVars, writes, file, boundVars>>

Unlinked ==
    /\ cleanup = "unlinking" /\ cleanup' = "none"
    /\ file' = <<>>
    /\ UNCHANGED <<stored, memVars, buffer, writes, boundVars, cleaned>>

(* HQ's process ends, by a signal or a failed append nobody catches:       *)
(* memory is lost, and what is being written may be.                       *)
HqEnds ==
    /\ hqEnds < MaxHqEnds
    /\ hqEnds' = hqEnds + 1
    /\ log' = <<>> /\ hydrated' = FALSE /\ fileLoads' = {}
    /\ buffer' = <<>> /\ writes' = {} /\ cleanup' = "none"
    /\ UNCHANGED <<stored, file, removals, cleaned>>

ElNext ==
    \/ StoreEvent \/ FlushTimer \/ GetEvents \/ RemoveSession \/ CleanupTimer \/ Unlinked \/ HqEnds
    \/ \E k \in writes : Appended(k)
    \/ \E l \in fileLoads : FileRead(l) \/ Hydrate(l)

ElSpec == ElInit /\ [][ElNext]_elVars

-----------------------------------------------------------------------------
(* Properties. *)

(* What the browser can be shown will survive HQ: as long as no file was   *)
(* deleted, every event in memory is in the file, in an append that is     *)
(* under way or in the buffer whose timer will flush it -- whatever the    *)
(* order in which flushes, loads, removals and restarts overlap.           *)
NothingShownIsUnsaved ==
    ~cleaned => ToSet(log) \subseteq ToSet(file) \cup ToSet(buffer) \cup UNION {ToSet(k) : k \in writes}
=============================================================================
