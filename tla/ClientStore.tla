---------------------------- MODULE ClientStore ----------------------------
(***************************************************************************)
(* The store of dynamically registered OAuth clients (src/src/auth.rs):    *)
(* registrations bounded at MAX_CLIENTS by least-recent use, and written   *)
(* behind to oauth-clients.json by at most one detached task, driven by    *)
(* two atomic flags, dirty and writing.                                    *)
(*                                                                         *)
(* A client stands for one POST /oauth/register: its id is a fresh UUID,   *)
(* so it is stored by one handler and is not stored again once evicted.    *)
(* handler[c] is where that handler stands, writer[c] where the persist    *)
(* task it spawned (if it spawned one) stands.  Each step below is one     *)
(* access to shared memory (under the registrations lock, or one atomic)   *)
(* or one file operation, so handlers and tasks interleave as threads do.  *)
(***************************************************************************)
EXTENDS FiniteSets, Integers

CONSTANTS
    Client,       \* the clients that may register
    Capacity,     \* MAX_CLIENTS
    DiskFails,    \* whether file operations may fail
    MaxTime,      \* bound: the last second of the clock
    MaxRestarts   \* bound: how often the process is killed and started

ASSUME CapacityAssumption == Capacity \in Nat \ {0}
ASSUME DiskAssumption == DiskFails \in BOOLEAN
ASSUME BoundsAssumption == MaxTime \in Nat /\ MaxRestarts \in Nat

VARIABLES
    registrations, \* the client ids in the registrations map
    last_used,     \* ClientReg.last_used; kept for evicted clients as history
    last_seen,     \* history: when each was last inserted, or used
    dirty, writing,
    handler, writer,
    snapshot,      \* the clone of the map each persist task works on
    tmp, file,     \* oauth-clients.json.tmp and oauth-clients.json
    excused,       \* history: the last write, or the load, failed
    now, restarts

vars == <<registrations, last_used, last_seen, dirty, writing, handler, writer,
          snapshot, tmp, file, excused, now, restarts>>

Time == 0..MaxTime

(* A file is absent, cut short by a write that did not end, or a whole map. *)
Map(clients, used) ==
    [clients |-> clients,
     last_used |-> [c \in Client |-> IF c \in clients THEN used[c] ELSE 0]]
Maps    == [clients : SUBSET Client, last_used : [Client -> Time]]
Empty   == Map({}, [c \in Client |-> 0])
Content == [kind : {"absent", "torn", "whole"}, map : Maps]
Absent  == [kind |-> "absent", map |-> Empty]
Torn    == [kind |-> "torn", map |-> Empty]
Whole(m) == [kind |-> "whole", map |-> m]

HandlerStates == {"new", "stamped", "stored", "marked", "done", "lost"}
WriterStates == {"none", "check", "clone", "write", "writing", "rename",
                 "sleep", "release", "recheck", "retake"}

(* The states in which a persist task holds the writer slot. *)
Holding == {"check", "clone", "write", "writing", "rename", "sleep", "release"}
(* The states in which it works on its snapshot. *)
Carrying == {"write", "writing", "rename"}

TypeOK ==
    /\ registrations \in SUBSET Client
    /\ last_used \in [Client -> Time] /\ last_seen \in [Client -> Time]
    /\ dirty \in BOOLEAN /\ writing \in BOOLEAN /\ excused \in BOOLEAN
    /\ handler \in [Client -> HandlerStates]
    /\ writer \in [Client -> WriterStates]
    /\ snapshot \in [Client -> Maps]
    /\ tmp \in Content /\ file \in Content
    /\ now \in Time /\ restarts \in 0..MaxRestarts

Init ==
    /\ registrations = {}
    /\ last_used = [c \in Client |-> 0] /\ last_seen = [c \in Client |-> 0]
    /\ dirty = FALSE /\ writing = FALSE /\ excused = FALSE
    /\ handler = [c \in Client |-> "new"]
    /\ writer = [c \in Client |-> "none"]
    /\ snapshot = [c \in Client |-> Empty]
    /\ tmp = Absent /\ file = Absent
    /\ now = 0 /\ restarts = 0

storage == <<tmp, file>>
clock   == <<now, restarts>>
map     == <<registrations, last_used, last_seen>>

-----------------------------------------------------------------------------
(* make_room_for_client: below the cap nothing goes; at the cap the least  *)
(* recently used go until Capacity - 1 are left, ties in any order.        *)
\* mutant
MakeRoomEvictingRecent(kept) ==
    IF Cardinality(registrations) < Capacity
    THEN kept = registrations
    ELSE /\ Cardinality(kept) = Capacity - 1
         /\ \A k \in kept, e \in registrations \ kept : last_used[k] <= last_used[e]

MakeRoomForClient(kept) ==
    IF Cardinality(registrations) < Capacity
    THEN kept = registrations
    ELSE /\ Cardinality(kept) = Capacity - 1
         /\ \A k \in kept, e \in registrations \ kept : last_used[e] <= last_used[k]

(* ClientReg::new: stamped before the handler has the registrations lock,   *)
(* so that others may register, and time may pass, before it is inserted.   *)
(* A handler that its caller drops while it waits takes no further step.    *)
Stamp(c) ==
    /\ handler[c] = "new"
    /\ last_used' = [last_used EXCEPT ![c] = now]
    /\ handler' = [handler EXCEPT ![c] = "stamped"]
    /\ UNCHANGED <<registrations, last_seen, dirty, writing, writer, snapshot,
                   storage, excused, clock>>

(* register, under the write lock: make room, then insert. *)
Register(c) ==
    /\ handler[c] = "stamped"
    /\ \E kept \in SUBSET registrations :
          /\ MakeRoomForClient(kept)
          /\ registrations' = kept \cup {c}
    /\ last_seen' = [last_seen EXCEPT ![c] = now]
    /\ handler' = [handler EXCEPT ![c] = "stored"]
    /\ UNCHANGED <<last_used, dirty, writing, writer, snapshot, storage, excused, clock>>

(* persist_soon: dirty.store(true), outside the lock. *)
MarkDirty(c) ==
    /\ handler[c] = "stored"
    /\ dirty' = TRUE
    /\ handler' = [handler EXCEPT ![c] = "marked"]
    /\ UNCHANGED <<map, writing, writer, snapshot, storage, excused, clock>>

(* persist_soon: writing.swap(true); who finds it free spawns the task. *)
\* mutant
SpawnAlways(c) ==
    /\ handler[c] = "marked"
    /\ handler' = [handler EXCEPT ![c] = "done"]
    /\ writing' = TRUE
    /\ writer' = [writer EXCEPT ![c] = "check"]
    /\ UNCHANGED <<map, dirty, snapshot, storage, excused, clock>>

TakeWriterSlot(c) ==
    /\ handler[c] = "marked"
    /\ handler' = [handler EXCEPT ![c] = "done"]
    /\ writing' = TRUE
    /\ writer' = IF writing THEN writer ELSE [writer EXCEPT ![c] = "check"]
    /\ UNCHANGED <<map, dirty, snapshot, storage, excused, clock>>

(* redirect_allowed_for, for an accepted redirect: /oauth/authorize marks   *)
(* the registration used, under the lock.  It does not schedule a write.    *)
Touch(c) ==
    /\ c \in registrations
    /\ last_used' = [last_used EXCEPT ![c] = now]
    /\ last_seen' = [last_seen EXCEPT ![c] = now]
    /\ UNCHANGED <<registrations, dirty, writing, handler, writer, snapshot,
                   storage, excused, clock>>

-----------------------------------------------------------------------------
(* The persist task.  GoTo moves task c on. *)
GoTo(c, from, to) == writer[c] = from /\ writer' = [writer EXCEPT ![c] = to]

(* while dirty.swap(false) *)
CheckDirty(c) ==
    /\ IF dirty THEN GoTo(c, "check", "clone") ELSE GoTo(c, "check", "release")
    /\ dirty' = FALSE
    /\ UNCHANGED <<map, writing, handler, snapshot, storage, excused, clock>>

(* registrations.read().await.clone() *)
Clone(c) ==
    /\ GoTo(c, "clone", "write")
    /\ snapshot' = [snapshot EXCEPT ![c] = Map(registrations, last_used)]
    /\ UNCHANGED <<map, dirty, writing, handler, storage, excused, clock>>

(* persist_clients_to: std::fs::write truncates the staging file first ... *)
\* mutant
BeginWriteAndClear(c) ==
    /\ GoTo(c, "write", "writing")
    /\ tmp' = Torn
    /\ dirty' = FALSE
    /\ UNCHANGED <<map, writing, handler, snapshot, file, excused, clock>>

BeginWrite(c) ==
    /\ GoTo(c, "write", "writing")
    /\ tmp' = Torn
    /\ UNCHANGED <<map, dirty, writing, handler, snapshot, file, excused, clock>>

(* ... and then holds the whole map, *)
EndWrite(c) ==
    /\ GoTo(c, "writing", "rename")
    /\ tmp' = Whole(snapshot[c])
    /\ UNCHANGED <<map, dirty, writing, handler, snapshot, file, excused, clock>>

(* or the write fails, before or after truncating: warned, and given up.   *)
WriteFails(c) ==
    /\ DiskFails
    /\ GoTo(c, "write", "sleep") \/ GoTo(c, "writing", "sleep")
    /\ excused' = TRUE
    /\ UNCHANGED <<map, dirty, writing, handler, snapshot, storage, clock>>

(* rename moves whatever the staging file holds over the target. *)
Rename(c) ==
    /\ GoTo(c, "rename", "sleep")
    /\ file' = tmp /\ tmp' = Absent
    /\ excused' = FALSE
    /\ UNCHANGED <<map, dirty, writing, handler, snapshot, clock>>

(* A failed rename removes the staging file, as far as it can. *)
RenameFails(c) ==
    /\ DiskFails
    /\ GoTo(c, "rename", "sleep")
    /\ tmp' \in {tmp, Absent}
    /\ excused' = TRUE
    /\ UNCHANGED <<map, dirty, writing, handler, snapshot, file, clock>>

(* sleep(PERSIST_MIN_INTERVAL).await; the task's clone is gone by then. *)
Wake(c) ==
    /\ GoTo(c, "sleep", "check")
    /\ snapshot' = [snapshot EXCEPT ![c] = Empty]
    /\ UNCHANGED <<map, dirty, writing, handler, storage, excused, clock>>

(* writing.store(false) *)
\* mutant
ReleaseForGood(c) ==
    /\ GoTo(c, "release", "none")
    /\ writing' = FALSE
    /\ UNCHANGED <<map, dirty, handler, snapshot, storage, excused, clock>>

Release(c) ==
    /\ GoTo(c, "release", "recheck")
    /\ writing' = FALSE
    /\ UNCHANGED <<map, dirty, handler, snapshot, storage, excused, clock>>

(* if !dirty.load() { break } *)
Recheck(c) ==
    /\ IF dirty THEN GoTo(c, "recheck", "retake") ELSE GoTo(c, "recheck", "none")
    /\ UNCHANGED <<map, dirty, writing, handler, snapshot, storage, excused, clock>>

(* writing.swap(true): done if another caller took the slot, else go round. *)
Retake(c) ==
    /\ IF writing THEN GoTo(c, "retake", "none") ELSE GoTo(c, "retake", "check")
    /\ writing' = TRUE
    /\ UNCHANGED <<map, dirty, handler, snapshot, storage, excused, clock>>

-----------------------------------------------------------------------------
(* load_clients_from: an absent, unreadable or unparsable file is no clients. *)
LoadFrom(content) == IF content.kind = "whole" THEN content.map ELSE Empty

(* The process is killed at any point, handlers and tasks with it, and the  *)
(* next one loads what the disk holds, or nothing if the read fails.        *)
Restart ==
    /\ restarts < MaxRestarts
    /\ restarts' = restarts + 1
    /\ \E loaded \in {LoadFrom(file)} \cup (IF DiskFails THEN {Empty} ELSE {}) :
          /\ registrations' = loaded.clients
          /\ last_used' = loaded.last_used
          /\ excused' = (loaded # LoadFrom(file))
          /\ handler' = [c \in Client |->
                IF handler[c] = "new" THEN "new"
                ELSE IF c \in loaded.clients THEN "done" ELSE "lost"]
    /\ dirty' = FALSE /\ writing' = FALSE
    /\ writer' = [c \in Client |-> "none"]
    /\ snapshot' = [c \in Client |-> Empty]
    /\ UNCHANGED <<last_seen, storage, now>>

Tick ==
    /\ now < MaxTime
    /\ now' = now + 1
    /\ UNCHANGED <<map, dirty, writing, handler, writer, snapshot, storage,
                   excused, restarts>>

HandlerStep(c) == MarkDirty(c) \/ TakeWriterSlot(c)

WriterStep(c) ==
    \/ CheckDirty(c) \/ Clone(c) \/ BeginWrite(c) \/ EndWrite(c) \/ Rename(c)
    \/ WriteFails(c) \/ RenameFails(c)
    \/ Wake(c) \/ Release(c) \/ Recheck(c) \/ Retake(c)

Next ==
    \/ \E c \in Client :
          Stamp(c) \/ Register(c) \/ Touch(c) \/ HandlerStep(c) \/ WriterStep(c)
    \/ Restart \/ Tick

Spec == Init /\ [][Next]_vars

(* A handler past its insertion runs to its end without awaiting, and the    *)
(* runtime polls a spawned task whose timer or blocking write is done.       *)
FairSpec == Spec /\ \A c \in Client : WF_vars(HandlerStep(c)) /\ WF_vars(WriterStep(c))

-----------------------------------------------------------------------------
(* The size bound of the store: MAX_CLIENTS, however handlers interleave,   *)
(* and in what a restart finds on disk (which load_clients_from does not    *)
(* bound again).                                                            *)
SizeBounded ==
    /\ Cardinality(registrations) <= Capacity
    /\ Cardinality(file.map.clients) <= Capacity

(* "Only one writer runs at a time": two tasks never share the fixed .tmp   *)
(* name, and the flag says whether there is one.                            *)
OneWriter ==
    /\ \A c, d \in Client : writer[c] \in Holding /\ writer[d] \in Holding => c = d
    /\ writing = (\E c \in Client : writer[c] \in Holding)

(* A restart never finds a half-written oauth-clients.json, wherever the    *)
(* process was killed: load_clients_from would drop every registration.     *)
FileNeverTorn == file.kind # "torn"

(* A set dirty flag always has somebody who will still look at it: a task   *)
(* that holds the slot or is about to recheck, or a handler about to spawn  *)
(* one.  Nobody leaves with the flag set and the slot free.                 *)
DirtyIsNoticed ==
    dirty => \E c \in Client :
                \/ handler[c] = "marked"
                \/ writer[c] \in Holding \cup {"recheck", "retake"}

(* The clients that are on disk, or will be when the write under way ends.  *)
OnItsWay(clients) ==
    \/ \E c \in Client : writer[c] = "clone"
    \/ \E c \in Client : writer[c] \in Carrying /\ snapshot[c].clients = clients
    \/ LoadFrom(file).clients = clients

(* No lost update: once every handler has set the flag, a clear flag means  *)
(* that the disk holds exactly the registrations in memory, or the write    *)
(* under way brings them there, unless the last write or the load failed.   *)
CleanIsSaved ==
    ~dirty /\ ~excused /\ (\A c \in Client : handler[c] # "stored")
        => OnItsWay(registrations)

(* The clients that were inserted, or loaded, by this process; those of     *)
(* them that bear a stamp no older than c's; and those that were inserted   *)
(* or used no earlier than c's stamp says.                                  *)
Known == {c \in Client : handler[c] \in {"stored", "marked", "done"}}
Outran(c) == {d \in Known \ {c} : last_used[d] >= last_used[c]}
Active(c) == {d \in Known \ {c} : last_seen[d] >= last_used[c]}

(* "An unauthenticated registration flood evicts its own unused entries     *)
(* well before it reaches a client that is actively signing users in": a    *)
(* client loses its place only after at least Capacity others were          *)
(* registered or used, none earlier than its own last use.  All of those    *)
(* but one bear a stamp to show it: the one that room was made for may have *)
(* been stamped before it waited for the lock, and be older by its stamp    *)
(* than the client it displaced.                                            *)
FloodNeedsCapacity ==
    \A c \in Known \ registrations :
        /\ Cardinality(Active(c)) >= Capacity
        /\ Cardinality(Outran(c)) >= Capacity - 1

(* The store is a write-behind store: whoever carries a snapshot is staging *)
(* it, and one rename commits it.                                           *)
Staged ==
    IF \E c \in Client : writer[c] \in Carrying
    THEN [staging |-> TRUE,
          items |-> snapshot[CHOOSE c \in Client : writer[c] \in Carrying].clients]
    ELSE [staging |-> FALSE, items |-> {}]

Abstract == INSTANCE WriteBehind
    WITH Item <- Client, Bound <- Capacity,
         mem <- registrations, staged <- Staged, disk <- LoadFrom(file).clients

(* ClientStore implements WriteBehind. *)
ImplementsWriteBehind == Abstract!Spec

(* Every registration reaches the disk, unless it is evicted, its process   *)
(* is killed first, or the last write to the disk failed.                   *)
EventuallySaved ==
    \A c \in Client :
        c \in registrations
            ~> (c \in LoadFrom(file).clients \/ c \notin registrations \/ excused)
=============================================================================
