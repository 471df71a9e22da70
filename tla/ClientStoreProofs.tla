------------------------- MODULE ClientStoreProofs -------------------------
(***************************************************************************)
(* Proofs about ClientStore, for any set of clients and any Capacity,      *)
(* MaxTime and MaxRestarts.                                                *)
(*                                                                         *)
(* The properties hold together: Slot (who holds the writer slot, and that *)
(* the flag says so) is inductive by itself and carries OneWriter;         *)
(* Staging (what the staging file and the snapshots hold) rests on Slot    *)
(* and carries FileNeverTorn and CleanIsSaved; Stamped (no stamp, on disk  *)
(* either, is ahead of the clock, or later than its client was last seen)  *)
(* and Counted (only finitely many clients are known) carry                *)
(* FloodNeedsCapacity.                                                     *)
(***************************************************************************)
EXTENDS ClientStore, FiniteSetTheorems, TLAPS

(* Every step of a client's handler or task, by name: what Next says.       *)
ClientNext(c) ==
    \/ Stamp(c) \/ Register(c) \/ Touch(c) \/ MarkDirty(c) \/ TakeWriterSlot(c)
    \/ CheckDirty(c) \/ Clone(c) \/ BeginWrite(c) \/ EndWrite(c) \/ Rename(c)
    \/ WriteFails(c) \/ RenameFails(c)
    \/ Wake(c) \/ Release(c) \/ Recheck(c) \/ Retake(c)

(* The steps of Next, client by client.                                     *)
LEMMA NextCases == Next <=> (\E c \in Client : ClientNext(c)) \/ Restart \/ Tick
BY DEF Next, ClientNext, HandlerStep, WriterStep

-----------------------------------------------------------------------------
(* Maps and files.                                                          *)

(* The clock starts within its bound.                                       *)
LEMMA ZeroIsTime == 0 \in Time
BY BoundsAssumption DEF Time

(* A map of clients with their stamps is a Map.                             *)
LEMMA MapType ==
    ASSUME NEW clients \in SUBSET Client, NEW used \in [Client -> Time]
    PROVE  /\ Map(clients, used) \in Maps
           /\ Map(clients, used).clients = clients
BY ZeroIsTime DEF Map, Maps

(* The empty map is a map.                                                  *)
LEMMA EmptyType == Empty \in Maps /\ Empty.clients = {}
BY MapType, ZeroIsTime DEF Empty

(* The three states of a file, and what load_clients_from makes of them.    *)
LEMMA ContentType ==
    /\ Absent \in Content /\ Torn \in Content
    /\ Absent.kind = "absent" /\ Torn.kind = "torn"
    /\ Absent.map = Empty /\ Torn.map = Empty
    /\ \A m \in Maps : /\ Whole(m) \in Content
                       /\ Whole(m).kind = "whole" /\ Whole(m).map = m
BY EmptyType DEF Content, Absent, Torn, Whole

(* load_clients_from returns a map, whatever it finds.                      *)
LEMMA LoadType ==
    ASSUME NEW content \in Content
    PROVE  LoadFrom(content) \in Maps
BY EmptyType DEF LoadFrom, Content

-----------------------------------------------------------------------------
(* Every reachable state is well typed.                                     *)
THEOREM TypeCorrect == Spec => []TypeOK
<1>1. Init => TypeOK
  <2> SUFFICES ASSUME Init PROVE TypeOK
    OBVIOUS
  <2>1. /\ last_used \in [Client -> Time] /\ last_seen \in [Client -> Time]
        /\ now \in Time /\ restarts \in 0..MaxRestarts
    BY ZeroIsTime, BoundsAssumption DEF Init
  <2>2. snapshot \in [Client -> Maps] /\ tmp \in Content /\ file \in Content
    BY EmptyType, ContentType DEF Init
  <2> QED
    BY <2>1, <2>2 DEF Init, TypeOK, HandlerStates, WriterStates
<1>2. TypeOK /\ [Next]_vars => TypeOK'
  <2> SUFFICES ASSUME TypeOK, [Next]_vars PROVE TypeOK'
    OBVIOUS
  <2> USE DEF TypeOK, storage, clock, map
  <2>1. ASSUME NEW c \in Client, ClientNext(c) PROVE TypeOK'
    <3>0. CASE Stamp(c)
      BY <3>0 DEF Stamp, HandlerStates
    <3>1. CASE Register(c)
      BY <3>1 DEF Register, HandlerStates
    <3>2. CASE Touch(c)
      BY <3>2 DEF Touch
    <3>3. CASE MarkDirty(c)
      BY <3>3 DEF MarkDirty, HandlerStates
    <3>4. CASE TakeWriterSlot(c)
      BY <3>4 DEF TakeWriterSlot, HandlerStates, WriterStates
    <3>5. CASE CheckDirty(c)
      BY <3>5 DEF CheckDirty, GoTo, WriterStates
    <3>6. CASE Clone(c)
      BY <3>6, MapType DEF Clone, GoTo, WriterStates
    <3>7. CASE BeginWrite(c)
      BY <3>7, ContentType DEF BeginWrite, GoTo, WriterStates
    <3>8. CASE EndWrite(c)
      BY <3>8, ContentType DEF EndWrite, GoTo, WriterStates
    <3>9. CASE Rename(c)
      BY <3>9, ContentType DEF Rename, GoTo, WriterStates
    <3>10. CASE WriteFails(c)
      BY <3>10 DEF WriteFails, GoTo, WriterStates
    <3>11. CASE RenameFails(c)
      BY <3>11, ContentType DEF RenameFails, GoTo, WriterStates
    <3>12. CASE Wake(c)
      BY <3>12, EmptyType DEF Wake, GoTo, WriterStates
    <3>13. CASE Release(c)
      BY <3>13 DEF Release, GoTo, WriterStates
    <3>14. CASE Recheck(c)
      BY <3>14 DEF Recheck, GoTo, WriterStates
    <3>15. CASE Retake(c)
      BY <3>15 DEF Retake, GoTo, WriterStates
    <3> QED
      BY <2>1, <3>0, <3>1, <3>2, <3>3, <3>4, <3>5, <3>6, <3>7, <3>8, <3>9, <3>10,
         <3>11, <3>12, <3>13, <3>14, <3>15 DEF ClientNext
  <2>2. CASE Restart
    <3>1. PICK loaded \in {LoadFrom(file), Empty} :
             /\ registrations' = loaded.clients
             /\ last_used' = loaded.last_used
             /\ excused' = (loaded # LoadFrom(file))
             /\ handler' = [c \in Client |->
                   IF handler[c] = "new" THEN "new"
                   ELSE IF c \in loaded.clients THEN "done" ELSE "lost"]
      BY <2>2 DEF Restart
    <3>2. loaded \in Maps
      BY LoadType, EmptyType
    <3>3. restarts' \in 0..MaxRestarts
      BY <2>2, BoundsAssumption DEF Restart
    <3> QED
      BY <2>2, <3>1, <3>2, <3>3, EmptyType DEF Restart, Maps, HandlerStates, WriterStates
  <2>3. CASE Tick
    BY <2>3, BoundsAssumption DEF Tick, Time
  <2>4. CASE UNCHANGED vars
    BY <2>4 DEF vars
  <2> QED
    BY <2>1, <2>2, <2>3, <2>4, NextCases
<1> QED
  BY <1>1, <1>2, PTL DEF Spec

-----------------------------------------------------------------------------
(* The writer slot.  A handler that has not yet tried to take it has no     *)
(* task, so spawning one never doubles a task that is still running.        *)
NotSpawned ==
    \A c \in Client : handler[c] \in {"new", "stamped", "stored", "marked"} => writer[c] = "none"

Slot == TypeOK /\ NotSpawned /\ OneWriter

(* What one step of client c does to the slot: only c's task moves, and     *)
(* either it keeps its hold (or its lack of one) with the flag untouched,   *)
(* or it takes a free slot, or it leaves a slot it holds and frees it, or   *)
(* it sets a flag that was set.                                             *)
LEMMA SlotStep ==
    ASSUME Slot, NEW c \in Client, ClientNext(c)
    PROVE  /\ \A d \in Client \ {c} : writer'[d] = writer[d]
           /\ \/ /\ writer'[c] \in Holding <=> writer[c] \in Holding
                 /\ writing' = writing
              \/ /\ ~writing /\ writing' = TRUE
                 /\ writer[c] \notin Holding /\ writer'[c] \in Holding
              \/ writer[c] \in Holding /\ writer'[c] \notin Holding /\ writing' = FALSE
<1> USE DEF Slot, TypeOK, NotSpawned, Holding
<1>1. CASE Stamp(c) \/ Register(c) \/ Touch(c) \/ MarkDirty(c)
  BY <1>1 DEF Stamp, Register, Touch, MarkDirty
<1>2. CASE TakeWriterSlot(c)
  BY <1>2 DEF TakeWriterSlot
<1>3. CASE CheckDirty(c) \/ Clone(c) \/ BeginWrite(c) \/ EndWrite(c) \/ Rename(c)
  BY <1>3 DEF CheckDirty, Clone, BeginWrite, EndWrite, Rename, GoTo, WriterStates
<1>4. CASE WriteFails(c) \/ RenameFails(c) \/ Wake(c)
  BY <1>4 DEF WriteFails, RenameFails, Wake, GoTo, WriterStates
<1>5. CASE Release(c)
  BY <1>5 DEF Release, GoTo, WriterStates
<1>6. CASE Recheck(c)
  BY <1>6 DEF Recheck, GoTo, WriterStates
<1>7. CASE Retake(c)
  BY <1>7 DEF Retake, GoTo, WriterStates
<1> QED
  BY <1>1, <1>2, <1>3, <1>4, <1>5, <1>6, <1>7 DEF ClientNext

(* The task of c starts only when c's handler spawns it, which it does once. *)
LEMMA SpawnStep ==
    ASSUME Slot, NEW c \in Client, ClientNext(c)
    PROVE  NotSpawned'
<1> USE DEF Slot, TypeOK, NotSpawned
<1>1. CASE Stamp(c) \/ Register(c) \/ Touch(c) \/ MarkDirty(c)
  BY <1>1 DEF Stamp, Register, Touch, MarkDirty
<1>2. CASE TakeWriterSlot(c)
  BY <1>2 DEF TakeWriterSlot
<1>3. CASE CheckDirty(c) \/ Clone(c) \/ BeginWrite(c) \/ EndWrite(c) \/ Rename(c)
  BY <1>3 DEF CheckDirty, Clone, BeginWrite, EndWrite, Rename, GoTo
<1>4. CASE WriteFails(c) \/ RenameFails(c) \/ Wake(c)
  BY <1>4 DEF WriteFails, RenameFails, Wake, GoTo
<1>5. CASE Release(c) \/ Recheck(c) \/ Retake(c)
  BY <1>5 DEF Release, Recheck, Retake, GoTo
<1> QED
  BY <1>1, <1>2, <1>3, <1>4, <1>5 DEF ClientNext

(* Slot is inductive.                                                       *)
LEMMA SlotInvariant == Spec => []Slot
<1>1. Init => NotSpawned /\ OneWriter
  BY DEF Init, NotSpawned, OneWriter, Holding
<1>2. Slot /\ [Next]_vars => (NotSpawned /\ OneWriter)'
  <2> SUFFICES ASSUME Slot, [Next]_vars PROVE (NotSpawned /\ OneWriter)'
    OBVIOUS
  <2>1. ASSUME NEW c \in Client, ClientNext(c) PROVE (NotSpawned /\ OneWriter)'
    <3>1. NotSpawned'
      BY <2>1, SpawnStep
    <3>2. /\ \A d \in Client \ {c} : writer'[d] = writer[d]
          /\ \/ /\ writer'[c] \in Holding <=> writer[c] \in Holding
                /\ writing' = writing
             \/ /\ ~writing /\ writing' = TRUE
                /\ writer[c] \notin Holding /\ writer'[c] \in Holding
             \/ writer[c] \in Holding /\ writer'[c] \notin Holding /\ writing' = FALSE
      BY <2>1, SlotStep
    <3>3. OneWriter'
      BY <3>2 DEF Slot, OneWriter
    <3> QED
      BY <3>1, <3>3
  <2>2. CASE Restart
    BY <2>2 DEF Restart, NotSpawned, OneWriter, Holding
  <2>3. CASE Tick \/ UNCHANGED vars
    BY <2>3 DEF Tick, vars, Slot, NotSpawned, OneWriter
  <2> QED
    BY <2>1, <2>2, <2>3, NextCases
<1> QED
  BY <1>1, <1>2, TypeCorrect, PTL DEF Spec, Slot

(* At most one persist task runs, and writing says whether one does.        *)
THEOREM OneWriterHolds == Spec => []OneWriter
BY SlotInvariant, PTL DEF Slot

-----------------------------------------------------------------------------
(* Nobody leaves a set dirty flag behind with the slot free.                *)
LEMMA NoticedStep ==
    ASSUME Slot, DirtyIsNoticed, NEW c \in Client, ClientNext(c)
    PROVE  DirtyIsNoticed'
<1> USE DEF Slot, TypeOK, DirtyIsNoticed, Holding
<1>1. CASE Stamp(c) \/ Register(c) \/ Touch(c) \/ MarkDirty(c)
  BY <1>1 DEF Stamp, Register, Touch, MarkDirty
<1>2. CASE TakeWriterSlot(c)
  BY <1>2 DEF TakeWriterSlot, NotSpawned, OneWriter
<1>3. CASE CheckDirty(c) \/ Clone(c) \/ BeginWrite(c) \/ EndWrite(c) \/ Rename(c)
  BY <1>3 DEF CheckDirty, Clone, BeginWrite, EndWrite, Rename, GoTo
<1>4. CASE WriteFails(c) \/ RenameFails(c) \/ Wake(c)
  BY <1>4 DEF WriteFails, RenameFails, Wake, GoTo
<1>5. CASE Release(c) \/ Recheck(c)
  BY <1>5 DEF Release, Recheck, GoTo
<1>6. CASE Retake(c)
  BY <1>6 DEF Retake, GoTo, OneWriter
<1> QED
  BY <1>1, <1>2, <1>3, <1>4, <1>5, <1>6 DEF ClientNext

(* A set dirty flag always has somebody who will still look at it: the      *)
(* order of persist_soon's stores and swaps loses no wake-up.               *)
THEOREM DirtyNoticed == Spec => []DirtyIsNoticed
<1>1. Init => DirtyIsNoticed
  BY DEF Init, DirtyIsNoticed
<1>2. Slot /\ DirtyIsNoticed /\ [Next]_vars => DirtyIsNoticed'
  <2> SUFFICES ASSUME Slot, DirtyIsNoticed, [Next]_vars PROVE DirtyIsNoticed'
    OBVIOUS
  <2>1. CASE Restart
    BY <2>1 DEF Restart, DirtyIsNoticed
  <2>2. CASE Tick \/ UNCHANGED vars
    BY <2>2 DEF Tick, vars, DirtyIsNoticed
  <2> QED
    BY <2>1, <2>2, NoticedStep, NextCases
<1> QED
  BY <1>1, <1>2, SlotInvariant, PTL DEF Spec

-----------------------------------------------------------------------------
(* What is staged.  Settled: every change of the map has been announced and *)
(* taken note of.                                                           *)
Settled == ~dirty /\ \A c \in Client : handler[c] # "stored"

(* The staging file is whole when it is renamed, which needs a single       *)
(* writer; when Settled, a snapshot under way is the map of now, and with   *)
(* none under way the disk has it, unless the disk failed.                  *)
StagedWhole == \A c \in Client : writer[c] = "rename" => tmp = Whole(snapshot[c])
CarriedFresh ==
    Settled => \A c \in Client : writer[c] \in Carrying => snapshot[c].clients = registrations
DiskFresh ==
    Settled /\ ~excused /\ (\A c \in Client : writer[c] \notin {"clone"} \cup Carrying)
        => LoadFrom(file).clients = registrations

Staging == FileNeverTorn /\ StagedWhole /\ CarriedFresh /\ DiskFresh

(* A step of c's handler or task keeps Staging.                             *)
LEMMA StagingStep ==
    ASSUME Slot, Staging, NEW c \in Client, ClientNext(c)
    PROVE  Staging'
<1> USE DEF Slot, TypeOK, Staging, FileNeverTorn, StagedWhole, CarriedFresh,
            DiskFresh, Settled, Carrying, storage, clock, map
<1>0. CASE Stamp(c)
  BY <1>0 DEF Stamp
<1>1. CASE Register(c)
  BY <1>1 DEF Register
<1>2. CASE Touch(c)
  BY <1>2 DEF Touch
<1>3. CASE MarkDirty(c)
  BY <1>3 DEF MarkDirty
<1>4. CASE TakeWriterSlot(c)
  BY <1>4 DEF TakeWriterSlot, NotSpawned
<1> USE DEF GoTo, Holding, OneWriter
<1>5. CASE CheckDirty(c)
  BY <1>5 DEF CheckDirty
<1>6. CASE Clone(c)
  BY <1>6, MapType DEF Clone
<1>7. CASE BeginWrite(c)
  BY <1>7 DEF BeginWrite
<1>8. CASE EndWrite(c)
  BY <1>8 DEF EndWrite
<1>9. CASE Rename(c)
  <2>1. snapshot[c] \in Maps /\ file' = Whole(snapshot[c])
    BY <1>9 DEF Rename
  <2>2. file'.kind = "whole" /\ LoadFrom(file') = snapshot[c]
    BY <2>1, ContentType DEF LoadFrom
  <2> QED
    BY <1>9, <2>1, <2>2 DEF Rename
<1>10. CASE WriteFails(c)
  BY <1>10 DEF WriteFails
<1>11. CASE RenameFails(c)
  BY <1>11 DEF RenameFails
<1>12. CASE Wake(c)
  BY <1>12 DEF Wake
<1>13. CASE Release(c)
  BY <1>13 DEF Release
<1>14. CASE Recheck(c)
  BY <1>14 DEF Recheck
<1>15. CASE Retake(c)
  BY <1>15 DEF Retake
<1> QED
  BY <1>0, <1>1, <1>2, <1>3, <1>4, <1>5, <1>6, <1>7, <1>8, <1>9, <1>10, <1>11,
     <1>12, <1>13, <1>14, <1>15 DEF ClientNext

(* Staging is inductive, given Slot.                                        *)
LEMMA StagingInvariant == Spec => []Staging
<1> USE DEF Staging, FileNeverTorn, StagedWhole, CarriedFresh, DiskFresh, Settled
<1>1. Init => Staging
  BY EmptyType, ContentType DEF Init, LoadFrom, Carrying
<1>2. Slot /\ Staging /\ [Next]_vars => Staging'
  <2> SUFFICES ASSUME Slot, Staging, [Next]_vars PROVE Staging'
    OBVIOUS
  <2>1. CASE Restart
    BY <2>1 DEF Restart, storage, Carrying
  <2>2. CASE Tick \/ UNCHANGED vars
    BY <2>2 DEF Tick, vars, storage, map
  <2> QED
    BY <2>1, <2>2, StagingStep, NextCases
<1> QED
  BY <1>1, <1>2, SlotInvariant, PTL DEF Spec

(* A kill at any point leaves a whole oauth-clients.json, or none.          *)
THEOREM NeverTorn == Spec => []FileNeverTorn
BY StagingInvariant, PTL DEF Staging

(* No update is lost between the flags: what is clean is on its way.        *)
THEOREM CleanSaved == Spec => []CleanIsSaved
<1>1. Staging => CleanIsSaved
  BY DEF Staging, CarriedFresh, DiskFresh, Settled, CleanIsSaved, OnItsWay
<1> QED
  BY <1>1, StagingInvariant, PTL

-----------------------------------------------------------------------------
(* The caps.                                                                *)
Small(clients) == IsFiniteSet(clients) /\ Cardinality(clients) <= Capacity

(* Every set of clients that memory, a snapshot or a file holds is small.   *)
AllSmall ==
    /\ Small(registrations) /\ Small(tmp.map.clients) /\ Small(file.map.clients)
    /\ \A c \in Client : Small(snapshot[c].clients)

(* No clients are within the cap.                                           *)
LEMMA NothingIsSmall == Small({})
BY FS_EmptySet, CapacityAssumption DEF Small

(* make_room_for_client leaves room for one.                                *)
LEMMA RoomForOne ==
    ASSUME Small(registrations), NEW c,
           NEW kept \in SUBSET registrations, MakeRoomForClient(kept)
    PROVE  Small(kept \cup {c})
<1>1. IsFiniteSet(kept) /\ Cardinality(kept) \in Nat /\ Cardinality(registrations) \in Nat
  BY FS_Subset, FS_CardinalityType DEF Small
<1>2. Cardinality(kept) <= Capacity - 1
  BY <1>1, CapacityAssumption DEF MakeRoomForClient
<1>3. IsFiniteSet(kept \cup {c}) /\ Cardinality(kept \cup {c}) <= Cardinality(kept) + 1
  BY <1>1, FS_AddElement
<1>4. Cardinality(kept \cup {c}) \in Nat
  BY <1>3, FS_CardinalityType
<1> QED
  BY <1>1, <1>2, <1>3, <1>4, CapacityAssumption DEF Small

(* No step of c's handler or task makes anything exceed the cap.            *)
LEMMA SmallStep ==
    ASSUME TypeOK, AllSmall, NEW c \in Client, ClientNext(c)
    PROVE  AllSmall'
<1> USE DEF TypeOK, AllSmall, storage, clock, map, GoTo
<1>1. CASE Register(c)
  BY <1>1, RoomForOne DEF Register
<1>2. CASE Stamp(c) \/ Touch(c) \/ MarkDirty(c) \/ TakeWriterSlot(c) \/ CheckDirty(c)
  BY <1>2 DEF Stamp, Touch, MarkDirty, TakeWriterSlot, CheckDirty
<1>3. CASE Clone(c)
  BY <1>3, MapType DEF Clone
<1>4. CASE BeginWrite(c)
  BY <1>4, ContentType, EmptyType, NothingIsSmall DEF BeginWrite
<1>5. CASE EndWrite(c)
  BY <1>5, ContentType DEF EndWrite
<1>6. CASE Rename(c) \/ RenameFails(c)
  <2>1. tmp' \in {tmp, Absent} /\ file' \in {tmp, file}
    BY <1>6 DEF Rename, RenameFails
  <2>2. Small(Absent.map.clients)
    BY ContentType, EmptyType, NothingIsSmall
  <2>3. Small(tmp'.map.clients) /\ Small(file'.map.clients)
    BY <2>1, <2>2
  <2>4. registrations' = registrations /\ snapshot' = snapshot
    BY <1>6 DEF Rename, RenameFails
  <2> QED
    BY <2>3, <2>4
<1>7. CASE Wake(c)
  BY <1>7, EmptyType, NothingIsSmall DEF Wake
<1>8. CASE WriteFails(c) \/ Release(c) \/ Recheck(c) \/ Retake(c)
  BY <1>8 DEF WriteFails, Release, Recheck, Retake
<1> QED
  BY <1>1, <1>2, <1>3, <1>4, <1>5, <1>6, <1>7, <1>8 DEF ClientNext

(* The caps are inductive.                                                  *)
LEMMA SmallInvariant == Spec => []AllSmall
<1>1. Init => AllSmall
  BY NothingIsSmall, EmptyType, ContentType DEF Init, AllSmall
<1>2. TypeOK /\ AllSmall /\ [Next]_vars => AllSmall'
  <2> SUFFICES ASSUME TypeOK, AllSmall, [Next]_vars PROVE AllSmall'
    OBVIOUS
  <2>1. CASE Restart
    <3>1. registrations' \in {LoadFrom(file).clients, {}}
      BY <2>1, EmptyType DEF Restart
    <3>2. LoadFrom(file).clients \in {file.map.clients, {}}
      BY EmptyType DEF LoadFrom
    <3> QED
      BY <2>1, <3>1, <3>2, EmptyType, NothingIsSmall DEF Restart, AllSmall, storage
  <2>2. CASE Tick \/ UNCHANGED vars
    BY <2>2 DEF Tick, vars, AllSmall, storage, map
  <2> QED
    BY <2>1, <2>2, SmallStep, NextCases
<1> QED
  BY <1>1, <1>2, TypeCorrect, PTL DEF Spec

(* The store never exceeds MAX_CLIENTS, in memory or on disk, so a restart, *)
(* which loads the file as it is, does not either.                          *)
THEOREM SizeBound == Spec => []SizeBounded
<1>1. AllSmall => SizeBounded
  BY DEF AllSmall, Small, SizeBounded
<1> QED
  BY <1>1, SmallInvariant, PTL

-----------------------------------------------------------------------------
(* Refinement: every step of ClientStore is one of WriteBehind or stutters. *)

(* Staged is the snapshot of the one task that carries one.                 *)
LEMMA StagedBy ==
    ASSUME OneWriter, NEW c \in Client, writer[c] \in Carrying
    PROVE  Staged = [staging |-> TRUE, items |-> snapshot[c].clients]
BY DEF Staged, OneWriter, Carrying, Holding

(* Without a task that carries a snapshot, nothing is staged.               *)
LEMMA StagedByNone ==
    ASSUME \A c \in Client : writer[c] \notin Carrying
    PROVE  Staged = Abstract!Nothing
BY DEF Staged, Abstract!Nothing

(* The empty store, with no file, is an empty write-behind store.           *)
THEOREM WriteBehindInit == Init => Abstract!Init
BY EmptyType, ContentType DEF Init, Abstract!Init, Abstract!Nothing, Staged, Carrying, LoadFrom

(* A client id is fresh: nothing holds it before its handler stores it.     *)
FreshId ==
    \A c \in Client : handler[c] \in {"new", "stamped"} =>
        /\ c \notin registrations /\ c \notin tmp.map.clients /\ c \notin file.map.clients
        /\ \A d \in Client : c \notin snapshot[d].clients

(* A step of one client leaves the ids of the unregistered others fresh.    *)
LEMMA FreshStep ==
    ASSUME TypeOK, FreshId, NEW c \in Client, ClientNext(c)
    PROVE  FreshId'
<1> USE DEF TypeOK, FreshId, storage, clock, map, GoTo
<1>1. CASE Register(c)
  BY <1>1 DEF Register
<1>2. CASE Stamp(c) \/ Touch(c) \/ MarkDirty(c) \/ TakeWriterSlot(c) \/ CheckDirty(c)
  BY <1>2 DEF Stamp, Touch, MarkDirty, TakeWriterSlot, CheckDirty
<1>3. CASE Clone(c)
  BY <1>3, MapType DEF Clone
<1>4. CASE BeginWrite(c)
  BY <1>4, ContentType, EmptyType DEF BeginWrite
<1>5. CASE EndWrite(c)
  BY <1>5, ContentType DEF EndWrite
<1>6. CASE Rename(c) \/ RenameFails(c)
  <2>1. tmp' \in {tmp, Absent} /\ file' \in {tmp, file} /\ UNCHANGED <<map, handler, snapshot>>
    BY <1>6 DEF Rename, RenameFails
  <2> QED
    BY <2>1, ContentType, EmptyType
<1>7. CASE Wake(c)
  BY <1>7, EmptyType DEF Wake
<1>8. CASE WriteFails(c) \/ Release(c) \/ Recheck(c) \/ Retake(c)
  BY <1>8 DEF WriteFails, Release, Recheck, Retake
<1> QED
  BY <1>1, <1>2, <1>3, <1>4, <1>5, <1>6, <1>7, <1>8 DEF ClientNext

(* FreshId is inductive.                                                    *)
LEMMA FreshInvariant == Spec => []FreshId
<1>1. Init => FreshId
  BY EmptyType, ContentType DEF Init, FreshId
<1>2. TypeOK /\ FreshId /\ [Next]_vars => FreshId'
  <2> SUFFICES ASSUME TypeOK, FreshId, [Next]_vars PROVE FreshId'
    OBVIOUS
  <2>1. CASE Restart
    <3>1. \A c \in Client : handler'[c] \in {"new", "stamped"} => handler[c] = "new"
      BY <2>1 DEF Restart
    <3>2. registrations' \in {file.map.clients, {}}
      BY <2>1, EmptyType DEF Restart, LoadFrom
    <3>3. UNCHANGED storage /\ \A d \in Client : snapshot'[d].clients = {}
      BY <2>1, EmptyType DEF Restart
    <3> QED
      BY <3>1, <3>2, <3>3 DEF FreshId, storage
  <2>2. CASE Tick \/ UNCHANGED vars
    BY <2>2 DEF Tick, vars, FreshId, storage, map
  <2> QED
    BY <2>1, <2>2, FreshStep, NextCases
<1> QED
  BY <1>1, <1>2, TypeCorrect, PTL DEF Spec

(* Steps that leave who carries what alone leave Staged alone.              *)
LEMMA StagedSame ==
    ASSUME \A d \in Client : writer'[d] \in Carrying <=> writer[d] \in Carrying,
           \A d \in Client : writer[d] \in Carrying => snapshot'[d] = snapshot[d],
           OneWriter, OneWriter'
    PROVE  Staged' = Staged
<1>1. CASE \E d \in Client : writer[d] \in Carrying
  <2>1. PICK d \in Client : writer[d] \in Carrying
    BY <1>1
  <2>2. (Staged = [staging |-> TRUE, items |-> snapshot[d].clients])
    BY <2>1, StagedBy
  <2>3. (Staged' = [staging |-> TRUE, items |-> snapshot'[d].clients])
    BY <2>1 DEF Staged, OneWriter, Carrying, Holding
  <2> QED
    BY <2>1, <2>2, <2>3
<1>2. CASE ~ \E d \in Client : writer[d] \in Carrying
  BY <1>2 DEF Staged
<1> QED
  BY <1>1, <1>2

(* What every reachable state satisfies, for the step lemmas below.         *)
Reachable == Slot /\ Staging /\ AllSmall /\ FreshId

(* The instance's copy of the operator of FiniteSets is the same operator.   *)
LEMMA SameCardinality == \A S : Abstract!Cardinality(S) = Cardinality(S)
BY DEF Abstract!Cardinality, Cardinality

(* register is a change: room is made for one, and only when it is needed.  *)
LEMMA RegisterChanges ==
    ASSUME Reachable, Reachable', NEW c \in Client, Register(c)
    PROVE  Abstract!Change
<1> USE DEF Reachable, Slot, TypeOK, AllSmall
<1>1. PICK kept \in SUBSET registrations :
         MakeRoomForClient(kept) /\ registrations' = kept \cup {c}
  BY DEF Register
<1>2. IsFiniteSet(kept) /\ c \notin kept
  BY <1>1, FS_Subset DEF Small, Register, FreshId
<1>3. Cardinality(kept \cup {c}) = Cardinality(kept) + 1
  BY <1>2, FS_AddElement
<1>4. kept # registrations => Cardinality(registrations') = Capacity
  BY <1>1, <1>2, <1>3, CapacityAssumption, FS_CardinalityType DEF MakeRoomForClient
<1>5. Cardinality(registrations') <= Capacity
  BY DEF Small
<1>6. Staged' = Staged
  BY StagedSame DEF Register, storage
<1> QED
  BY <1>1, <1>4, <1>5, <1>6, SameCardinality DEF Abstract!Change, Register, storage

(* The clone stages what memory holds.                                      *)
LEMMA CloneStages ==
    ASSUME Reachable, Reachable', NEW c \in Client, Clone(c)
    PROVE  Abstract!Stage
<1> USE DEF Reachable, Slot, TypeOK
<1>1. writer[c] = "clone" /\ writer'[c] = "write"
  BY DEF Clone, GoTo
<1>2. Staged = Abstract!Nothing
  BY <1>1, StagedByNone DEF OneWriter, Carrying, Holding
<1>3. snapshot'[c].clients = registrations
  BY MapType DEF Clone
<1>4. (Staged' = [staging |-> TRUE, items |-> snapshot'[c].clients])
  BY <1>1 DEF Staged, OneWriter, Carrying, Holding
<1> QED
  BY <1>2, <1>3, <1>4 DEF Abstract!Stage, Abstract!Nothing, Clone, storage, map

(* The end of a carried snapshot leaves nothing staged.                     *)
LEMMA NothingAfter ==
    ASSUME TypeOK, OneWriter, NEW c \in Client, writer[c] \in Carrying,
           writer' = [writer EXCEPT ![c] = "sleep"]
    PROVE  /\ Staged = [staging |-> TRUE, items |-> snapshot[c].clients]
           /\ Staged' = Abstract!Nothing
<1>1. \A d \in Client : writer'[d] \notin Carrying
  BY DEF TypeOK, OneWriter, Carrying, Holding
<1> QED
  BY <1>1, StagedBy DEF Staged, Abstract!Nothing

(* The rename commits what was staged.                                      *)
LEMMA RenameCommits ==
    ASSUME Reachable, NEW c \in Client, Rename(c)
    PROVE  Abstract!Commit
<1> USE DEF Reachable, Slot, TypeOK
<1>1. writer[c] = "rename" /\ writer' = [writer EXCEPT ![c] = "sleep"]
  BY DEF Rename, GoTo
<1>2. /\ Staged = [staging |-> TRUE, items |-> snapshot[c].clients]
      /\ Staged' = Abstract!Nothing
  BY <1>1, NothingAfter DEF Carrying
<1>3. file' = Whole(snapshot[c])
  BY <1>1 DEF Rename, Staging, StagedWhole
<1>4. LoadFrom(file').clients = snapshot[c].clients
  BY <1>3, ContentType DEF LoadFrom
<1> QED
  BY <1>2, <1>4 DEF Abstract!Commit, Rename, map

(* A failed write or rename gives the staged snapshot up.                   *)
LEMMA FailureGivesUp ==
    ASSUME Reachable, NEW c \in Client, WriteFails(c) \/ RenameFails(c)
    PROVE  Abstract!GiveUp
<1> USE DEF Reachable, Slot, TypeOK
<1>1. writer[c] \in Carrying /\ writer' = [writer EXCEPT ![c] = "sleep"]
  BY DEF WriteFails, RenameFails, GoTo, Carrying
<1>2. /\ Staged = [staging |-> TRUE, items |-> snapshot[c].clients]
      /\ Staged' = Abstract!Nothing
  BY <1>1, NothingAfter
<1> QED
  BY <1>2 DEF Abstract!GiveUp, WriteFails, RenameFails, map, storage

(* The other steps of handlers and tasks are invisible.                     *)
LEMMA OthersStutter ==
    ASSUME Reachable, Reachable', NEW c \in Client,
           \/ Stamp(c) \/ Touch(c) \/ MarkDirty(c) \/ TakeWriterSlot(c) \/ CheckDirty(c)
           \/ BeginWrite(c) \/ EndWrite(c) \/ Wake(c) \/ Release(c) \/ Recheck(c) \/ Retake(c)
    PROVE  UNCHANGED Abstract!vars
<1> USE DEF Reachable, Slot, TypeOK
<1>1. UNCHANGED <<registrations, file>>
  BY DEF Stamp, Touch, MarkDirty, TakeWriterSlot, CheckDirty, BeginWrite, EndWrite, Wake,
         Release, Recheck, Retake, storage, map
<1>2. /\ \A d \in Client : writer'[d] \in Carrying <=> writer[d] \in Carrying
      /\ \A d \in Client : writer[d] \in Carrying => snapshot'[d] = snapshot[d]
  <2>1. CASE Stamp(c) \/ Touch(c) \/ MarkDirty(c) \/ TakeWriterSlot(c) \/ CheckDirty(c)
    BY <2>1 DEF Stamp, Touch, MarkDirty, TakeWriterSlot, CheckDirty, GoTo, Carrying, NotSpawned
  <2>2. CASE BeginWrite(c) \/ EndWrite(c) \/ Wake(c)
    BY <2>2 DEF BeginWrite, EndWrite, Wake, GoTo, Carrying
  <2>3. CASE Release(c) \/ Recheck(c) \/ Retake(c)
    BY <2>3 DEF Release, Recheck, Retake, GoTo, Carrying
  <2> QED
    BY <2>1, <2>2, <2>3
<1>3. Staged' = Staged
  BY <1>2, StagedSame
<1> QED
  BY <1>1, <1>3 DEF Abstract!vars

(* A killed and restarted process comes back with the disk, or with         *)
(* nothing.                                                                 *)
LEMMA RestartRestarts ==
    ASSUME Restart
    PROVE  Abstract!Restart
<1>1. registrations' \in {LoadFrom(file).clients, {}} /\ UNCHANGED LoadFrom(file).clients
  BY EmptyType DEF Restart, storage
<1>2. (Staged' = Abstract!Nothing)
  BY DEF Restart, Staged, Carrying, Abstract!Nothing
<1> QED
  BY <1>1, <1>2 DEF Abstract!Restart

(* Every step from a reachable state is a step of the abstract store, or    *)
(* invisible in it.                                                         *)
LEMMA StepRefines ==
    Reachable /\ Reachable' /\ [Next]_vars => [Abstract!Next]_(Abstract!vars)
<1> SUFFICES ASSUME Reachable, Reachable', [Next]_vars
             PROVE  [Abstract!Next]_(Abstract!vars)
  OBVIOUS
<1>1. ASSUME NEW c \in Client, ClientNext(c) PROVE [Abstract!Next]_(Abstract!vars)
  BY <1>1, RegisterChanges, CloneStages, RenameCommits, FailureGivesUp, OthersStutter
  DEF ClientNext, Abstract!Next
<1>2. CASE Restart
  BY <1>2, RestartRestarts DEF Abstract!Next
<1>3. CASE Tick \/ UNCHANGED vars
  BY <1>3 DEF Tick, vars, Abstract!vars, Staged, storage, map
<1> QED
  BY <1>1, <1>2, <1>3, NextCases

(* ClientStore implements WriteBehind: whatever the disk does and whenever  *)
(* the process dies, the disk moves from one whole snapshot of memory to a  *)
(* later one.                                                               *)
THEOREM WriteBehindImplemented == Spec => ImplementsWriteBehind
<1>1. Spec => []Reachable
  BY SlotInvariant, StagingInvariant, SmallInvariant, FreshInvariant, PTL DEF Reachable
<1> QED
  BY <1>1, WriteBehindInit, StepRefines, PTL DEF Spec, ImplementsWriteBehind, Abstract!Spec
-----------------------------------------------------------------------------
(* Eviction.  Every stamp, in memory, in a snapshot or in a file, is of the *)
(* past, and no later than the last time its client was seen, unless the    *)
(* client still waits to be inserted; the map holds clients this process    *)
(* knows; and they are finitely many, so that outranking can be counted.    *)
PastStamps(m) == \A c \in Client : m.last_used[c] <= last_seen[c]

Stamped ==
    /\ \A c \in Client : last_used[c] <= now /\ last_seen[c] <= now
    /\ \A c \in Known : last_used[c] <= last_seen[c]
    /\ PastStamps(tmp.map) /\ PastStamps(file.map)
    /\ \A c \in Client : PastStamps(snapshot[c])

Counted ==
    /\ registrations \subseteq Known
    /\ IsFiniteSet({c \in Client : handler[c] # "new"})

(* The empty map has no stamps, and a clone has the stamps it was taken     *)
(* from.                                                                    *)
LEMMA EmptyIsPast ==
    ASSUME TypeOK
    PROVE  /\ PastStamps(Empty)
           /\ (\A c \in registrations : last_used[c] <= last_seen[c])
                  => PastStamps(Map(registrations, last_used))
<1>1. \A c \in Client : last_seen[c] \in Nat
  BY BoundsAssumption DEF TypeOK, Time
<1>2. \A clients, used : \A c \in Client :
         Map(clients, used).last_used[c] = IF c \in clients THEN used[c] ELSE 0
  BY DEF Map
<1>3. PastStamps(Empty)
  BY <1>1, <1>2 DEF Empty, PastStamps
<1>4. ASSUME \A c \in registrations : last_used[c] <= last_seen[c]
      PROVE  PastStamps(Map(registrations, last_used))
  <2> DEFINE m == Map(registrations, last_used)
  <2>1. \A c \in Client : (c \in registrations /\ m.last_used[c] = last_used[c]) \/ m.last_used[c] = 0
    BY <1>2
  <2> HIDE DEF m
  <2>2. PastStamps(m)
    BY <1>1, <1>4, <2>1 DEF PastStamps
  <2> QED
    BY <2>2 DEF m
<1> QED
  BY <1>3, <1>4

(* Seeing a client leaves old stamps past.                                  *)
LEMMA SeenIsPast ==
    ASSUME TypeOK, Stamped, NEW c \in Client, last_seen' = [last_seen EXCEPT ![c] = now]
    PROVE  /\ \A d \in Client : last_seen[d] <= last_seen'[d] /\ last_seen'[d] <= now
           /\ \A m \in Maps : PastStamps(m) => \A d \in Client : m.last_used[d] <= last_seen'[d]
<1>1. \A d \in Client : last_seen[d] <= last_seen'[d] /\ last_seen'[d] <= now
  BY DEF TypeOK, Time, Stamped
<1>2. \A m \in Maps : \A d \in Client : m.last_used[d] \in Time
  BY DEF Maps
<1>3. \A d \in Client : last_seen[d] \in Time /\ last_seen'[d] \in Time
  BY DEF TypeOK
<1> QED
  BY <1>1, <1>2, <1>3 DEF PastStamps, Time

(* Nothing is stamped ahead of the clock, nor later than it is seen.        *)
LEMMA StampedStep ==
    ASSUME TypeOK, Stamped, Counted, NEW c \in Client, ClientNext(c)
    PROVE  Stamped'
<1> USE DEF TypeOK, Time, Stamped, Known, storage, clock, map, GoTo
<1>0. CASE Stamp(c)
  BY <1>0 DEF Stamp, PastStamps
<1>1. CASE Register(c) \/ Touch(c)
  <2>1. /\ last_seen' = [last_seen EXCEPT ![c] = now]
        /\ UNCHANGED <<snapshot, storage, now>>
    BY <1>1 DEF Register, Touch
  <2>2. /\ tmp.map \in Maps /\ file.map \in Maps
        /\ \A d \in Client : snapshot[d] \in Maps
    BY DEF Content
  <2>3. \A d \in Client : last_used'[d] <= now /\ last_seen'[d] <= now
    BY <1>1, <2>1 DEF Register, Touch
  <2>4. \A d \in Known' : last_used'[d] <= last_seen'[d]
    BY <1>1, <2>1 DEF Register, Touch
  <2>5. /\ PastStamps(tmp.map)' /\ PastStamps(file.map)'
        /\ \A d \in Client : PastStamps(snapshot[d])'
    BY <2>1, <2>2, SeenIsPast DEF PastStamps
  <2> QED
    BY <2>1, <2>3, <2>4, <2>5
<1> USE DEF PastStamps
<1>2. CASE MarkDirty(c) \/ TakeWriterSlot(c) \/ CheckDirty(c)
  BY <1>2 DEF MarkDirty, TakeWriterSlot, CheckDirty
<1>3. CASE Clone(c)
  BY <1>3, EmptyIsPast DEF Clone, Counted
<1>4. CASE BeginWrite(c)
  BY <1>4, EmptyIsPast, ContentType DEF BeginWrite
<1>5. CASE EndWrite(c)
  BY <1>5, ContentType DEF EndWrite
<1>6. CASE Rename(c) \/ RenameFails(c)
  <2>1. tmp' \in {tmp, Absent} /\ file' \in {tmp, file} /\ UNCHANGED <<map, handler, now, snapshot>>
    BY <1>6 DEF Rename, RenameFails
  <2> QED
    BY <2>1, ContentType, EmptyIsPast
<1>7. CASE Wake(c)
  BY <1>7, EmptyIsPast DEF Wake
<1>8. CASE WriteFails(c) \/ Release(c) \/ Recheck(c) \/ Retake(c)
  BY <1>8 DEF WriteFails, Release, Recheck, Retake
<1> QED
  BY <1>0, <1>1, <1>2, <1>3, <1>4, <1>5, <1>6, <1>7, <1>8 DEF ClientNext

(* What a step of c does to the map and to who is known.                    *)
LEMMA KnownStep ==
    ASSUME TypeOK, NEW c \in Client, ClientNext(c)
    PROVE  \/ Stamp(c)
           \/ Register(c)
           \/ Touch(c)
           \/ /\ UNCHANGED map
              /\ \A d \in Client : \/ handler'[d] = handler[d]
                                   \/ {handler[d], handler'[d]} \subseteq {"stored", "marked", "done"}
<1> USE DEF TypeOK, map
<1>1. CASE MarkDirty(c) \/ TakeWriterSlot(c)
  BY <1>1 DEF MarkDirty, TakeWriterSlot
<1>2. CASE CheckDirty(c) \/ Clone(c) \/ BeginWrite(c) \/ EndWrite(c) \/ Rename(c)
  BY <1>2 DEF CheckDirty, Clone, BeginWrite, EndWrite, Rename
<1>3. CASE WriteFails(c) \/ RenameFails(c) \/ Wake(c) \/ Release(c) \/ Recheck(c) \/ Retake(c)
  BY <1>3 DEF WriteFails, RenameFails, Wake, Release, Recheck, Retake
<1> QED
  BY <1>1, <1>2, <1>3 DEF ClientNext

(* Only known clients are in the map, and a step counts one more.           *)
LEMMA CountedStep ==
    ASSUME TypeOK, Counted, NEW c \in Client, ClientNext(c)
    PROVE  Counted'
<1> DEFINE met == {d \in Client : handler[d] # "new"}
<1>1. IsFiniteSet(met \cup {c})
  BY FS_AddElement DEF Counted
<1>2. {d \in Client : handler'[d] # "new"} \subseteq met \cup {c}
  BY KnownStep DEF TypeOK, Stamp, Register, Touch
<1>3. IsFiniteSet({d \in Client : handler'[d] # "new"})
  BY <1>1, <1>2, FS_Subset
<1>4. registrations' \subseteq Known'
  <2>0. CASE Stamp(c)
    BY <2>0 DEF TypeOK, Counted, Known, Stamp
  <2>1. CASE Register(c)
    BY <2>1 DEF TypeOK, Counted, Known, Register
  <2>2. CASE Touch(c)
    BY <2>2 DEF Counted, Known, Touch
  <2>3. CASE ~Stamp(c) /\ ~Register(c) /\ ~Touch(c)
    BY <2>3, KnownStep DEF Counted, Known, map, TypeOK
  <2> QED
    BY <2>0, <2>1, <2>2, <2>3
<1> QED
  BY <1>3, <1>4 DEF Counted

(* Stamped and Counted are inductive.                                       *)
LEMMA StampedInvariant == Spec => [](Stamped /\ Counted)
<1>1. Init => Stamped /\ Counted
  <2> SUFFICES ASSUME Init PROVE Stamped /\ Counted
    OBVIOUS
  <2>1. \A c \in Client : Empty.last_used[c] = 0
    BY DEF Empty, Map
  <2>2. Stamped
    BY <2>1, ContentType DEF Init, Stamped, Known, PastStamps
  <2>3. {c \in Client : handler[c] # "new"} = {}
    BY DEF Init
  <2> QED
    BY <2>2, <2>3, FS_EmptySet DEF Init, Counted
<1>2. TypeOK /\ FreshId /\ Stamped /\ Counted /\ [Next]_vars => (Stamped /\ Counted)'
  <2> SUFFICES ASSUME TypeOK, FreshId, Stamped, Counted, [Next]_vars
               PROVE  Stamped' /\ Counted'
    OBVIOUS
  <2>1. CASE Restart
    <3>1. PICK loaded \in {LoadFrom(file), Empty} :
             /\ registrations' = loaded.clients
             /\ last_used' = loaded.last_used
             /\ handler' = [c \in Client |->
                   IF handler[c] = "new" THEN "new"
                   ELSE IF c \in loaded.clients THEN "done" ELSE "lost"]
      BY <2>1 DEF Restart
    <3>2. loaded \in {file.map, Empty} /\ loaded \in Maps
      BY <3>1, LoadType, EmptyType DEF LoadFrom, TypeOK
    <3>3. PastStamps(loaded)
      BY <3>2, EmptyIsPast DEF Stamped
    <3>4. Stamped'
      <4>1. UNCHANGED <<last_seen, storage, now>> /\ \A c \in Client : snapshot'[c] = Empty
        BY <2>1 DEF Restart
      <4>2. \A c \in Client : loaded.last_used[c] \in Time /\ last_seen[c] \in Time /\ now \in Time
        BY <3>2 DEF Maps, TypeOK
      <4>3. \A c \in Client : last_used'[c] <= now /\ last_used'[c] <= last_seen[c]
        BY <3>1, <3>3, <4>2 DEF Stamped, PastStamps, Time
      <4> QED
        BY <4>1, <4>3, EmptyIsPast DEF Stamped, Known, PastStamps, storage
    <3>5. loaded.clients \subseteq Client /\ \A c \in loaded.clients : handler[c] # "new"
      BY <3>2, EmptyType DEF FreshId, Maps
    <3>6. registrations' \subseteq Known'
      BY <3>1, <3>5 DEF Known
    <3>7. {c \in Client : handler'[c] # "new"} \subseteq {c \in Client : handler[c] # "new"}
      BY <3>1
    <3> QED
      BY <3>4, <3>6, <3>7, FS_Subset DEF Counted
  <2>2. CASE Tick
    BY <2>2 DEF Tick, TypeOK, Time, Stamped, PastStamps, Counted, Known, storage, map, Maps, Content
  <2>3. CASE UNCHANGED vars
    BY <2>3 DEF vars, Stamped, PastStamps, Counted, Known
  <2> QED
    BY <2>1, <2>2, <2>3, StampedStep, CountedStep, NextCases
<1> QED
  BY <1>1, <1>2, TypeCorrect, FreshInvariant, PTL DEF Spec

-----------------------------------------------------------------------------
(* A flood.                                                                 *)

(* What FloodNeedsCapacity says of one client.                              *)
Flooded(e) ==
    /\ Cardinality(Active(e)) >= Capacity
    /\ Cardinality(Outran(e)) >= Capacity - 1

(* Those who outran an evicted client can be counted, and so can those who  *)
(* were active since: there are as many as in any part of them.             *)
LEMMA AtLeast ==
    ASSUME Counted', NEW S, NEW T, S \subseteq T, T \subseteq Known',
           NEW n \in Nat, Cardinality(S) >= n
    PROVE  Cardinality(T) >= n
<1>1. T \subseteq {d \in Client : handler'[d] # "new"}
  BY DEF Known
<1>2. IsFiniteSet(T)
  BY <1>1, FS_Subset DEF Counted
<1>3. /\ IsFiniteSet(S) /\ Cardinality(S) <= Cardinality(T)
      /\ Cardinality(S) \in Nat /\ Cardinality(T) \in Nat
  BY <1>2, FS_Subset, FS_CardinalityType
<1> QED
  BY <1>3

(* Who was evicted before a step that neither restarts nor stamps it anew   *)
(* stays outrun.                                                            *)
LEMMA StillOutrun ==
    ASSUME TypeOK, Stamped, Counted', FloodNeedsCapacity,
           NEW e \in Known, e \notin registrations,
           last_used'[e] = last_used[e], Known \subseteq Known',
           \A d \in Known : /\ last_used'[d] \in {last_used[d], now}
                            /\ last_seen'[d] \in {last_seen[d], now}
    PROVE  Flooded(e)'
<1>1. Outran(e) \subseteq Outran(e)' /\ Active(e) \subseteq Active(e)'
  BY DEF TypeOK, Time, Stamped, Known, Outran, Active
<1>2. Outran(e)' \subseteq Known' /\ Active(e)' \subseteq Known'
  BY DEF Outran, Active
<1>3. Capacity \in Nat /\ Capacity - 1 \in Nat
  BY CapacityAssumption
<1> QED
  BY <1>1, <1>2, <1>3, AtLeast DEF FloodNeedsCapacity, Flooded

(* Who is evicted by a registration is outrun by those kept, and was active *)
(* no later than they and the new one.                                      *)
LEMMA EvictedIsOutrun ==
    ASSUME Reachable, Stamped, Counted, Counted', NEW c \in Client, Register(c),
           NEW e \in registrations, e \notin registrations'
    PROVE  Flooded(e)'
<1> USE DEF Reachable, Slot, TypeOK
<1>1. PICK kept \in SUBSET registrations :
         MakeRoomForClient(kept) /\ registrations' = kept \cup {c}
  BY DEF Register
<1>2. Cardinality(kept) = Capacity - 1 /\ \A k \in kept : last_used[e] <= last_used[k]
  BY <1>1 DEF MakeRoomForClient
<1>3. IsFiniteSet(kept) /\ c \notin kept
  BY <1>1, FS_Subset DEF AllSmall, Small, Register, FreshId
<1>4. Cardinality(kept \cup {c}) = Capacity
  <2>1. Cardinality(kept \cup {c}) = Cardinality(kept) + 1
    BY <1>3, FS_AddElement
  <2> QED
    BY <1>2, <2>1, CapacityAssumption
<1>5. /\ handler' = [handler EXCEPT ![c] = "stored"]
      /\ last_used' = last_used
      /\ last_seen' = [last_seen EXCEPT ![c] = now]
      /\ e # c /\ e \in Client /\ e \notin kept /\ last_used[e] <= now
  BY <1>1 DEF Register, Stamped
<1>6. c \in Active(e)'
  BY <1>5 DEF Active, Known
<1>7. ASSUME NEW k \in kept PROVE k \in Outran(e)' /\ k \in Active(e)'
  <2>1. k \in Known /\ k # e /\ k # c /\ k \in Client
    BY <1>3, <1>5 DEF Counted, Known
  <2>2. k \in Known'
    BY <1>5, <2>1 DEF Known
  <2>3. last_used[e] <= last_used[k] /\ last_used[k] <= last_seen[k]
    BY <1>2, <2>1 DEF Stamped
  <2>4. last_used[e] \in Nat /\ last_used[k] \in Nat /\ last_seen[k] \in Nat
    BY <1>5, <2>1 DEF Time
  <2>5. last_seen'[k] >= last_used[e] /\ last_used[k] >= last_used[e]
    BY <1>5, <2>1, <2>3, <2>4
  <2> QED
    BY <1>5, <2>1, <2>2, <2>5 DEF Outran, Active
<1>8. /\ kept \subseteq Outran(e)' /\ kept \cup {c} \subseteq Active(e)'
      /\ Outran(e)' \subseteq Known' /\ Active(e)' \subseteq Known'
  BY <1>6, <1>7 DEF Outran, Active
<1>9. Capacity \in Nat /\ Capacity - 1 \in Nat
  BY CapacityAssumption
<1> QED
  BY <1>2, <1>4, <1>8, <1>9, AtLeast DEF Flooded

(* A step of c's handler or task keeps whoever lost its place outrun.       *)
LEMMA FloodStep ==
    ASSUME Reachable, Stamped, Counted, Counted', FloodNeedsCapacity,
           NEW c \in Client, ClientNext(c)
    PROVE  FloodNeedsCapacity'
<1> SUFFICES ASSUME NEW e \in Known', e \notin registrations'
             PROVE  Flooded(e)'
  BY DEF FloodNeedsCapacity, Flooded
<1> USE DEF Reachable, Slot, TypeOK, Known
<1>0. CASE Stamp(c)
  BY <1>0, StillOutrun DEF Stamp, Counted
<1>1. CASE Register(c)
  <2>1. CASE e \in registrations
    BY <1>1, <2>1, EvictedIsOutrun
  <2>2. CASE e \notin registrations
    BY <1>1, <2>2, StillOutrun DEF Register
  <2> QED
    BY <2>1, <2>2
<1>2. CASE Touch(c)
  BY <1>2, StillOutrun DEF Touch
<1>3. CASE ~Stamp(c) /\ ~Register(c) /\ ~Touch(c)
  BY <1>3, KnownStep, StillOutrun DEF map
<1> QED
  BY <1>0, <1>1, <1>2, <1>3

(* A registration flood reaches a client in use only after Capacity others  *)
(* were registered or used, however stamps, insertions, uses and restarts   *)
(* interleave, and all but one of them show it by their stamps.             *)
THEOREM FloodNeedsCapacityHolds == Spec => []FloodNeedsCapacity
<1>1. Init => FloodNeedsCapacity
  BY DEF Init, FloodNeedsCapacity, Known
<1>2. Reachable /\ Stamped /\ Counted /\ Counted' /\ FloodNeedsCapacity /\ [Next]_vars
         => FloodNeedsCapacity'
  <2> SUFFICES ASSUME Reachable, Stamped, Counted, Counted', FloodNeedsCapacity, [Next]_vars
               PROVE  FloodNeedsCapacity'
    OBVIOUS
  <2>1. CASE Restart
    <3>1. PICK loaded \in {LoadFrom(file), Empty} :
             /\ registrations' = loaded.clients
             /\ handler' = [c \in Client |->
                   IF handler[c] = "new" THEN "new"
                   ELSE IF c \in loaded.clients THEN "done" ELSE "lost"]
      BY <2>1 DEF Restart
    <3> QED
      BY <3>1 DEF FloodNeedsCapacity, Known
  <2>2. CASE Tick \/ UNCHANGED vars
    BY <2>2 DEF Tick, vars, map, FloodNeedsCapacity, Outran, Active, Known
  <2> QED
    BY <2>1, <2>2, FloodStep, NextCases
<1>3. Spec => []Reachable
  BY SlotInvariant, StagingInvariant, SmallInvariant, FreshInvariant, PTL DEF Reachable
<1> QED
  BY <1>1, <1>2, <1>3, StampedInvariant, PTL DEF Spec
=============================================================================
