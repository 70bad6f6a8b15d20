---------------------------- MODULE ChronosPower ----------------------------
(***************************************************************************)
(* CHRONOS on a machine that may lose power.  Appended records reach the   *)
(* disk whenever the kernel writes them back, since set() never syncs; the *)
(* compaction syncs the temporary file, not the directory, so the rename   *)
(* reaches the disk some time later too.                                   *)
(***************************************************************************)
EXTENDS Chronos

VARIABLES
  temp_synced,  \* the part of chronos_temp.db that is on the disk
  disk          \* data: the part of DB_PATH's file that is on the disk;
                \* renamed: the last rename is not on the disk yet, and a
                \* power loss would bring back the file old

powerVars == <<vars, temp_synced, disk>>

(* The file that a power loss would leave under DB_PATH. *)
OnDisk == IF disk.renamed THEN disk.old ELSE disk.data

PowerInit ==
  /\ Init
  /\ temp_synced = EmptyFile
  /\ disk = [data |-> EmptyFile, old |-> EmptyFile, renamed |-> FALSE]

(* For mutants: compact() without sync_all. *)
SyncForgotten ==
  temp_synced' = EmptyFile

(* What is certain to be on the disk of the temporary file: all of it      *)
(* between sync_all() and rename(), nothing before.                        *)
TempSynced ==
  temp_synced' = IF eng'.pc # "rename" THEN EmptyFile
                 ELSE IF eng.pc = "entries" THEN temp ELSE temp_synced

Renamed ==
  disk' = IF eng.pc = "rename" /\ eng'.pc = "reopen"
            THEN [data |-> temp_synced, old |-> OnDisk, renamed |-> TRUE]
            ELSE disk

(* The process makes a step, with its effect on the disk. *)
OnMachine(step) == step /\ TempSynced /\ Renamed

WriteBackData ==
  /\ disk.data # db
  /\ disk' = [disk EXCEPT !.data = db]
  /\ UNCHANGED <<vars, temp_synced>>

WriteBackDirectory ==
  /\ disk.renamed
  /\ disk' = [disk EXCEPT !.renamed = FALSE, !.old = EmptyFile]
  /\ UNCHANGED <<vars, temp_synced>>

(* The machine goes down and comes back with what was on the disk. *)
PowerLoss ==
  /\ up
  /\ damage < MaxDamage
  /\ Gone
  /\ db' = OnDisk
  /\ temp' = temp_synced
  /\ disk' = [data |-> OnDisk, old |-> EmptyFile, renamed |-> FALSE]
  /\ damage' = damage + 1
  /\ committed' = Rehydrate(OnDisk)
  /\ intact' = {}
  /\ temp_synced' = EmptyFile

PowerNext ==
  OnMachine(Next) \/ WriteBackData \/ WriteBackDirectory \/ PowerLoss

PowerSpec == PowerInit /\ [][PowerNext]_powerVars

(* A thread inside the engine waits for nobody: it is not descheduled for  *)
(* good.  Nothing is assumed of the order in which the lock is granted, of *)
(* the clients or of the kernel's write-back.                              *)
FairPowerSpec ==
  /\ PowerSpec
  /\ \A t \in Clients \cup {Handler} : WF_powerVars(OnMachine(Engine(t)))

-----------------------------------------------------------------------------
Keys == {args[1] : args \in {x \in Args : x # <<>>}}

KeysOnDisk == Keys \cap DOMAIN Rehydrate(OnDisk)

(* A key, deleted or not, that has once reached the disk is never lost     *)
(* again: a compaction replaces the log only by one that holds every key   *)
(* and is on the disk as a whole, at whatever moment the power fails.      *)
DiskKeepsKeys ==
  [][KeysOnDisk \subseteq KeysOnDisk']_powerVars

(* Whoever is inside the engine with the write lock gets out of it, so     *)
(* that a compaction never blocks the server for good.                     *)
LockReleased ==
  \A t \in Clients \cup {Handler} : (lock = t) ~> (lock # t)
=============================================================================
