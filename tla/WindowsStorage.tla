---------------------------- MODULE WindowsStorage -----------------------------
(***************************************************************************)
(* The Windows back end of flutter_secure_storage: FlutterSecureStorage-   *)
(* Windows over DpapiJsonFileMapStorage (flutter_secure_storage_windows_   *)
(* ffi.dart), with useBackwardCompatibility false, the default the app     *)
(* keeps.  All keys live in ONE encrypted file.  A change loads the whole  *)
(* map, awaits, and writes the whole file; a load that finds the file      *)
(* undecipherable deletes it.  Reads interleave with a change at every     *)
(* await: one of them is followed here when it finds the file torn, the    *)
(* only case in which a read changes anything.                             *)
(***************************************************************************)
EXTENDS SecureStorage

VARIABLES
  file,      \* flutter_secure_storage.dat: "absent", "good", or "torn": truncated
             \* or half written, so that it does not decrypt
  content,   \* the map in a good file, Empty otherwise
  stage,     \* of the change in progress
  loaded,    \* the map it loaded, with the change made
  badRead    \* TRUE: a read found the file torn and is about to delete it

fileVars == <<file, content, stage, loaded, badRead>>

FileInit == file = "absent" /\ content = Empty /\ stage = "idle" /\ loaded = Empty /\ badRead = FALSE

KeepFile   == UNCHANGED <<file, content>>
DeleteFile == file' = "absent" /\ content' = Empty

\* load: no file, or a FileSystemException while reading, is an empty map.
LoadAnswers(map) ==
  \/ file # "torn" /\ map = content
  \/ map = Empty

\* load, of a write or a delete: then the change is made to the loaded map.
LoadForChange(call) ==
  /\ stage = "idle"
  /\ call.method # "deleteAll"
  /\ stage' = "save"
  /\ \E map \in {content, Empty} :
       /\ LoadAnswers(map)
       /\ call.method = "delete" => map[call.key] # NoValue
       /\ loaded' = Effect(call, map)
  /\ UNCHANGED <<file, content, badRead>>

\* delete of a key that the map does not hold saves nothing.
NothingToDelete(call) ==
  /\ stage = "idle"
  /\ call.method = "delete"
  /\ \E map \in {content, Empty} : LoadAnswers(map) /\ map[call.key] = NoValue
  /\ UNCHANGED fileVars

\* load: the file does not decrypt.
LoadTorn(call) ==
  /\ stage = "idle"
  /\ call.method # "deleteAll"
  /\ file = "torn"
  /\ stage' = "corrupt"
  /\ UNCHANGED <<file, content, loaded, badRead>>

\* ... it is deleted, and the exception (of the load, or of the deletion when
\* that fails too) goes to the caller.
DropTornFile ==
  /\ stage = "corrupt"
  /\ stage' = "idle"
  /\ KeepFile \/ DeleteFile
  /\ UNCHANGED <<loaded, badRead>>

\* save: the file is opened, which truncates it.
Truncate ==
  /\ stage \in {"save", "retry"}
  /\ stage' = "writing"
  /\ file' = "torn" /\ content' = Empty
  /\ UNCHANGED <<loaded, badRead>>

\* save: CryptProtectData fails, before the file is touched.
ProtectFails ==
  /\ stage = "save"
  /\ stage' = "idle"
  /\ UNCHANGED <<file, content, loaded, badRead>>

\* Mutant: a failed write is left as it is, and the stage says so.
WriteFailsForGood ==
  /\ stage = "writing"
  /\ stage' = "failed"
  /\ UNCHANGED <<file, content, loaded, badRead>>

\* save: a FileSystemException while writing starts the loop again.
WriteFails ==
  /\ stage = "writing"
  /\ stage' = "retry"
  /\ UNCHANGED <<file, content, loaded, badRead>>

\* save: the bytes are written and flushed.
FinishWrite ==
  /\ stage = "writing"
  /\ stage' = "idle"
  /\ file' = "good" /\ content' = loaded
  /\ UNCHANGED <<loaded, badRead>>

\* clear: a deletion that fails is taken for a file already deleted.
ClearFile(call) ==
  /\ stage = "idle"
  /\ call.method = "deleteAll"
  /\ KeepFile \/ DeleteFile
  /\ UNCHANGED <<stage, loaded, badRead>>

\* A read, at any moment: load finds the file torn ...
ReadTorn ==
  /\ file = "torn"
  /\ ~badRead
  /\ badRead' = TRUE
  /\ UNCHANGED <<file, content, stage, loaded>>

\* ... and deletes it an await later, whatever it has become by then; while the
\* writer has it open Windows refuses.
DropAfterRead ==
  /\ badRead
  /\ badRead' = FALSE
  /\ KeepFile \/ (stage # "writing" /\ DeleteFile)
  /\ UNCHANGED <<stage, loaded>>

\* The process dies: the file stays as it is, torn if it was being written.
CloseFile ==
  /\ stage' = "idle"
  /\ loaded' = Empty
  /\ badRead' = FALSE
  /\ KeepFile
===============================================================================
