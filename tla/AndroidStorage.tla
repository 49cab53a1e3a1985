---------------------------- MODULE AndroidStorage -----------------------------
(***************************************************************************)
(* The Android back end of flutter_secure_storage                          *)
(* (FlutterSecureStorage.java, FlutterSecureStoragePlugin.java) as the app *)
(* configures it: encrypted shared preferences.  Every change is made with *)
(* Editor.apply(): the map in memory changes before the call answers, the  *)
(* file follows later and as a whole.                                      *)
(* Left out: the fallback to plain preferences when the encrypted ones     *)
(* cannot be opened, and the migration of plain entries when they can be   *)
(* again.                                                                  *)
(***************************************************************************)
EXTENDS SecureStorage

VARIABLES
  preferences,   \* the preferences of this process, what reads see
  prefsFile      \* the preferences file

PreferencesInit == preferences = Empty /\ prefsFile = Empty

\* write, delete, deleteAll on the worker thread.
PreferencesDo(call) ==
  /\ preferences' = Effect(call, preferences)
  /\ UNCHANGED prefsFile

\* The keystore or the cipher throws: run() answers with an error.
PreferencesThrow == UNCHANGED <<preferences, prefsFile>>

\* The writes that apply() queued reach the file, all that were made so far.
FlushPreferences ==
  /\ prefsFile # preferences
  /\ prefsFile' = preferences
  /\ UNCHANGED preferences

\* The process dies before apply() was flushed; the next one reads the file.
ReopenPreferences ==
  /\ preferences' = prefsFile
  /\ UNCHANGED prefsFile
===============================================================================
