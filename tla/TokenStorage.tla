----------------------------- MODULE TokenStorage ------------------------------
(***************************************************************************)
(* SecureTokenStorage (lib/core/storage/secure_token_storage.dart), the    *)
(* flows of AuthService and AuthController that change it, and the back    *)
(* end of the platform the app runs on.                                    *)
(*                                                                         *)
(* A flow is a sequence of awaited plugin calls.  The process may die      *)
(* between two of them, or in the middle of one; a call may fail.          *)
(***************************************************************************)
EXTENDS LinuxStorage, AndroidStorage, WindowsStorage

CONSTANT MaxKills    \* bound: restarts explored

ASSUME KillsAssumption == MaxKills \in Nat

VARIABLES
  platform,    \* the back end, fixed for a run of the system
  memory,      \* the in-memory back end (web)
  logins,      \* logins that received tokens so far
  mfaPending,  \* AuthState.mfa: a first factor was accepted
  todo,        \* the calls the flow has still to make
  saving,      \* ghost: the login whose tokens the flow saves, or NoValue
  saved,       \* ghost: the login whose save was the last flow to end well
  kills        \* restarts so far

stores == <<keyring, preferences, prefsFile, fileVars, memory>>
vars   == <<platform, stores, logins, mfaPending, todo, saving, saved, kills>>

Platforms == {"web", "linux", "android", "windows"}

TypeOK ==
  /\ platform \in Platforms
  /\ keyring \in Map /\ memory \in Map /\ preferences \in Map /\ prefsFile \in Map
  /\ file \in {"absent", "good", "torn"} /\ content \in Map
  /\ stage \in {"idle", "corrupt", "save", "writing", "retry"}
  /\ loaded \in Map
  /\ badRead \in BOOLEAN
  /\ logins \in Value /\ mfaPending \in BOOLEAN
  /\ todo \in Seq(Call)
  /\ saving \in Value /\ saved \in Value
  /\ kills \in 0 .. MaxKills

Init ==
  /\ platform \in Platforms
  /\ KeyringInit /\ PreferencesInit /\ FileInit /\ memory = Empty
  /\ logins = 0 /\ mfaPending = FALSE
  /\ todo = <<>>
  /\ saving = NoValue /\ saved = NoValue
  /\ kills = 0

\* _read: what the app finds under a key.
Stored(k) ==
  CASE platform = "web"     -> memory[k]
    [] platform = "linux"   -> getItem(k)
    [] platform = "android" -> preferences[k]
    [] platform = "windows" -> content[k]
-------------------------------------------------------------------------------
\* Mutant: the access token first.
SaveTokensAccessFirst(g, email) ==
  IF email = NoValue
  THEN <<CallWrite("access", g), CallWrite("refresh", g)>>
  ELSE <<CallWrite("access", g), CallWrite("email", email), CallWrite("refresh", g)>>

\* saveTokens: the refresh token, the account's email if one is given, and the
\* access token last.
SaveTokens(g, email) ==
  IF email = NoValue
  THEN <<CallWrite("refresh", g), CallWrite("access", g)>>
  ELSE <<CallWrite("refresh", g), CallWrite("email", email), CallWrite("access", g)>>

StartFlow(calls, g) ==
  /\ todo = <<>>
  /\ todo' = calls
  /\ saving' = g
  /\ saved' = NoValue
  /\ UNCHANGED <<platform, stores, kills>>

\* AuthService.login, full session.
Login ==
  /\ logins < MaxLogins
  /\ logins' = logins + 1
  /\ mfaPending' = FALSE
  /\ StartFlow(SaveTokens(logins', logins'), logins')

\* AuthService.login, a second factor is required: only the marker is stored.
LoginNeedsMfa ==
  /\ mfaPending' = TRUE
  /\ StartFlow(<<CallMarker(MaxLogins)>>, NoValue)
  /\ UNCHANGED logins

\* verifyMfa: the email handed to saveTokens is the one already stored.
VerifyMfa ==
  /\ mfaPending
  /\ logins < MaxLogins
  /\ logins' = logins + 1
  /\ mfaPending' = FALSE
  /\ StartFlow(Append(SaveTokens(logins', Stored("email")), CallClearMarker), logins')

CancelMfa ==
  /\ mfaPending
  /\ mfaPending' = FALSE
  /\ StartFlow(<<CallClearMarker>>, NoValue)
  /\ UNCHANGED logins

\* signOut, expire, and a restore that failed for good: clear, then the marker.
SignOut ==
  /\ ~mfaPending
  /\ StartFlow(<<CallDeleteAll, CallClearMarker>>, NoValue)
  /\ UNCHANGED <<logins, mfaPending>>
-------------------------------------------------------------------------------
\* The call at the head of the flow succeeded.
Succeed ==
  /\ todo' = Tail(todo)
  /\ saved' = IF todo' = <<>> THEN saving ELSE saved
  /\ UNCHANGED <<platform, logins, mfaPending, saving, kills>>

\* Mutant: every error is swallowed.
FailAlwaysSwallowed ==
  /\ todo' = Tail(todo)
  /\ saved' = IF todo' = <<>> THEN saving ELSE saved
  /\ UNCHANGED <<platform, logins, mfaPending, saving, kills>>

\* It failed: the flow goes on if the error is swallowed, or ends with a
\* StorageException.
Fail ==
  /\ todo' = IF Head(todo).swallowed THEN Tail(todo) ELSE <<>>
  /\ saved' = IF Head(todo).swallowed /\ todo' = <<>> THEN saving ELSE saved
  /\ UNCHANGED <<platform, logins, mfaPending, saving, kills>>

\* The call is still running.
Running == UNCHANGED <<platform, logins, mfaPending, todo, saving, saved, kills>>

WebCall ==
  /\ platform = "web" /\ todo # <<>>
  /\ memory' = Effect(Head(todo), memory)
  /\ Succeed
  /\ UNCHANGED <<keyring, preferences, prefsFile, fileVars>>

LinuxCall ==
  /\ platform = "linux" /\ todo # <<>>
  /\ \/ KeyringDoes(Head(todo)) /\ Succeed
     \/ KeyringThrows /\ Fail
  /\ UNCHANGED <<preferences, prefsFile, fileVars, memory>>

AndroidCall ==
  /\ platform = "android" /\ todo # <<>>
  /\ \/ PreferencesDo(Head(todo)) /\ Succeed
     \/ PreferencesThrow /\ Fail
  /\ UNCHANGED <<keyring, fileVars, memory>>

AndroidFlush ==
  /\ platform = "android"
  /\ FlushPreferences /\ Running
  /\ UNCHANGED <<keyring, fileVars, memory>>

WindowsCall ==
  /\ platform = "windows" /\ todo # <<>>
  /\ \/ LoadForChange(Head(todo)) /\ Running
     \/ NothingToDelete(Head(todo)) /\ Succeed
     \/ LoadTorn(Head(todo)) /\ Running
     \/ DropTornFile /\ Fail
     \/ Truncate /\ Running
     \/ ProtectFails /\ Fail
     \/ WriteFails /\ Running
     \/ FinishWrite /\ Succeed
     \/ ClearFile(Head(todo)) /\ Succeed
  /\ UNCHANGED <<keyring, preferences, prefsFile, memory>>

WindowsRead ==
  /\ platform = "windows"
  /\ ReadTorn \/ DropAfterRead
  /\ Running
  /\ UNCHANGED <<keyring, preferences, prefsFile, memory>>

\* The process is killed and started again.
Kill ==
  /\ kills < MaxKills
  /\ kills' = kills + 1
  /\ todo' = <<>> /\ mfaPending' = FALSE /\ saving' = NoValue /\ saved' = NoValue
  /\ memory' = Empty
  /\ ReopenPreferences
  /\ CloseFile
  /\ UNCHANGED <<platform, keyring, logins>>
-------------------------------------------------------------------------------
Next ==
  \/ Login \/ LoginNeedsMfa \/ VerifyMfa \/ CancelMfa \/ SignOut
  \/ WebCall \/ LinuxCall \/ AndroidCall \/ AndroidFlush
  \/ WindowsCall \/ WindowsRead
  \/ Kill

Spec == Init /\ [][Next]_vars

\* The access token last: whatever fails or dies in the middle of a save, an
\* access token never stands beside the refresh token of an EARLIER login
\* (saveTokens, secure_token_storage.dart).
AccessNotNewer ==
  Stored("access") # NoValue /\ Stored("refresh") # NoValue => Stored("access") <= Stored("refresh")

\* A save that reported success left the tokens of its login and of no other:
\* no failure on the way is taken for a success (saveTokens rethrows).
SaveIsWhole ==
  saved # NoValue => Stored("access") \in {saved, NoValue} /\ Stored("refresh") \in {saved, NoValue}
===============================================================================
