----------------------------- MODULE LinuxStorage ------------------------------
(***************************************************************************)
(* The Linux back end of flutter_secure_storage: SecretStorage             *)
(* (flutter_secure_storage_linux/linux/include/Secret.hpp) and the method  *)
(* channel handler in front of it.  All keys live in ONE secret of the     *)
(* user's keyring, a JSON object; each call reads it, changes it and       *)
(* stores it back, on the one platform thread, without yielding.           *)
(***************************************************************************)
EXTENDS SecureStorage

VARIABLE keyring   \* the JSON object of the secret; Empty also stands for null

KeyringInit == keyring = Empty

\* addItem: read-modify-write of the object.
addItem(k, v) == keyring' = [keyring EXCEPT ![k] = v]

\* deleteItem: erase one member, store the rest.
deleteItem(k) == keyring' = [keyring EXCEPT ![k] = NoValue]

\* deleteKeyring: null is stored over the object, without reading it.
deleteKeyring == keyring' = Empty

\* The handler's dispatch, when nothing throws.
KeyringDoes(call) ==
  \/ call.method = "write" /\ addItem(call.key, call.value)
  \/ call.method = "delete" /\ deleteItem(call.key)
  \/ call.method = "deleteAll" /\ deleteKeyring

\* warmupKeyring, the lookup or the store throws a C string, which only the
\* handler catches: the caller gets an error and the secret is as it was.
KeyringThrows == UNCHANGED keyring

\* getItem: a member that is missing reads as the empty string, then as null.
getItem(k) == keyring[k]
===============================================================================
