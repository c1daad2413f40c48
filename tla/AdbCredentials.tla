--------------------------- MODULE AdbCredentials ---------------------------
(***************************************************************************)
(* AdbCredentialManager (adb_credentials.py): the one key by which panels  *)
(* know this Home Assistant.  A panel's owner confirms it on the panel's   *)
(* screen, so a second key would lock the integration out of every panel   *)
(* that was set up with the first.                                         *)
(*                                                                         *)
(*   keyFile      the store: absent, or a key that can be read or not      *)
(*   corrupt      a copy set aside as corrupt lies beside it               *)
(*   credential   the manager's copy                                       *)
(*   lockHolder   the caller inside the lock                               *)
(*   getters      each caller                                              *)
(*   stopping     Home Assistant is stopping                               *)
(*   generated    keys made so far, which is also the name of the last     *)
(*   handed       the keys given to callers                                *)
(*   starts       restarts (a bound)                                       *)
(*                                                                         *)
(* Store, which writes the file, replaces it atomically (external).  A     *)
(* caller is cancelled at any await.  Keys are numbers; that a document    *)
(* holds a well-formed pair of keys and nothing else is whether it can be  *)
(* read.                                                                   *)
(***************************************************************************)
EXTENDS Naturals, FiniteSets

CONSTANTS Getters, MaxGenerated, MaxStarts, NoKey

\* A stored key: which one, and whether it can still be read.
KeyFiles == [key : Nat, readable : BOOLEAN]

\* NoKey, which also says that the lock is free, is nobody and no key.
ASSUME KeyAssumption == NoKey \notin Getters \cup Nat \cup KeyFiles

VARIABLES keyFile, corrupt, credential, lockHolder, getters, stopping, generated,
          handed, starts

keyVars == <<keyFile, corrupt, credential, lockHolder, getters, stopping, generated,
             handed, starts>>

\* at: "idle", "queued" for the lock, "present" (_store_presence), "generate",
\* "save", "check" and "readback" (the drained steps), "read".
Away == [at |-> "idle", durable |-> FALSE, key |-> NoKey, failed |-> FALSE,
         cancelled |-> FALSE]

KeyInit ==
  /\ keyFile = NoKey
  /\ corrupt = FALSE
  /\ credential = NoKey
  /\ lockHolder = NoKey
  /\ getters = [g \in Getters |-> Away]
  /\ stopping = FALSE
  /\ generated = 0
  /\ handed = {}
  /\ starts = 0

keyStore == <<keyFile, corrupt>>
Around == <<stopping, starts>>

Goes(g, to) == getters' = [getters EXCEPT ![g].at = to]

\* The call returns key, or raises and forgets the manager's copy.
Answers(g, key) ==
  /\ getters' = [getters EXCEPT ![g] = Away]
  /\ lockHolder' = NoKey
  /\ credential' = key
  /\ handed' = IF key = NoKey THEN handed ELSE handed \cup {key}

Raises(g) == Answers(g, NoKey)

Continues == UNCHANGED <<credential, lockHolder, handed>>

\* async_get_adb_credential, or async_get_durable_adb_credential
Call(g) ==
  /\ getters[g].at = "idle"
  /\ \E durable \in BOOLEAN :
       getters' = [getters EXCEPT ![g] = [Away EXCEPT !.at = "queued", !.durable = durable]]
  /\ UNCHANGED <<keyStore, Around, generated>> /\ Continues

\* Faulty variant: the lock is not waited for.
LockAlwaysFree == TRUE

LockIsFree == lockHolder = NoKey

TakesLock(g) ==
  /\ getters[g].at = "queued"
  /\ LockIsFree
  /\ UNCHANGED <<keyStore, Around, generated>>
  /\ IF credential # NoKey /\ ~getters[g].durable
     THEN Answers(g, credential)
     ELSE /\ lockHolder' = g
          /\ Goes(g, "present")
          /\ UNCHANGED <<credential, handed>>

\* _store_presence finds that a store was lost.
Refuses == corrupt

Presence(g) ==
  /\ getters[g].at = "present"
  /\ UNCHANGED <<keyStore, Around, generated>>
  /\ IF Refuses
     THEN Raises(g)
     ELSE /\ Goes(g, IF keyFile = NoKey /\ ~getters[g].durable THEN "generate" ELSE "read")
          /\ Continues

\* _generate_credential, in a directory of its own.
Generate(g) ==
  /\ getters[g].at = "generate"
  /\ generated < MaxGenerated
  /\ generated' = generated + 1
  /\ getters' = [getters EXCEPT ![g].at = "save", ![g].key = generated + 1]
  /\ UNCHANGED <<keyStore, Around>> /\ Continues

\* _async_store_save: refused while Home Assistant stops, since Store would then
\* put the write off.
Save(g) ==
  /\ getters[g].at = "save"
  /\ UNCHANGED <<corrupt, Around, generated>> /\ Continues
  /\ \/ /\ ~stopping
        /\ keyFile' = [key |-> getters[g].key, readable |-> TRUE]
        /\ Goes(g, "check")
     \/ /\ getters' = [getters EXCEPT ![g].at = "check", ![g].failed = TRUE]
        /\ UNCHANGED keyFile

Finishes(g, ok) ==
  IF ok /\ ~getters[g].failed /\ ~getters[g].cancelled
  THEN Answers(g, getters[g].key)
  ELSE Raises(g)

\* The presence of the store, after the save whether it failed or not.
Check(g) ==
  /\ getters[g].at = "check"
  /\ UNCHANGED <<keyStore, Around, generated>>
  /\ IF keyFile = NoKey \/ corrupt
     THEN Finishes(g, FALSE)
     ELSE Goes(g, "readback") /\ Continues

Readable == keyFile # NoKey /\ keyFile.readable

\* What is on disk is what was generated.
ReadBack(g) == Readable /\ keyFile.key = getters[g].key

CheckKey(g) ==
  /\ getters[g].at = "readback"
  /\ UNCHANGED <<keyStore, Around, generated>>
  /\ Finishes(g, ReadBack(g))

\* _read_durable_credential
ReadKey(g) ==
  /\ getters[g].at = "read"
  /\ UNCHANGED <<keyStore, Around, generated>>
  /\ IF Readable THEN Answers(g, keyFile.key) ELSE Raises(g)

\* Any file operation fails.
StepFails(g) ==
  /\ UNCHANGED <<keyStore, Around, generated>>
  /\ \/ /\ getters[g].at \in {"present", "generate", "read"}
        /\ Raises(g)
     \/ /\ getters[g].at \in {"check", "readback"}
        /\ Finishes(g, FALSE)

\* The caller is cancelled: at once, or when the save and its checks are over.
Cancelled(g) ==
  /\ UNCHANGED <<keyStore, Around, generated>>
  /\ \/ /\ getters[g].at = "queued"
        /\ getters' = [getters EXCEPT ![g] = Away]
        /\ Continues
     \/ /\ getters[g].at \in {"present", "generate", "read"}
        /\ Raises(g)
     \/ /\ getters[g].at \in {"save", "check", "readback"}
        /\ getters' = [getters EXCEPT ![g].cancelled = TRUE]
        /\ Continues

\* The disk spoils the file; somebody or an older release sets it aside.
Spoiled ==
  /\ keyFile # NoKey
  /\ \/ /\ keyFile' = [keyFile EXCEPT !.readable = FALSE]
        /\ UNCHANGED corrupt
     \/ /\ keyFile' = NoKey
        /\ corrupt' = TRUE
  /\ UNCHANGED <<Around, generated, getters>> /\ Continues

HassStops ==
  /\ ~stopping
  /\ stopping' = TRUE
  /\ UNCHANGED <<keyStore, starts, generated, getters>> /\ Continues

HassRestarts ==
  /\ starts < MaxStarts
  /\ starts' = starts + 1
  /\ stopping' = FALSE
  /\ credential' = NoKey
  /\ lockHolder' = NoKey
  /\ getters' = [g \in Getters |-> Away]
  /\ UNCHANGED <<keyStore, generated, handed>>

KeyNext ==
  \/ \E g \in Getters :
       \/ Call(g) \/ TakesLock(g) \/ Presence(g) \/ Generate(g) \/ Save(g) \/ Check(g)
       \/ CheckKey(g) \/ ReadKey(g) \/ StepFails(g) \/ Cancelled(g)
  \/ Spoiled \/ HassStops \/ HassRestarts

KeySpec == KeyInit /\ [][KeyNext]_keyVars

-----------------------------------------------------------------------------
(* Property.                                                               *)

\* Every caller, in whatever process and after whatever failure, is given the
\* same key, and it is the one in the store as long as there is one.
OneKey ==
  /\ Cardinality(handed) <= 1
  /\ \A k \in handed : keyFile # NoKey => keyFile.key = k
=============================================================================
