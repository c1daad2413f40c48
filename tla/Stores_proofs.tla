---------------------------- MODULE Stores_proofs ----------------------------
(***************************************************************************)
(* Proofs about what the integration keeps on disk: the key that panels    *)
(* know it by (AdbCredentials), the downloaded APK of a job                *)
(* (ArtifactCustody) and the receipts, whose two files implement the one   *)
(* document of InstallJobs (ReceiptStore).                                 *)
(***************************************************************************)
EXTENDS ReceiptStore, AdbCredentials, ArtifactCustody, FiniteSetTheorems, TLAPS

-----------------------------------------------------------------------------
(***************************************************************************)
(* The key.  A caller that found no key is alone in the lock until it has  *)
(* answered, and no key was ever given out before it: a key that was is in *)
(* the file, or the file was set aside and its copy refuses every caller   *)
(* from then on.                                                           *)
(***************************************************************************)

Places == {"idle", "queued", "present", "generate", "save", "check", "readback", "read"}

GetterStates == [at : Places, durable : BOOLEAN, key : Nat \cup {NoKey},
                 failed : BOOLEAN, cancelled : BOOLEAN]

\* The caller is inside the lock; it makes a new key.
Inside(g) == getters[g].at \notin {"idle", "queued"}
Makes(g) == getters[g].at \in {"generate", "save", "check", "readback"}

KeyTypes ==
  /\ keyFile \in KeyFiles \cup {NoKey}
  /\ corrupt \in BOOLEAN
  /\ credential \in Nat \cup {NoKey}
  /\ lockHolder \in Getters \cup {NoKey}
  /\ getters \in [Getters -> GetterStates]
  /\ generated \in Nat
  /\ handed \in SUBSET Nat

LockIsHeld == \A g \in Getters : Inside(g) => lockHolder = g

HandedIsStored ==
  /\ \A k, l \in handed : k = l
  /\ keyFile # NoKey => \A k \in handed : keyFile.key = k
  /\ keyFile = NoKey /\ handed # {} => corrupt
  /\ credential # NoKey => credential \in handed

MadeIsFirst ==
  \A g \in Getters :
    /\ Makes(g) => handed = {}
    /\ getters[g].at \in {"save", "check", "readback"} => getters[g].key \in Nat

\* The inductive invariant.
KeyInv == KeyTypes /\ LockIsHeld /\ HandedIsStored /\ MadeIsFirst

LEMMA KeyInitHolds == KeyInit => KeyInv
<1> SUFFICES ASSUME KeyInit PROVE KeyInv
  OBVIOUS
<1>1. Away \in GetterStates /\ Away.at = "idle"
  BY DEF Away, GetterStates, Places
<1>2. KeyTypes
  BY <1>1 DEF KeyInit, KeyTypes
<1>3. \A g \in Getters : ~Inside(g) /\ ~Makes(g) /\ getters[g].at = "idle"
  BY <1>1 DEF KeyInit, Inside, Makes
<1> QED BY <1>2, <1>3 DEF KeyInv, KeyInit, LockIsHeld, HandedIsStored, MadeIsFirst

\* A step that moves one caller, inside the lock or not, and leaves the rest.
LEMMA MovesInside ==
  ASSUME KeyInv, NEW g \in Getters, NEW w \in GetterStates,
         getters' = [getters EXCEPT ![g] = w],
         UNCHANGED <<keyFile, corrupt, credential, lockHolder, handed>>,
         generated' \in Nat,
         w.at \notin {"idle", "queued"} => Inside(g),
         w.at \in {"generate", "save", "check", "readback"} => handed = {},
         w.at \in {"save", "check", "readback"} => w.key \in Nat
  PROVE  KeyInv'
<1>1. KeyTypes'
  BY DEF KeyInv, KeyTypes
<1>2. \A h \in Getters : getters'[h] = IF h = g THEN w ELSE getters[h]
  BY DEF KeyInv, KeyTypes
<1>3. LockIsHeld' /\ MadeIsFirst'
  BY <1>2 DEF KeyInv, LockIsHeld, MadeIsFirst, Inside, Makes
<1> QED BY <1>1, <1>3 DEF KeyInv, HandedIsStored

\* A call returns a key that is the one of the file or was given out before.
LEMMA AnswerKeeps ==
  ASSUME KeyInv, NEW g \in Getters, NEW key \in Nat \cup {NoKey},
         Answers(g, key), UNCHANGED <<keyFile, corrupt, generated>>,
         \A h \in Getters : Inside(h) => h = g,
         key # NoKey => \/ key \in handed
                        \/ keyFile # NoKey /\ keyFile.key = key
  PROVE  KeyInv'
<1>1. Away \in GetterStates /\ Away.at = "idle"
  BY DEF Away, GetterStates, Places
<1>2. \A h \in Getters : getters'[h] = IF h = g THEN Away ELSE getters[h]
  BY DEF KeyInv, KeyTypes, Answers
<1>3. KeyTypes'
  BY <1>1 DEF KeyInv, KeyTypes, Answers
<1>4. \A h \in Getters : ~Inside(h)' /\ ~Makes(h)' /\ getters'[h].at \in {"idle", "queued"}
  BY <1>1, <1>2 DEF Inside, Makes
<1>5. HandedIsStored'
  BY DEF KeyInv, HandedIsStored, Answers
<1> QED BY <1>3, <1>4, <1>5 DEF KeyInv, LockIsHeld, MadeIsFirst

\* Whoever is inside the lock is alone there.
LEMMA AloneInside ==
  ASSUME KeyInv, NEW g \in Getters, Inside(g) \/ lockHolder = NoKey
  PROVE  \A h \in Getters : Inside(h) => h = g
BY KeyAssumption DEF KeyInv, LockIsHeld

LEMMA KeyCallKeeps ==
  ASSUME KeyInv, NEW g \in Getters, Call(g) \/ Cancelled(g) \/ TakesLock(g)
  PROVE  KeyInv'
<1>0. getters[g] \in GetterStates
  BY DEF KeyInv, KeyTypes
<1>1. CASE Call(g)
  <2>1. PICK durable \in BOOLEAN :
          getters' = [getters EXCEPT ![g] = [Away EXCEPT !.at = "queued", !.durable = durable]]
    BY <1>1 DEF Call
  <2> DEFINE w == [Away EXCEPT !.at = "queued", !.durable = durable]
  <2>2. w \in GetterStates /\ w.at = "queued"
    BY DEF Away, GetterStates, Places
  <2> HIDE DEF w
  <2> QED BY <1>1, <2>1, <2>2, MovesInside DEF Call, Continues, keyStore, w, KeyInv, KeyTypes
<1>2. CASE Cancelled(g)
  <2>1. CASE getters[g].at = "queued" /\ getters' = [getters EXCEPT ![g] = Away] /\ Continues
    <3>1. Away \in GetterStates /\ Away.at = "idle"
      BY DEF Away, GetterStates, Places
    <3> QED BY <1>2, <2>1, <3>1, MovesInside DEF Cancelled, Continues, keyStore, KeyInv, KeyTypes
  <2>2. CASE getters[g].at \in {"present", "generate", "read"} /\ Raises(g)
    <3>1. \A h \in Getters : Inside(h) => h = g
      BY <2>2, AloneInside DEF Inside
    <3> QED BY <1>2, <2>2, <3>1, AnswerKeeps DEF Cancelled, Raises, keyStore
  <2>3. CASE /\ getters[g].at \in {"save", "check", "readback"}
             /\ getters' = [getters EXCEPT ![g].cancelled = TRUE]
             /\ Continues
    <3> DEFINE w == [getters[g] EXCEPT !.cancelled = TRUE]
    <3>1. w \in GetterStates /\ w.at = getters[g].at /\ w.key = getters[g].key
      BY <1>0 DEF GetterStates
    <3>2. handed = {} /\ getters[g].key \in Nat
      BY <2>3 DEF KeyInv, MadeIsFirst, Makes
    <3>3. getters' = [getters EXCEPT ![g] = w]
      BY <2>3
    <3> HIDE DEF w
    <3> QED BY <1>2, <2>3, <3>1, <3>2, <3>3, MovesInside
            DEF Cancelled, Continues, keyStore, KeyInv, KeyTypes, Inside
  <2> QED BY <1>2, <2>1, <2>2, <2>3 DEF Cancelled
<1>3. CASE TakesLock(g)
  <2>0. \A h \in Getters : Inside(h) => h = g
    BY <1>3, AloneInside DEF TakesLock, LockIsFree
  <2>1. CASE credential # NoKey /\ ~getters[g].durable
    BY <1>3, <2>0, <2>1, AnswerKeeps DEF TakesLock, KeyInv, KeyTypes, HandedIsStored, keyStore
  <2>2. CASE ~(credential # NoKey /\ ~getters[g].durable)
    <3> DEFINE w == [getters[g] EXCEPT !.at = "present"]
    <3>1. w \in GetterStates /\ w.at = "present"
      BY <1>0 DEF GetterStates, Places
    <3>2. /\ getters' = [getters EXCEPT ![g] = w] /\ lockHolder' = g
          /\ UNCHANGED <<keyFile, corrupt, credential, generated, handed>>
          /\ lockHolder = NoKey
      BY <1>3, <2>2 DEF TakesLock, Goes, keyStore, LockIsFree
    <3> HIDE DEF w
    <3>3. \A h \in Getters : getters'[h] = IF h = g THEN w ELSE getters[h]
      BY <3>2 DEF KeyInv, KeyTypes
    <3>4. KeyTypes'
      BY <3>1, <3>2 DEF KeyInv, KeyTypes
    <3>5. LockIsHeld' /\ MadeIsFirst'
      BY <2>0, <3>1, <3>2, <3>3 DEF KeyInv, LockIsHeld, MadeIsFirst, Inside, Makes
    <3> QED BY <3>2, <3>4, <3>5 DEF KeyInv, HandedIsStored
  <2> QED BY <2>1, <2>2
<1> QED BY <1>1, <1>2, <1>3

\* The steps before a new key is written, or an old one read.
LEMMA KeyBeginKeeps ==
  ASSUME KeyInv, NEW g \in Getters,
         Presence(g) \/ Generate(g) \/ StepFails(g) \/ ReadKey(g)
  PROVE  KeyInv'
<1>0. getters[g] \in GetterStates
  BY DEF KeyInv, KeyTypes
<1>1. Inside(g) /\ \A h \in Getters : Inside(h) => h = g
  BY AloneInside DEF Presence, Generate, StepFails, ReadKey, Inside
<1>2. ASSUME Raises(g), UNCHANGED <<keyFile, corrupt, generated>>
      PROVE  KeyInv'
  BY <1>1, <1>2, AnswerKeeps DEF Raises
<1>3. CASE Presence(g)
  <2>1. CASE ~Refuses
    <3> DEFINE to == IF keyFile = NoKey /\ ~getters[g].durable THEN "generate" ELSE "read"
               w == [getters[g] EXCEPT !.at = to]
    <3>1. w \in GetterStates /\ w.at = to
      BY <1>0 DEF GetterStates, Places
    <3>2. to = "generate" => handed = {}
      BY <2>1 DEF Refuses, KeyInv, HandedIsStored
    <3>3. getters' = [getters EXCEPT ![g] = w]
      BY <1>3, <2>1 DEF Presence, Goes
    <3>4. w.at \in {"generate", "read"}
      BY <3>1
    <3>5. w.at = "generate" => handed = {}
      BY <3>1, <3>2
    <3> HIDE DEF w, to
    <3> QED BY <1>1, <1>3, <2>1, <3>1, <3>3, <3>4, <3>5, MovesInside
            DEF Presence, Continues, keyStore, KeyInv, KeyTypes
  <2> QED BY <1>2, <1>3, <2>1 DEF Presence, keyStore
<1>4. CASE Generate(g)
  <2> DEFINE w == [getters[g] EXCEPT !.at = "save", !.key = generated + 1]
  <2>1. generated + 1 \in Nat
    BY DEF KeyInv, KeyTypes
  <2>2. w \in GetterStates /\ w.at = "save" /\ w.key \in Nat
    BY <1>0, <2>1 DEF GetterStates, Places
  <2>3. handed = {}
    BY <1>4 DEF Generate, KeyInv, MadeIsFirst, Makes
  <2>4. getters' = [getters EXCEPT ![g] = w]
    BY <1>4 DEF Generate
  <2> HIDE DEF w
  <2> QED BY <1>1, <1>4, <2>1, <2>2, <2>3, <2>4, MovesInside
          DEF Generate, Continues, keyStore
<1>5. CASE StepFails(g)
  BY <1>2, <1>5 DEF StepFails, Finishes, keyStore
<1>6. CASE ReadKey(g)
  <2>1. CASE Readable
    <3>1. keyFile # NoKey /\ keyFile.key \in Nat
      BY <2>1 DEF Readable, KeyInv, KeyTypes, KeyFiles
    <3> QED BY <1>1, <1>6, <2>1, <3>1, AnswerKeeps DEF ReadKey, keyStore
  <2> QED BY <1>2, <1>6, <2>1 DEF ReadKey, keyStore
<1> QED BY <1>3, <1>4, <1>5, <1>6

\* Only a caller that makes the first key writes the file.
LEMMA KeySaveKeeps ==
  ASSUME KeyInv, NEW g \in Getters, Save(g)
  PROVE  KeyInv'
<1>0. getters[g] \in GetterStates
  BY DEF KeyInv, KeyTypes
<1>1. Inside(g) /\ handed = {} /\ getters[g].key \in Nat
  BY DEF Save, Inside, KeyInv, MadeIsFirst, Makes
<1>2. CASE ~stopping /\ keyFile' = [key |-> getters[g].key, readable |-> TRUE]
             /\ Goes(g, "check")
  <2> DEFINE w == [getters[g] EXCEPT !.at = "check"]
  <2>1. w \in GetterStates /\ w.at = "check" /\ w.key = getters[g].key
    BY <1>0 DEF GetterStates, Places
  <2>2. /\ getters' = [getters EXCEPT ![g] = w]
        /\ UNCHANGED <<corrupt, credential, lockHolder, generated, handed>>
    BY <1>2 DEF Save, Goes, Continues
  <2> HIDE DEF w
  <2>3. \A h \in Getters : getters'[h] = IF h = g THEN w ELSE getters[h]
    BY <2>2 DEF KeyInv, KeyTypes
  <2>4. keyFile' \in KeyFiles
    BY <1>1, <1>2 DEF KeyFiles
  <2>5. KeyTypes'
    BY <2>1, <2>2, <2>4 DEF KeyInv, KeyTypes
  <2>6. LockIsHeld' /\ MadeIsFirst' /\ HandedIsStored'
    BY <1>1, <2>1, <2>2, <2>3 DEF KeyInv, LockIsHeld, MadeIsFirst, HandedIsStored, Inside, Makes
  <2> QED BY <2>5, <2>6 DEF KeyInv
<1>3. CASE /\ getters' = [getters EXCEPT ![g].at = "check", ![g].failed = TRUE]
           /\ UNCHANGED keyFile
  <2> DEFINE w == [getters[g] EXCEPT !.at = "check", !.failed = TRUE]
  <2>1. w \in GetterStates /\ w.at = "check" /\ w.key = getters[g].key
    BY <1>0 DEF GetterStates, Places
  <2>2. getters' = [getters EXCEPT ![g] = w]
    BY <1>3
  <2> HIDE DEF w
  <2> QED BY <1>1, <1>3, <2>1, <2>2, MovesInside DEF Save, Continues, KeyInv, KeyTypes
<1> QED BY <1>2, <1>3 DEF Save
\* The checks after the write, which end the call.
LEMMA KeyCheckKeeps ==
  ASSUME KeyInv, NEW g \in Getters, Check(g) \/ CheckKey(g)
  PROVE  KeyInv'
<1>0. getters[g] \in GetterStates /\ getters[g].key \in Nat /\ handed = {}
  BY DEF KeyInv, KeyTypes, MadeIsFirst, Makes, Check, CheckKey
<1>1. Inside(g) /\ \A h \in Getters : Inside(h) => h = g
  BY AloneInside DEF Check, CheckKey, Inside
<1>2. ASSUME NEW ok \in BOOLEAN, Finishes(g, ok), UNCHANGED <<keyFile, corrupt, generated>>,
             ok => keyFile # NoKey /\ keyFile.key = getters[g].key
      PROVE  KeyInv'
  <2>1. CASE ok /\ ~getters[g].failed /\ ~getters[g].cancelled
    BY <1>0, <1>1, <1>2, <2>1, AnswerKeeps DEF Finishes
  <2>2. CASE ~(ok /\ ~getters[g].failed /\ ~getters[g].cancelled)
    BY <1>1, <1>2, <2>2, AnswerKeeps DEF Finishes, Raises
  <2> QED BY <2>1, <2>2
<1>3. CASE Check(g)
  <2>1. CASE ~(keyFile = NoKey \/ corrupt)
    <3> DEFINE w == [getters[g] EXCEPT !.at = "readback"]
    <3>1. w \in GetterStates /\ w.at = "readback" /\ w.key = getters[g].key
      BY <1>0 DEF GetterStates, Places
    <3>2. getters' = [getters EXCEPT ![g] = w]
      BY <1>3, <2>1 DEF Check, Goes
    <3> HIDE DEF w
    <3> QED BY <1>0, <1>1, <1>3, <2>1, <3>1, <3>2, MovesInside
            DEF Check, Continues, keyStore, KeyInv, KeyTypes
  <2>2. CASE keyFile = NoKey \/ corrupt
    BY <1>2, <1>3, <2>2 DEF Check, keyStore
  <2> QED BY <2>1, <2>2
<1>4. CASE CheckKey(g)
  <2>1. ReadBack(g) \in BOOLEAN
    BY DEF ReadBack, Readable, KeyInv, KeyTypes, KeyFiles
  <2>2. ReadBack(g) => keyFile # NoKey /\ keyFile.key = getters[g].key
    BY DEF ReadBack, Readable
  <2> QED BY <1>2, <1>4, <2>1, <2>2 DEF CheckKey, keyStore
<1> QED BY <1>3, <1>4

LEMMA KeySpoiledKeeps ==
  ASSUME KeyInv, Spoiled \/ HassStops \/ HassRestarts
  PROVE  KeyInv'
<1>1. CASE Spoiled
  <2>1. CASE keyFile' = [keyFile EXCEPT !.readable = FALSE] /\ UNCHANGED corrupt
    <3>1. keyFile' \in KeyFiles /\ keyFile'.key = keyFile.key
      BY <1>1, <2>1 DEF Spoiled, KeyInv, KeyTypes, KeyFiles
    <3>2. keyFile' # NoKey
      BY <3>1, KeyAssumption
    <3> QED BY <1>1, <2>1, <3>1, <3>2
            DEF Spoiled, Continues, KeyInv, KeyTypes, LockIsHeld, HandedIsStored,
                MadeIsFirst, Inside, Makes
  <2>2. CASE keyFile' = NoKey /\ corrupt' = TRUE
    BY <1>1, <2>2
    DEF Spoiled, Continues, KeyInv, KeyTypes, LockIsHeld, HandedIsStored, MadeIsFirst,
        Inside, Makes
  <2> QED BY <1>1, <2>1, <2>2 DEF Spoiled
<1>2. CASE HassStops
  BY <1>2
  DEF HassStops, Continues, keyStore, KeyInv, KeyTypes, LockIsHeld, HandedIsStored,
      MadeIsFirst, Inside, Makes
<1>3. CASE HassRestarts
  <2>1. Away \in GetterStates /\ Away.at = "idle"
    BY DEF Away, GetterStates, Places
  <2>2. KeyTypes'
    BY <1>3, <2>1 DEF HassRestarts, keyStore, KeyInv, KeyTypes
  <2>3. \A g \in Getters : getters'[g].at = "idle"
    BY <1>3, <2>1 DEF HassRestarts
  <2> QED BY <1>3, <2>2, <2>3
          DEF HassRestarts, keyStore, KeyInv, LockIsHeld, HandedIsStored, MadeIsFirst,
              Inside, Makes
<1> QED BY <1>1, <1>2, <1>3

LEMMA KeyStepKeeps == KeyInv /\ [KeyNext]_keyVars => KeyInv'
<1> SUFFICES ASSUME KeyInv, [KeyNext]_keyVars PROVE KeyInv'
  OBVIOUS
<1>1. CASE UNCHANGED keyVars
  BY <1>1
  DEF keyVars, KeyInv, KeyTypes, LockIsHeld, HandedIsStored, MadeIsFirst, Inside, Makes
<1>2. ASSUME NEW g \in Getters,
             \/ Call(g) \/ TakesLock(g) \/ Presence(g) \/ Generate(g) \/ Save(g) \/ Check(g)
             \/ CheckKey(g) \/ ReadKey(g) \/ StepFails(g) \/ Cancelled(g)
      PROVE  KeyInv'
  BY <1>2, KeyCallKeeps, KeyBeginKeeps, KeySaveKeeps, KeyCheckKeeps
<1> QED BY <1>1, <1>2, KeySpoiledKeeps DEF KeyNext

\* Every caller is given the same key, in whatever process and after whatever
\* failure, and it is the one in the store as long as there is one
\* (_async_get_credential and its save in adb_credentials.py).
THEOREM EveryCallerGetsOneKey == KeySpec => []OneKey
<1>1. KeyInv => OneKey
  <2> SUFFICES ASSUME KeyInv PROVE OneKey
    OBVIOUS
  <2>1. CASE handed = {}
    BY <2>1, FS_EmptySet DEF OneKey
  <2>2. CASE handed # {}
    <3>1. PICK k \in handed : handed = {k}
      BY <2>2 DEF KeyInv, HandedIsStored
    <3>2. Cardinality({k}) = 1
      BY FS_Singleton
    <3> QED BY <3>1, <3>2 DEF OneKey, KeyInv, HandedIsStored
  <2> QED BY <2>1, <2>2
<1> QED BY <1>1, KeyInitHolds, KeyStepKeeps, PTL DEF KeySpec

-----------------------------------------------------------------------------
(***************************************************************************)
(* The artifact.  One thread runs at a time, the one its caller waits for; *)
(* where the caller is says what the files, the descriptor and the one who *)
(* was given the file can be.                                              *)
(***************************************************************************)

ThreadStates == {"none", "queued", "running", "renamed", "ok", "reuse", "error", "aborted"}

Callers == [at : {"boot", "idle", "waiting", "fetching"}, op : FileOps \cup {Nil},
            cancelled : BOOLEAN, fd : BOOLEAN, got : Nat, sound : BOOLEAN,
            chunk : BOOLEAN]

CustodyTypes ==
  /\ partFile \in Files \cup {Nil}
  /\ readyFile \in Files \cup {Nil}
  /\ published \in BOOLEAN
  /\ handle \in {"open", "closed"}
  /\ workers \in [FileOps -> ThreadStates]
  /\ transfer \in Callers
  /\ held \in BOOLEAN
  /\ residue \in BOOLEAN
  /\ aborts \in Nat
  /\ reboots \in Nat

Waits(op) == transfer.at = "waiting" /\ transfer.op = op
Unfinished(op) == workers[op] \in {"queued", "running", "renamed"}

Fetches == transfer.at = "fetching"
Prepared == Waits("prepare") /\ workers["prepare"] = "ok"

OneThread ==
  \A op \in FileOps :
    /\ Unfinished(op) => Waits(op)
    /\ workers[op] = "reuse" => op = "prepare"

\* What is published was flushed, so that a restart keeps it.
ReadyIsWhole ==
  readyFile # Nil => readyFile.size = Size /\ readyFile.sound /\ readyFile.synced

HeldIsReady ==
  held => /\ readyFile # Nil
          /\ transfer.at = "idle" \/ Waits("prepare") \/ Waits("abandon")

\* How far the download is.
StageFits ==
  /\ Waits("prepare") /\ workers["prepare"] = "reuse" => readyFile # Nil
  /\ Prepared => readyFile = Nil
  /\ Prepared \/ Fetches \/ Waits("write") \/ Waits("finish") => partFile # Nil
  /\ Waits("finish") /\ workers["finish"] = "ok" => partFile.synced
  /\ Waits("promote") /\ workers["promote"] \in {"queued", "running"}
       => partFile # Nil /\ partFile.synced
  /\ Waits("promote") /\ workers["promote"] \in {"renamed", "ok"}
       => readyFile # Nil /\ partFile = Nil

\* A partial file is being made, is about to be removed, or is residue.
PartIsOwned ==
  partFile # Nil /\ ~residue =>
    \/ Prepared \/ Fetches
    \/ \E op \in {"write", "finish", "promote"} : Waits(op)
    \/ Waits("abandon") /\ workers["abandon"] \in {"queued", "running", "aborted"}

\* An open descriptor is somebody's, unless a future was cancelled.
HandleIsOwned ==
  handle = "open" /\ aborts = 0 =>
    \/ Prepared
    \/ Fetches /\ transfer.fd
    \/ Waits("write") /\ transfer.fd
    \/ Waits("finish") /\ workers["finish"] \in {"queued", "running"}
    \/ Waits("abandon") /\ workers["abandon"] \in {"queued", "running"} /\ transfer.fd

\* The inductive invariant.
CustodyInv ==
  /\ CustodyTypes /\ OneThread /\ ReadyIsWhole /\ HeldIsReady /\ StageFits
  /\ PartIsOwned /\ HandleIsOwned

LEMMA CustodyInitHolds == CustodyInit => CustodyInv
<1> SUFFICES ASSUME CustodyInit PROVE CustodyInv
  OBVIOUS
<1>1. transfer \in Callers /\ transfer.at = "boot"
  BY DEF CustodyInit, AtRest, Callers
<1>2. CustodyTypes
  BY <1>1 DEF CustodyInit, CustodyTypes, ThreadStates
<1> QED BY <1>1, <1>2
        DEF CustodyInit, CustodyInv, OneThread, ReadyIsWhole, HeldIsReady, StageFits,
            PartIsOwned, HandleIsOwned, Unfinished, Waits, Fetches, Prepared

\* The caller starts a thread for op and waits for it.
LEMMA AwaitFacts ==
  ASSUME CustodyTypes, NEW op \in FileOps, NEW t \in Callers, Await(op, t)
  PROVE  /\ workers' \in [FileOps -> ThreadStates]
         /\ \A x \in FileOps : workers'[x] = IF x = op THEN "queued" ELSE workers[x]
         /\ transfer' \in Callers
         /\ transfer'.at = "waiting" /\ transfer'.op = op /\ transfer'.fd = t.fd
<1> DEFINE w == [t EXCEPT !.at = "waiting", !.op = op]
<1>1. w \in Callers /\ w.at = "waiting" /\ w.op = op /\ w.fd = t.fd
  BY DEF Callers
<1>2. transfer' = w
  BY DEF Await
<1>3. workers' = [workers EXCEPT ![op] = "queued"]
  BY DEF Await
<1> QED BY <1>1, <1>2, <1>3 DEF CustodyTypes, ThreadStates

\* A thread takes a step, and only it.
LEMMA ThreadFacts ==
  ASSUME CustodyTypes, NEW op \in FileOps, NEW to \in ThreadStates,
         workers' = [workers EXCEPT ![op] = to]
  PROVE  /\ workers' \in [FileOps -> ThreadStates]
         /\ workers'[op] = to
         /\ \A x \in FileOps : x # op => workers'[x] = workers[x]
BY DEF CustodyTypes

LEMMA StartsKeeps ==
  ASSUME CustodyInv, NEW op \in FileOps, WorkerStarts(op) \/ WorkerAborted(op)
  PROVE  CustodyInv'
<1>1. Waits(op) /\ workers[op] = "queued"
  BY DEF WorkerStarts, WorkerAborted, CustodyInv, OneThread, Unfinished
<1>2. PICK to \in {"running", "aborted"} :
        /\ workers' = [workers EXCEPT ![op] = to]
        /\ to = "running" => UNCHANGED aborts
        /\ to = "aborted" => aborts' = aborts + 1
        /\ UNCHANGED <<fileVars, transfer, held, reboots>>
  BY DEF WorkerStarts, WorkerAborted, AbortedState
<1>3. /\ workers' \in [FileOps -> ThreadStates] /\ workers'[op] = to
      /\ \A x \in FileOps : x # op => workers'[x] = workers[x]
  BY <1>2, ThreadFacts DEF CustodyInv, ThreadStates
<1>4. CustodyTypes' /\ (aborts' = 0 => to = "running" /\ aborts = 0)
  BY <1>2, <1>3 DEF CustodyInv, CustodyTypes, fileVars
<1>5. \A x \in FileOps : Waits(x)' <=> Waits(x)
  BY <1>2 DEF Waits
<1>6. OneThread' /\ ReadyIsWhole' /\ HeldIsReady'
  BY <1>1, <1>2, <1>3, <1>5
  DEF CustodyInv, OneThread, ReadyIsWhole, HeldIsReady, Unfinished, fileVars, FileOps
<1>7. StageFits' /\ PartIsOwned' /\ HandleIsOwned'
  BY <1>1, <1>2, <1>3, <1>4
  DEF CustodyInv, StageFits, PartIsOwned, HandleIsOwned, Prepared, Fetches, Waits,
      fileVars, FileOps
<1> QED BY <1>4, <1>6, <1>7 DEF CustodyInv

\* What a thread's step needs beside itself: who waits does not change.
LEMMA ThreadStepKeeps ==
  ASSUME CustodyInv, NEW op \in FileOps, NEW to \in ThreadStates,
         workers' = [workers EXCEPT ![op] = to],
         Unfinished(op), to = "reuse" => op = "prepare",
         UNCHANGED <<transfer, held, aborts, reboots>>
  PROVE  /\ Waits(op) /\ OneThread'
         /\ workers' \in [FileOps -> ThreadStates] /\ workers'[op] = to
         /\ \A x \in FileOps : x # op => workers'[x] = workers[x]
<1>1. Waits(op)
  BY DEF CustodyInv, OneThread
<1>2. /\ workers' \in [FileOps -> ThreadStates] /\ workers'[op] = to
      /\ \A x \in FileOps : x # op => workers'[x] = workers[x]
  BY ThreadFacts DEF CustodyInv
<1>3. OneThread'
  BY <1>1, <1>2 DEF CustodyInv, OneThread, Unfinished, Waits
<1> QED BY <1>1, <1>2, <1>3

LEMMA EmptyFileFits == EmptyFile \in Files /\ EmptyFile # Nil
<1>1. EmptyFile \in Files
  BY DEF EmptyFile, Files
<1> QED BY <1>1, CustodyAssumption

LEMMA PrepareKeeps ==
  ASSUME CustodyInv, PrepareRuns
  PROVE  CustodyInv'
<1>1. PICK to \in {"ok", "reuse", "error"} : Ends("prepare", to)
  BY DEF PrepareRuns
<1>2. /\ Waits("prepare") /\ OneThread'
      /\ workers' \in [FileOps -> ThreadStates] /\ workers'["prepare"] = to
      /\ \A x \in FileOps : x # "prepare" => workers'[x] = workers[x]
  BY <1>1, ThreadStepKeeps DEF Ends, FileOps, ThreadStates, Unfinished
<1>3. UNCHANGED <<transfer, held, aborts, reboots>>
  BY <1>1 DEF Ends
<1>4. CustodyTypes'
  BY <1>2, <1>3, EmptyFileFits DEF PrepareRuns, CustodyInv, CustodyTypes, fileVars, Ends
<1>5. ReadyIsWhole' /\ HeldIsReady'
  BY <1>2, <1>3 DEF PrepareRuns, CustodyInv, ReadyIsWhole, HeldIsReady, fileVars, Waits
<1>6. \/ to = "error" /\ UNCHANGED fileVars
      \/ to = "reuse" /\ readyFile # Nil /\ UNCHANGED fileVars
      \/ to = "ok" /\ readyFile' = Nil /\ partFile' # Nil
      \/ to = "error" /\ residue' /\ UNCHANGED <<readyFile, handle>>
  BY <1>1, <1>2, EmptyFileFits
  DEF PrepareRuns, Ends, CustodyInv, CustodyTypes, FileOps, fileVars
<1>7. workers["prepare"] = "running"
  BY <1>1 DEF Ends
<1>8. StageFits'
  BY <1>2, <1>3, <1>6, <1>7 DEF StageFits, Prepared, Fetches, Waits, fileVars
<1>9. PartIsOwned'
  BY <1>2, <1>3, <1>6, <1>7
  DEF CustodyInv, PartIsOwned, Prepared, Fetches, Waits, fileVars
<1>10. HandleIsOwned'
  BY <1>2, <1>3, <1>6, <1>7
  DEF CustodyInv, HandleIsOwned, Prepared, Fetches, Waits, fileVars
<1> QED BY <1>2, <1>4, <1>5, <1>8, <1>9, <1>10 DEF CustodyInv

LEMMA WriteKeeps ==
  ASSUME CustodyInv, WriteRuns
  PROVE  CustodyInv'
<1>1. PICK to \in {"ok", "error"}, sound \in {transfer.chunk, FALSE} :
        /\ Ends("write", to)
        /\ partFile' = [partFile EXCEPT !.size = @ + 1, !.sound = @ /\ sound]
        /\ UNCHANGED <<readyFile, published, handle, residue>>
  BY DEF WriteRuns
<1>2. /\ Waits("write") /\ OneThread'
      /\ workers' \in [FileOps -> ThreadStates] /\ workers'["write"] = to
      /\ \A x \in FileOps : x # "write" => workers'[x] = workers[x]
  BY <1>1, ThreadStepKeeps DEF Ends, FileOps, ThreadStates, Unfinished
<1>3. UNCHANGED <<transfer, held, aborts, reboots>>
  BY <1>1 DEF Ends
<1>4. partFile \in Files
  BY <1>2 DEF CustodyInv, CustodyTypes, StageFits
<1>5. sound \in BOOLEAN
  BY DEF CustodyInv, CustodyTypes, Callers
<1>6. partFile' \in Files
  <2>1. partFile.size + 1 \in Nat /\ (partFile.sound /\ sound) \in BOOLEAN
    BY <1>4, <1>5 DEF Files
  <2> QED BY <1>1, <1>4, <2>1 DEF Files
<1>7. partFile' # Nil
  BY <1>6, CustodyAssumption
<1>8. CustodyTypes'
  BY <1>1, <1>2, <1>3, <1>6 DEF CustodyInv, CustodyTypes
<1>9. ReadyIsWhole' /\ HeldIsReady' /\ StageFits' /\ PartIsOwned' /\ HandleIsOwned'
  BY <1>1, <1>2, <1>3, <1>7
  DEF CustodyInv, ReadyIsWhole, HeldIsReady, StageFits, PartIsOwned, HandleIsOwned,
      Prepared, Fetches, Waits, FileOps
<1> QED BY <1>2, <1>8, <1>9 DEF CustodyInv

LEMMA FinishKeeps ==
  ASSUME CustodyInv, FinishRuns
  PROVE  CustodyInv'
<1>1. PICK to \in {"ok", "error"} : Ends("finish", to)
  BY DEF FinishRuns
<1>2. /\ Waits("finish") /\ OneThread'
      /\ workers' \in [FileOps -> ThreadStates] /\ workers'["finish"] = to
      /\ \A x \in FileOps : x # "finish" => workers'[x] = workers[x]
  BY <1>1, ThreadStepKeeps DEF Ends, FileOps, ThreadStates, Unfinished
<1>3. UNCHANGED <<transfer, held, aborts, reboots>>
  BY <1>1 DEF Ends
<1>4. partFile \in Files
  BY <1>2 DEF CustodyInv, CustodyTypes, StageFits
<1>5. FlushedFile(partFile) \in Files /\ FlushedFile(partFile).synced
  BY <1>4 DEF Files, FlushedFile
<1>6. /\ partFile' \in Files /\ handle' = "closed"
      /\ to = "ok" => partFile'.synced
      /\ UNCHANGED <<readyFile, published, residue>>
  BY <1>1, <1>2, <1>4, <1>5 DEF FinishRuns, Ends, FileOps, CustodyInv, CustodyTypes
<1>7. partFile' # Nil
  BY <1>6, CustodyAssumption
<1>8. CustodyTypes'
  BY <1>2, <1>3, <1>6 DEF CustodyInv, CustodyTypes
<1>9. ReadyIsWhole' /\ HeldIsReady' /\ StageFits' /\ PartIsOwned' /\ HandleIsOwned'
  BY <1>2, <1>3, <1>6, <1>7
  DEF CustodyInv, ReadyIsWhole, HeldIsReady, StageFits, PartIsOwned, HandleIsOwned,
      Prepared, Fetches, Waits, FileOps
<1> QED BY <1>2, <1>8, <1>9 DEF CustodyInv

LEMMA PromoteKeeps ==
  ASSUME CustodyInv, PromoteRuns \/ PromoteEnds
  PROVE  CustodyInv'
<1>1. PICK to \in {"renamed", "ok", "error"} :
        /\ workers' = [workers EXCEPT !["promote"] = to]
        /\ Unfinished("promote")
        /\ UNCHANGED <<transfer, held, aborts, reboots>>
  BY DEF PromoteRuns, PromoteEnds, Ends, Unfinished
<1>2. /\ Waits("promote") /\ OneThread'
      /\ workers' \in [FileOps -> ThreadStates] /\ workers'["promote"] = to
      /\ \A x \in FileOps : x # "promote" => workers'[x] = workers[x]
  BY <1>1, ThreadStepKeeps DEF FileOps, ThreadStates
<1>3. ~held /\ workers["promote"] \in {"queued", "running", "renamed"}
  BY <1>1, <1>2 DEF CustodyInv, HeldIsReady, Unfinished, Waits
<1>4. \/ to = "error" /\ UNCHANGED fileVars
      \/ /\ to = "renamed" /\ workers["promote"] = "running"
         /\ partFile # Nil /\ Whole(partFile)
         /\ readyFile' = partFile /\ partFile' = Nil /\ published' = FALSE
         /\ UNCHANGED <<handle, residue>>
      \/ /\ to = "ok" /\ workers["promote"] = "renamed" /\ published' = TRUE
         /\ UNCHANGED <<partFile, readyFile, handle, residue>>
      \/ /\ to = "error" /\ workers["promote"] = "renamed"
         /\ readyFile' \in {Nil, readyFile}
         /\ UNCHANGED <<partFile, published, handle, residue>>
  BY <1>1, <1>2 DEF PromoteRuns, PromoteEnds, Ends, fileVars, CustodyInv, CustodyTypes, FileOps
<1>5. CustodyTypes'
  BY <1>1, <1>2, <1>4 DEF CustodyInv, CustodyTypes, fileVars
<1>6. ReadyIsWhole' /\ HeldIsReady'
  BY <1>1, <1>2, <1>3, <1>4
  DEF CustodyInv, ReadyIsWhole, HeldIsReady, StageFits, Whole, fileVars
<1>7. StageFits'
  BY <1>1, <1>2, <1>4 DEF CustodyInv, StageFits, Prepared, Fetches, Waits, fileVars, FileOps
<1>8. PartIsOwned' /\ HandleIsOwned'
  BY <1>1, <1>2, <1>4
  DEF CustodyInv, PartIsOwned, HandleIsOwned, Prepared, Fetches, Waits, fileVars, FileOps
<1> QED BY <1>2, <1>5, <1>6, <1>7, <1>8 DEF CustodyInv

LEMMA RemovalsKeep ==
  ASSUME CustodyInv, AbandonRuns \/ RemoveRuns \/ ReconcileRuns
  PROVE  CustodyInv'
<1>1. PICK op \in {"abandon", "remove", "reconcile"}, to \in {"ok", "error"} :
        /\ Ends(op, to)
        /\ op = "abandon" => AbandonRuns
        /\ op = "remove" => RemoveRuns
        /\ op = "reconcile" => ReconcileRuns
  BY DEF AbandonRuns, RemoveRuns, ReconcileRuns
<1>2. /\ Waits(op) /\ OneThread'
      /\ workers' \in [FileOps -> ThreadStates] /\ workers'[op] = to
      /\ \A x \in FileOps : x # op => workers'[x] = workers[x]
  BY <1>1, ThreadStepKeeps DEF Ends, FileOps, ThreadStates, Unfinished
<1>3. UNCHANGED <<transfer, held, aborts, reboots>> /\ workers[op] = "running"
  BY <1>1 DEF Ends
<1>4. /\ partFile' \in {Nil, partFile} /\ readyFile' \in {Nil, readyFile}
      /\ handle' \in {handle, "closed"} /\ residue' \in BOOLEAN
      /\ published' = published
  BY <1>1 DEF AbandonRuns, RemoveRuns, ReconcileRuns, CustodyInv, CustodyTypes
<1>5. CustodyTypes'
  BY <1>2, <1>3, <1>4 DEF CustodyInv, CustodyTypes
<1>6. op = "abandon" => /\ readyFile' = readyFile
                        /\ transfer.fd => handle' = "closed"
                        /\ partFile' # Nil => residue'
  BY <1>1 DEF AbandonRuns
<1>7. op # "abandon" /\ partFile' # Nil =>
        \/ residue'
        \/ partFile' = partFile /\ residue' = residue
  <2>1. CASE op = "remove"
    BY <1>1, <2>1 DEF RemoveRuns
  <2>2. CASE op = "reconcile"
    BY <1>1, <2>2 DEF ReconcileRuns
  <2> QED BY <2>1, <2>2
<1>8. ReadyIsWhole' /\ HeldIsReady'
  BY <1>2, <1>3, <1>4, <1>6 DEF CustodyInv, ReadyIsWhole, HeldIsReady, Waits
<1>9. StageFits' /\ PartIsOwned'
  BY <1>2, <1>3, <1>4, <1>6, <1>7
  DEF CustodyInv, StageFits, PartIsOwned, Prepared, Fetches, Waits, FileOps
<1>10. HandleIsOwned'
  BY <1>2, <1>3, <1>4, <1>6
  DEF CustodyInv, HandleIsOwned, Prepared, Fetches, Waits, FileOps
<1> QED BY <1>2, <1>5, <1>8, <1>9, <1>10 DEF CustodyInv

\* The caller starts a thread while none is at work.
LEMMA StartsThread ==
  ASSUME CustodyInv, NEW op \in FileOps, NEW t \in Callers, Await(op, t), CallerOnly,
         held' = FALSE \/ UNCHANGED held,
         \A x \in FileOps : ~Unfinished(x),
         held' => op \in {"prepare", "abandon"},
         op \in {"write", "finish", "promote"} => partFile # Nil,
         op = "promote" => partFile.synced,
         op \notin {"write", "finish", "promote", "abandon"} /\ partFile # Nil => residue,
         handle = "open" /\ aborts = 0 =>
           \/ op \in {"write", "abandon"} /\ t.fd
           \/ op = "finish"
  PROVE  CustodyInv'
<1>1. /\ workers' \in [FileOps -> ThreadStates]
      /\ \A x \in FileOps : workers'[x] = IF x = op THEN "queued" ELSE workers[x]
      /\ transfer' \in Callers
      /\ transfer'.at = "waiting" /\ transfer'.op = op /\ transfer'.fd = t.fd
  BY AwaitFacts DEF CustodyInv
<1>2. CustodyTypes'
  BY <1>1 DEF CallerOnly, fileVars, CustodyInv, CustodyTypes
<1>3. OneThread'
  BY <1>1 DEF CustodyInv, OneThread, Unfinished, Waits
<1>4. ReadyIsWhole' /\ HeldIsReady'
  BY <1>1 DEF CallerOnly, fileVars, CustodyInv, ReadyIsWhole, HeldIsReady, Waits
<1>5. StageFits'
  BY <1>1 DEF CallerOnly, fileVars, StageFits, Waits, Fetches, Prepared, FileOps
<1>6. PartIsOwned' /\ HandleIsOwned'
  BY <1>1
  DEF CallerOnly, fileVars, CustodyInv, CustodyTypes, PartIsOwned, HandleIsOwned, Waits,
      Fetches, Prepared, FileOps
<1> QED BY <1>2, <1>3, <1>4, <1>5, <1>6 DEF CustodyInv

\* The caller stops waiting and the executor has its answer.
LEMMA ComesToRest ==
  ASSUME CustodyInv, CallerOnly, UNCHANGED workers,
         NEW at \in {"idle", "boot"}, transfer' \in Callers, transfer'.at = at,
         held' \in BOOLEAN,
         \A x \in FileOps : ~Unfinished(x),
         held' => at = "idle" /\ readyFile # Nil,
         partFile # Nil => residue,
         handle = "open" => aborts # 0
  PROVE  CustodyInv'
<1>1. CustodyTypes'
  BY DEF CallerOnly, fileVars, CustodyInv, CustodyTypes
<1>2. \A x \in FileOps : ~Unfinished(x)'
  BY DEF Unfinished
<1>3. \A x \in FileOps : ~Waits(x)'
  BY DEF Waits
<1> QED BY <1>1, <1>2, <1>3
        DEF CallerOnly, fileVars, CustodyInv, OneThread, ReadyIsWhole, HeldIsReady,
            StageFits, PartIsOwned, HandleIsOwned, Waits, Fetches, Prepared

\* The caller waits for nothing: no thread is at work.
LEMMA NoneAtWork ==
  ASSUME CustodyInv,
         \/ transfer.at # "waiting"
         \/ \E op \in FileOps : Waits(op) /\ MayGoOn(op)
  PROVE  \A x \in FileOps : ~Unfinished(x)
BY DEF CustodyInv, OneThread, Unfinished, Waits, MayGoOn, Ended

LEMMA AtRestFits == AtRest \in Callers /\ AtRest.at = "idle"
BY DEF AtRest, Callers

LEMMA BeginKeeps ==
  ASSUME CustodyInv, BeginReconcile \/ Download \/ Cleanup
  PROVE  CustodyInv'
<1>1. \A x \in FileOps : ~Unfinished(x)
  BY NoneAtWork DEF BeginReconcile, Download, Cleanup
<1>2. /\ partFile # Nil => residue
      /\ handle = "open" => aborts # 0
      /\ transfer.at = "boot" => ~held
  BY DEF BeginReconcile, Download, Cleanup, CustodyInv, PartIsOwned, HandleIsOwned,
         HeldIsReady, Waits, Fetches, Prepared
<1>3. PICK op \in {"reconcile", "prepare", "remove"} :
        /\ Await(op, AtRest) /\ CallerOnly
        /\ op = "prepare" => held' = held
        /\ op = "reconcile" => held' = held /\ transfer.at = "boot"
        /\ op = "remove" => held' = FALSE
  BY DEF BeginReconcile, Download, Cleanup
<1>4. /\ held' = FALSE \/ UNCHANGED held
      /\ held' => op = "prepare"
      /\ op \in FileOps
  BY <1>2, <1>3 DEF FileOps
<1> QED BY <1>1, <1>2, <1>3, <1>4, AtRestFits, StartsThread

LEMMA CancelKeeps ==
  ASSUME CustodyInv, CancelCaller
  PROVE  CustodyInv'
<1>1. transfer \in Callers
  BY DEF CustodyInv, CustodyTypes
<1>2. /\ transfer' \in Callers
      /\ transfer'.at = transfer.at /\ transfer'.op = transfer.op
      /\ transfer'.fd = transfer.fd
  BY <1>1 DEF CancelCaller, Callers
<1>3. CustodyTypes'
  BY <1>2 DEF CancelCaller, CallerOnly, fileVars, CustodyInv, CustodyTypes
<1>4. \A x : Waits(x)' <=> Waits(x)
  BY <1>2 DEF Waits
<1>5. OneThread' /\ ReadyIsWhole' /\ HeldIsReady'
  BY <1>2, <1>4
  DEF CancelCaller, CallerOnly, fileVars, CustodyInv, OneThread, Unfinished, ReadyIsWhole,
      HeldIsReady
<1>6. StageFits' /\ PartIsOwned' /\ HandleIsOwned'
  BY <1>2, <1>4
  DEF CancelCaller, CallerOnly, fileVars, CustodyInv, StageFits, PartIsOwned, HandleIsOwned,
      Prepared, Fetches
<1> QED BY <1>3, <1>5, <1>6 DEF CustodyInv

LEMMA FetchKeeps ==
  ASSUME CustodyInv, FetchFails \/ FetchChunk \/ FetchEnds
  PROVE  CustodyInv'
<1>1. Fetches /\ \A x \in FileOps : ~Unfinished(x)
  BY NoneAtWork DEF FetchFails, FetchChunk, FetchEnds, Fetches
<1>2. /\ partFile # Nil /\ ~held /\ transfer \in Callers
      /\ handle = "open" /\ aborts = 0 => transfer.fd
  BY <1>1
  DEF CustodyInv, CustodyTypes, StageFits, HandleIsOwned, HeldIsReady, Waits, Fetches, Prepared
<1>3. PICK op \in {"write", "finish", "abandon"}, t \in Callers :
        /\ Await(op, t) /\ CallerOnly /\ held' = held
        /\ t.fd = transfer.fd
  <2>1. \A sound \in BOOLEAN : /\ [transfer EXCEPT !.chunk = sound] \in Callers
                               /\ [transfer EXCEPT !.chunk = sound].fd = transfer.fd
    BY <1>2 DEF Callers
  <2>2. CASE FetchChunk
    BY <2>1, <2>2 DEF FetchChunk
  <2> QED BY <1>2, <2>2 DEF FetchFails, FetchEnds
<1>4. op \in FileOps
  BY DEF FileOps
<1> QED BY <1>1, <1>2, <1>3, <1>4, StartsThread

\* A download whose thread ended without its file.
LEMMA EndedFacts ==
  ASSUME CustodyInv, NEW op \in FileOps, GoesOn(op)
  PROVE  /\ Waits(op) /\ \A x \in FileOps : ~Unfinished(x)
         /\ workers[op] \in Ended /\ transfer \in Callers /\ CallerOnly
BY NoneAtWork DEF GoesOn, Waits, MayGoOn, CustodyInv, CustodyTypes

LEMMA AfterPrepareKeeps ==
  ASSUME CustodyInv, AfterPrepare
  PROVE  CustodyInv'
<1>1. /\ Waits("prepare") /\ \A x \in FileOps : ~Unfinished(x)
      /\ workers["prepare"] \in Ended /\ transfer \in Callers /\ CallerOnly
  BY EndedFacts DEF AfterPrepare, FileOps
<1>2. CASE transfer.cancelled /\ CancelledPrepare
  <2> DEFINE t == [transfer EXCEPT !.fd = workers["prepare"] = "ok"]
  <2>1. t \in Callers /\ t.fd = (workers["prepare"] = "ok")
    BY <1>1 DEF Callers
  <2>2. Await("abandon", t) /\ held' = held
    BY <1>2 DEF CancelledPrepare
  <2> HIDE DEF t
  <2>3. handle = "open" /\ aborts = 0 => t.fd
    BY <1>1, <2>1 DEF CustodyInv, HandleIsOwned, Prepared, Fetches, Waits
  <2> QED BY <1>1, <2>1, <2>2, <2>3, StartsThread DEF FileOps
<1>3. CASE /\ workers["prepare"] = "ok"
           /\ transfer' = [transfer EXCEPT !.at = "fetching", !.op = Nil, !.fd = TRUE]
           /\ UNCHANGED <<workers, held>>
  <2>1. /\ transfer' \in Callers /\ transfer'.at = "fetching" /\ transfer'.fd
    BY <1>1, <1>3 DEF Callers
  <2>2. ~held /\ partFile # Nil
    BY <1>1, <1>3 DEF CustodyInv, StageFits, HeldIsReady, Prepared
  <2>3. CustodyTypes'
    BY <1>1, <1>3, <2>1 DEF CallerOnly, fileVars, CustodyInv, CustodyTypes
  <2>4. \A x \in FileOps : ~Waits(x)' /\ ~Unfinished(x)'
    BY <1>1, <1>3, <2>1 DEF Waits, Unfinished
  <2> QED BY <1>1, <1>3, <2>1, <2>2, <2>3, <2>4
          DEF CallerOnly, fileVars, CustodyInv, OneThread, ReadyIsWhole, HeldIsReady,
              StageFits, PartIsOwned, HandleIsOwned, Waits, Fetches, Prepared
<1>4. CASE /\ workers["prepare"] # "ok"
           /\ Rests(workers["prepare"] = "reuse")
           /\ UNCHANGED workers
  <2>1. transfer' \in Callers /\ transfer'.at = "idle"
    BY <1>4, AtRestFits DEF Rests
  <2>2. held' = (workers["prepare"] = "reuse")
    BY <1>4 DEF Rests
  <2>3. /\ partFile # Nil => residue
        /\ handle = "open" => aborts # 0
        /\ workers["prepare"] = "reuse" => readyFile # Nil
    BY <1>1, <1>4
    DEF CustodyInv, PartIsOwned, HandleIsOwned, StageFits, Prepared, Fetches, Waits
  <2>4. held' \in BOOLEAN /\ (held' => readyFile # Nil)
    BY <2>2, <2>3
  <2> QED BY <1>1, <1>4, <2>1, <2>3, <2>4, ComesToRest
<1> QED BY <1>2, <1>3, <1>4 DEF AfterPrepare

LEMMA AfterWriteKeeps ==
  ASSUME CustodyInv, AfterWrite
  PROVE  CustodyInv'
<1>1. /\ Waits("write") /\ \A x \in FileOps : ~Unfinished(x)
      /\ workers["write"] \in Ended /\ transfer \in Callers /\ CallerOnly
  BY EndedFacts DEF AfterWrite, FileOps
<1>2. /\ partFile # Nil /\ ~held /\ held' = held
      /\ handle = "open" /\ aborts = 0 => transfer.fd
  BY <1>1
  DEF AfterWrite, CustodyInv, StageFits, HandleIsOwned, HeldIsReady, Waits, Fetches, Prepared
<1>3. CASE Succeeded("write")
  <2> DEFINE t == [transfer EXCEPT !.at = "fetching", !.op = Nil, !.got = @ + 1,
                                   !.sound = @ /\ transfer.chunk]
  <2>1. transfer.got + 1 \in Nat /\ (transfer.sound /\ transfer.chunk) \in BOOLEAN
    BY <1>1 DEF Callers
  <2>2. t \in Callers /\ t.at = "fetching" /\ t.fd = transfer.fd
    BY <1>1, <2>1 DEF Callers
  <2>3. transfer' = t /\ UNCHANGED workers
    BY <1>3 DEF AfterWrite
  <2> HIDE DEF t
  <2>4. CustodyTypes'
    BY <1>1, <1>2, <2>2, <2>3 DEF CallerOnly, fileVars, CustodyInv, CustodyTypes
  <2>5. \A x \in FileOps : ~Waits(x)' /\ ~Unfinished(x)'
    BY <1>1, <2>2, <2>3 DEF Waits, Unfinished
  <2> QED BY <1>1, <1>2, <2>2, <2>3, <2>4, <2>5
          DEF CallerOnly, fileVars, CustodyInv, OneThread, ReadyIsWhole, HeldIsReady,
              StageFits, PartIsOwned, HandleIsOwned, Waits, Fetches, Prepared
<1>4. CASE ~Succeeded("write")
  <2>1. Await("abandon", transfer)
    BY <1>4 DEF AfterWrite
  <2> QED BY <1>1, <1>2, <2>1, StartsThread DEF FileOps
<1> QED BY <1>3, <1>4

LEMMA AfterFinishKeeps ==
  ASSUME CustodyInv, AfterFinish
  PROVE  CustodyInv'
<1>1. /\ Waits("finish") /\ \A x \in FileOps : ~Unfinished(x)
      /\ workers["finish"] \in Ended /\ transfer \in Callers /\ CallerOnly
  BY EndedFacts DEF AfterFinish, FileOps
<1>2. /\ partFile # Nil /\ ~held /\ held' = held
      /\ handle = "open" => aborts # 0
  BY <1>1
  DEF AfterFinish, CustodyInv, StageFits, HandleIsOwned, HeldIsReady, Waits, Fetches,
      Prepared, Ended
<1> DEFINE t == [transfer EXCEPT !.fd = FALSE]
           op == IF Succeeded("finish") THEN "promote" ELSE "abandon"
<1>3. t \in Callers
  BY <1>1 DEF Callers
<1>4. Await(op, t)
  BY DEF AfterFinish
<1>5. op = "promote" => partFile.synced
  <2>1. partFile \in Files
    BY <1>2 DEF CustodyInv, CustodyTypes
  <2>2. workers["finish"] = "ok" => partFile.synced
    BY <1>1 DEF CustodyInv, StageFits
  <2>3. Succeeded("finish") => workers["finish"] = "ok"
    BY DEF Succeeded, CustodyInv, OneThread, FileOps
  <2> QED BY <2>2, <2>3
<1>6. op \in {"promote", "abandon"} /\ op \in FileOps
  BY DEF FileOps
<1> HIDE DEF t, op
<1> QED BY <1>1, <1>2, <1>3, <1>4, <1>5, <1>6, StartsThread

LEMMA AfterPromoteKeeps ==
  ASSUME CustodyInv, AfterPromote
  PROVE  CustodyInv'
<1>1. /\ Waits("promote") /\ \A x \in FileOps : ~Unfinished(x)
      /\ workers["promote"] \in Ended /\ transfer \in Callers /\ CallerOnly
  BY EndedFacts DEF AfterPromote, FileOps
<1>2. ~held /\ (handle = "open" => aborts # 0)
  BY <1>1 DEF CustodyInv, HandleIsOwned, HeldIsReady, Waits, Fetches, Prepared
<1>3. CASE Succeeded("promote")
  <2>1. readyFile # Nil /\ partFile = Nil
    BY <1>1, <1>3 DEF Succeeded, CustodyInv, OneThread, StageFits, FileOps
  <2>2. /\ transfer' \in Callers /\ transfer'.at = "idle"
        /\ held' = TRUE /\ UNCHANGED workers
    BY <1>3, AtRestFits DEF AfterPromote, Rests
  <2> QED BY <1>1, <1>2, <2>1, <2>2, ComesToRest
<1>4. CASE ~Succeeded("promote")
  <2>1. Await("abandon", transfer) /\ held' = held
    BY <1>4 DEF AfterPromote
  <2> QED BY <1>1, <1>2, <2>1, StartsThread DEF FileOps
<1> QED BY <1>3, <1>4

LEMMA AfterAbandonKeeps ==
  ASSUME CustodyInv, AfterAbandon
  PROVE  CustodyInv'
<1>1. /\ Waits("abandon") /\ \A x \in FileOps : ~Unfinished(x)
      /\ workers["abandon"] \in Ended /\ transfer \in Callers /\ CallerOnly
  BY EndedFacts DEF AfterAbandon, FileOps
<1>2. handle = "open" => aborts # 0
  BY <1>1 DEF CustodyInv, HandleIsOwned, Waits, Fetches, Prepared, Ended
<1>3. CASE workers["abandon"] = "aborted"
  <2>1. Await("abandon", transfer) /\ held' = held
    BY <1>3 DEF AfterAbandon
  <2> QED BY <1>1, <1>2, <2>1, StartsThread DEF FileOps, CustodyInv, CustodyTypes
<1>4. CASE workers["abandon"] # "aborted"
  <2>1. partFile # Nil => residue
    BY <1>1, <1>4 DEF CustodyInv, PartIsOwned, Waits, Fetches, Prepared, Ended
  <2>2. /\ transfer' \in Callers /\ transfer'.at = "idle"
        /\ held' = FALSE /\ UNCHANGED workers
    BY <1>4, AtRestFits DEF AfterAbandon, Rests
  <2> QED BY <1>1, <1>2, <2>1, <2>2, ComesToRest
<1> QED BY <1>3, <1>4

LEMMA AfterRemovalKeeps ==
  ASSUME CustodyInv, AfterRemove \/ AfterReconcile
  PROVE  CustodyInv'
<1>1. PICK op \in {"remove", "reconcile"} :
        /\ GoesOn(op) /\ UNCHANGED workers
        /\ op = "remove" => Rests(FALSE)
        /\ op = "reconcile" => AfterReconcile
  BY DEF AfterRemove, AfterReconcile
<1>2. Waits(op) /\ CallerOnly /\ \A x \in FileOps : ~Unfinished(x)
  BY <1>1, EndedFacts DEF FileOps
<1>3. /\ partFile # Nil => residue
      /\ handle = "open" => aborts # 0
      /\ ~held
  BY <1>2 DEF CustodyInv, PartIsOwned, HandleIsOwned, HeldIsReady, Waits, Fetches, Prepared
<1>4. \A at \in {"idle", "boot"} :
        [AtRest EXCEPT !.at = at] \in Callers /\ [AtRest EXCEPT !.at = at].at = at
  BY DEF AtRest, Callers
<1>5. PICK at \in {"idle", "boot"} : transfer' \in Callers /\ transfer'.at = at
  BY <1>1, <1>4, AtRestFits DEF AfterReconcile, Rests
<1>6. held' = FALSE
  BY <1>1, <1>3 DEF AfterReconcile, Rests, CustodyInv, CustodyTypes
<1> QED BY <1>1, <1>2, <1>3, <1>5, <1>6, ComesToRest

LEMMA SurvivingFits ==
  ASSUME NEW file \in Files \cup {Nil}, NEW left \in Surviving(file)
  PROVE  /\ left \in Files \cup {Nil}
         /\ file # Nil /\ file.synced => left = file
         /\ file = Nil => left = Nil
<1>1. CASE file = Nil
  BY <1>1 DEF Surviving
<1>2. CASE file # Nil /\ file.synced
  BY <1>2 DEF Surviving
<1>3. CASE file # Nil /\ ~file.synced
  <2>1. left \in [size : 0..file.size, sound : {file.sound, FALSE}, synced : {FALSE}]
    BY <1>3 DEF Surviving
  <2>2. 0..file.size \subseteq Nat /\ {file.sound, FALSE} \subseteq BOOLEAN
    BY <1>3 DEF Files
  <2> QED BY <1>3, <2>1, <2>2 DEF Files
<1> QED BY <1>1, <1>2, <1>3

LEMMA RebootKeeps ==
  ASSUME CustodyInv, Reboot
  PROVE  CustodyInv'
<1>1. /\ partFile' \in Files \cup {Nil}
      /\ readyFile' \in {Nil, readyFile}
  BY SurvivingFits DEF Reboot, CustodyInv, CustodyTypes, ReadyIsWhole
<1>2. /\ transfer' \in Callers /\ transfer'.at = "boot"
  BY DEF Reboot, AtRest, Callers
<1>3. \A x \in FileOps : ~Waits(x)' /\ ~Unfinished(x)' /\ workers'[x] = "none"
  BY <1>2 DEF Reboot, Waits, Unfinished
<1>4. workers' \in [FileOps -> ThreadStates]
  BY DEF Reboot, ThreadStates
<1>5. residue' \in BOOLEAN /\ (partFile' # Nil => residue')
  BY DEF Reboot
<1>6. /\ published' = TRUE /\ handle' = "closed" /\ held' = FALSE
      /\ aborts' = aborts /\ reboots' = reboots + 1
  BY DEF Reboot
<1>7. CustodyTypes'
  <2>1. readyFile' \in Files \cup {Nil} /\ reboots' \in Nat /\ aborts' \in Nat
    BY <1>1, <1>6 DEF CustodyInv, CustodyTypes
  <2> QED BY <1>1, <1>2, <1>4, <1>5, <1>6, <2>1 DEF CustodyTypes
<1> QED BY <1>1, <1>2, <1>3, <1>5, <1>6, <1>7
        DEF CustodyInv, OneThread, ReadyIsWhole, HeldIsReady, StageFits, PartIsOwned,
            HandleIsOwned, Waits, Fetches, Prepared

LEMMA CustodyStepKeeps == CustodyInv /\ [CustodyNext]_custodyVars => CustodyInv'
<1> SUFFICES ASSUME CustodyInv, [CustodyNext]_custodyVars PROVE CustodyInv'
  OBVIOUS
<1>1. CASE UNCHANGED custodyVars
  BY <1>1
  DEF custodyVars, CustodyInv, CustodyTypes, OneThread, ReadyIsWhole, HeldIsReady,
      StageFits, PartIsOwned, HandleIsOwned, Unfinished, Waits, Fetches, Prepared
<1>2. CASE \E op \in FileOps : WorkerStarts(op) \/ WorkerAborted(op)
  BY <1>2, StartsKeeps
<1>3. CASE WorkerRuns
  BY <1>3, PrepareKeeps, WriteKeeps, FinishKeeps, PromoteKeeps, RemovalsKeep DEF WorkerRuns
<1>4. CASE TakesTurn
  BY <1>4, AfterPrepareKeeps, AfterWriteKeeps, AfterFinishKeeps, AfterPromoteKeeps,
     AfterAbandonKeeps, AfterRemovalKeeps DEF TakesTurn
<1>5. CASE \/ BeginReconcile \/ Download \/ Cleanup \/ CancelCaller
           \/ FetchFails \/ FetchChunk \/ FetchEnds \/ Reboot
  BY <1>5, BeginKeeps, CancelKeeps, FetchKeeps, RebootKeeps
<1> QED BY <1>1, <1>2, <1>3, <1>4, <1>5 DEF CustodyNext

LEMMA CustodyIsKept == CustodySpec => []CustodyInv
BY CustodyInitHolds, CustodyStepKeeps, PTL DEF CustodySpec

\* The published APK is the release, byte for byte, and it is there for whoever
\* was given it, whatever was cancelled, failed or stopped (_promote_partial and
\* async_download_install_artifact in install_artifacts.py).
THEOREM ReadyArtifactIsTheRelease == CustodySpec => []ReadyIsTheRelease
<1>1. CustodyInv => ReadyIsTheRelease
  BY DEF CustodyInv, ReadyIsWhole, HeldIsReady, ReadyIsTheRelease
<1> QED BY <1>1, CustodyIsKept, PTL

\* A download that has ended leaves no partial file and no open descriptor, but
\* where a removal failed or a future was cancelled (_async_cleanup_executor in
\* install_artifacts.py).
THEOREM EndedDownloadLeavesNothing == CustodySpec => []EndedLeavesNothing
<1>1. CustodyInv => EndedLeavesNothing
  BY DEF CustodyInv, CustodyTypes, PartIsOwned, HandleIsOwned, EndedLeavesNothing, Waits,
         Fetches, Prepared
<1> QED BY <1>1, CustodyIsKept, PTL

-----------------------------------------------------------------------------
(***************************************************************************)
(* The two files of the receipts.  What a reader joins is a document again *)
(* when every failed receipt has a detail and no detail of another stage   *)
(* is bound to it.                                                         *)
(***************************************************************************)

Failing == {"failed", "recovery_required"}

\* A receipt has a stage when it failed, and only then.
Staged(r) == r.failure_stage # None <=> r.phase \in Failing
AllStaged(doc) == \A j \in Jobs : doc[j] # NoReceipt => Staged(doc[j])

\* Where both documents have a receipt, they have the same, or another revision.
Apart(d, doc) ==
  \A j \in Jobs : d[j] # NoReceipt /\ doc[j] # NoReceipt =>
    \/ doc[j] = d[j]
    \/ doc[j].revision # d[j].revision

LEMMA RecordFacts ==
  ASSUME NEW r \in InstallJobReceipt
  PROVE  /\ Record(r) \in InstallJobReceipt /\ Record(r) # NoReceipt
         /\ r # NoReceipt
         /\ Record(r).failure_stage = None
         /\ Record(r).revision = r.revision /\ Record(r).phase = r.phase
         /\ \A s \in InstallPhase \cup {None} :
              [Record(r) EXCEPT !.failure_stage = s] = [r EXCEPT !.failure_stage = s]
<1>0. r # NoReceipt
  BY StoreAssumption
<1>1. Record(r) = [r EXCEPT !.failure_stage = None]
  BY <1>0 DEF Record
<1>2. Record(r) \in InstallJobReceipt
  BY <1>1 DEF InstallJobReceipt
<1>3. Record(r) # NoReceipt
  BY <1>2, StoreAssumption
<1> QED BY <1>0, <1>1, <1>2, <1>3 DEF InstallJobReceipt

\* A file of records whose details are the right ones reads as the document.
LEMMA JoinedIs ==
  ASSUME NEW doc \in Docs, NEW ds,
         \A j \in Jobs : doc[j] # NoReceipt /\ doc[j].failure_stage # None =>
           \E x \in ds : x.job = j /\ x.record = Record(doc[j]),
         \A x \in ds, j \in Jobs :
           doc[j] # NoReceipt /\ x.job = j /\ x.record = Record(doc[j])
             => x.failure_stage = doc[j].failure_stage
  PROVE  Joined(Records(doc), ds) = doc
<1> DEFINE own(j) == {x \in ds : x.job = j /\ Records(doc)[j] # NoReceipt
                                   /\ Bound(x, Records(doc)[j])}
<1>1. ASSUME NEW j \in Jobs
      PROVE  Joined(Records(doc), ds)[j] = doc[j]
  <2>0. Records(doc)[j] = Record(doc[j])
    BY DEF Records
  <2>1. Joined(Records(doc), ds)[j] =
          IF own(j) = {} THEN Records(doc)[j]
          ELSE [Records(doc)[j] EXCEPT
                  !.failure_stage = (CHOOSE x \in own(j) : TRUE).failure_stage]
    BY DEF Joined
  <2>2. CASE doc[j] = NoReceipt
    <3>1. Records(doc)[j] = NoReceipt
      BY <2>0, <2>2 DEF Record
    <3>2. own(j) = {}
      BY <3>1
    <3> QED BY <2>1, <2>2, <3>1, <3>2
  <2>3. CASE doc[j] # NoReceipt
    <3>1. doc[j] \in InstallJobReceipt
      BY <2>3 DEF Docs
    <3>2. /\ Record(doc[j]) # NoReceipt
          /\ [Record(doc[j]) EXCEPT !.failure_stage = doc[j].failure_stage] = doc[j]
          /\ doc[j].failure_stage = None => Record(doc[j]) = doc[j]
      BY <3>1, RecordFacts DEF InstallJobReceipt, Record
    <3>3. own(j) = {x \in ds : x.job = j /\ x.record = Record(doc[j])}
      BY <2>0, <3>2 DEF Bound
    <3>4. \A x \in own(j) : x.failure_stage = doc[j].failure_stage
      BY <2>3, <3>3
    <3> HIDE DEF own
    <3>5. CASE own(j) = {}
      <4>1. doc[j].failure_stage = None
        BY <2>3, <3>3, <3>5
      <4> QED BY <2>0, <2>1, <3>2, <3>5, <4>1
    <3>6. CASE own(j) # {}
      <4>1. (CHOOSE x \in own(j) : TRUE) \in own(j)
        BY <3>6
      <4> QED BY <2>0, <2>1, <3>2, <3>4, <3>6, <4>1
    <3> QED BY <3>5, <3>6
  <2> QED BY <2>2, <2>3
<1>2. Joined(Records(doc), ds) = [j \in Jobs |-> Joined(Records(doc), ds)[j]]
  BY DEF Joined
<1>3. doc = [j \in Jobs |-> doc[j]]
  BY DEF Docs
<1> QED BY <1>1, <1>2, <1>3

LEMMA DetailsFacts ==
  ASSUME NEW doc \in Docs
  PROVE  /\ \A x \in DetailsOf(doc) :
              /\ x.job \in Jobs /\ doc[x.job] # NoReceipt
              /\ x.record = Record(doc[x.job])
              /\ x.failure_stage = doc[x.job].failure_stage
              /\ x.failure_stage # None
         /\ \A j \in Jobs : doc[j] # NoReceipt /\ doc[j].failure_stage # None =>
              \E x \in DetailsOf(doc) : x.job = j /\ x.record = Record(doc[j])
<1>1. ASSUME NEW x \in DetailsOf(doc)
      PROVE  /\ x.job \in Jobs /\ doc[x.job] # NoReceipt
             /\ x.record = Record(doc[x.job])
             /\ x.failure_stage = doc[x.job].failure_stage
             /\ x.failure_stage # None
  BY DEF DetailsOf
<1>2. ASSUME NEW j \in Jobs, doc[j] # NoReceipt, doc[j].failure_stage # None
      PROVE  \E x \in DetailsOf(doc) : x.job = j /\ x.record = Record(doc[j])
  <2> DEFINE x == [job |-> j, record |-> Record(doc[j]),
                   failure_stage |-> doc[j].failure_stage]
  <2>1. x \in DetailsOf(doc)
    BY <1>2 DEF DetailsOf
  <2>2. x.job = j /\ x.record = Record(doc[j])
    OBVIOUS
  <2> HIDE DEF x
  <2> QED BY <2>1, <2>2
<1> QED BY <1>1, <1>2

\* The details of a document, alone or with those of one that is apart from it.
LEMMA OwnDetails ==
  ASSUME NEW doc \in Docs
  PROVE  Joined(Records(doc), DetailsOf(doc)) = doc
BY DetailsFacts, JoinedIs

LEMMA BothDetails ==
  ASSUME NEW d \in Docs, NEW doc \in Docs, Apart(d, doc)
  PROVE  /\ Joined(Records(d), DetailsOf(d) \cup DetailsOf(doc)) = d
         /\ Joined(Records(doc), DetailsOf(d) \cup DetailsOf(doc)) = doc
<1> DEFINE both == DetailsOf(d) \cup DetailsOf(doc)
<1>1. ASSUME NEW j \in Jobs, d[j] # NoReceipt, doc[j] # NoReceipt,
             Record(doc[j]) = Record(d[j])
      PROVE  doc[j] = d[j]
  <2>1. d[j] \in InstallJobReceipt /\ doc[j] \in InstallJobReceipt
    BY <1>1 DEF Docs
  <2>2. Record(doc[j]).revision = doc[j].revision /\ Record(d[j]).revision = d[j].revision
    BY <2>1, RecordFacts
  <2> QED BY <1>1, <2>2 DEF Apart
<1>2. \A x \in both : \/ /\ x.job \in Jobs /\ d[x.job] # NoReceipt
                         /\ x.record = Record(d[x.job])
                         /\ x.failure_stage = d[x.job].failure_stage
                      \/ /\ x.job \in Jobs /\ doc[x.job] # NoReceipt
                         /\ x.record = Record(doc[x.job])
                         /\ x.failure_stage = doc[x.job].failure_stage
  BY DetailsFacts
<1>3. /\ \A j \in Jobs : d[j] # NoReceipt /\ d[j].failure_stage # None =>
           \E x \in both : x.job = j /\ x.record = Record(d[j])
      /\ \A j \in Jobs : doc[j] # NoReceipt /\ doc[j].failure_stage # None =>
           \E x \in both : x.job = j /\ x.record = Record(doc[j])
  BY DetailsFacts
<1> HIDE DEF both
<1>4. \A x \in both, j \in Jobs :
        d[j] # NoReceipt /\ x.job = j /\ x.record = Record(d[j])
          => x.failure_stage = d[j].failure_stage
  BY <1>1, <1>2
<1>5. \A x \in both, j \in Jobs :
        doc[j] # NoReceipt /\ x.job = j /\ x.record = Record(doc[j])
          => x.failure_stage = doc[j].failure_stage
  BY <1>1, <1>2
<1>6. Joined(Records(d), both) = d
  BY <1>3, <1>4, JoinedIs
<1>7. Joined(Records(doc), both) = doc
  BY <1>3, <1>5, JoinedIs
<1> QED BY <1>6, <1>7 DEF both

\* A document without failed receipts reads as itself beside any details.
LEMMA StrangeDetails ==
  ASSUME NEW doc \in Docs, AllStaged(doc), DetailsOf(doc) = {}, NEW ds,
         \A x \in ds : x.record.phase \in Failing
  PROVE  Joined(Records(doc), ds) = doc
<1>1. \A j \in Jobs : doc[j] # NoReceipt => doc[j].failure_stage = None
  BY DetailsFacts
<1>2. ASSUME NEW x \in ds, NEW j \in Jobs, doc[j] # NoReceipt, x.record = Record(doc[j])
      PROVE  FALSE
  <2>1. doc[j] \in InstallJobReceipt
    BY <1>2 DEF Docs
  <2>2. doc[j].phase \in Failing
    BY <1>2, <2>1, RecordFacts
  <2> QED BY <1>1, <1>2, <2>2 DEF AllStaged, Staged
<1> QED BY <1>1, <1>2, JoinedIs
-----------------------------------------------------------------------------
(***************************************************************************)
(* What an operation writes for one receipt.                               *)
(***************************************************************************)

LEMMA ApprovedStaged ==
  ASSUME NEW plan \in Plans
  PROVE  LET n == Promise!ApprovedReceipt(plan)
         IN  n \in InstallJobReceipt /\ Staged(n)
<1> DEFINE n == Promise!ApprovedReceipt(plan)
<1>1. n \in InstallJobReceipt
  BY DEF Promise!ApprovedReceipt, InstallJobReceipt, InstallPhase
<1>2. n.failure_stage = None /\ n.phase = "approved"
  BY DEF Promise!ApprovedReceipt
<1> QED BY <1>1, <1>2 DEF Staged, Failing

LEMMA CancelRequestedStaged ==
  ASSUME NEW r \in InstallJobReceipt, Staged(r)
  PROVE  LET n == Promise!CancelRequested(r)
         IN  n \in InstallJobReceipt /\ Staged(n) /\ n.revision = r.revision + 1
<1> DEFINE n == Promise!CancelRequested(r)
<1>1. r.revision + 1 \in Nat
  BY DEF InstallJobReceipt
<1>2. /\ n \in InstallJobReceipt /\ n.revision = r.revision + 1
      /\ n.failure_stage = r.failure_stage /\ n.phase = r.phase
  BY <1>1 DEF Promise!CancelRequested, InstallJobReceipt
<1> QED BY <1>2 DEF Staged

\* A claim takes the receipt on in its phase, or quarantines it with its stage.
LEMMA ClaimedStaged ==
  ASSUME NEW r \in InstallJobReceipt, Staged(r), Promise!Claimable(r)
  PROVE  LET n == Promise!Claimed(r)
         IN  n \in InstallJobReceipt /\ Staged(n) /\ n.revision = r.revision + 1
<1> DEFINE q == [r EXCEPT !.revision = @ + 1, !.phase = "recovery_required",
                          !.result_code = "verification_required",
                          !.failure_stage = r.phase]
           i == [q EXCEPT !.executor_generation = @ + 1, !.attempt = @ + 1]
           t == [r EXCEPT !.revision = @ + 1, !.executor_generation = @ + 1,
                          !.attempt = @ + 1]
<1>1. /\ r.revision + 1 \in Nat
      /\ r.executor_generation + 1 \in Nat
      /\ r.attempt + 1 \in Nat
      /\ r.phase \in InstallPhase /\ r.phase # None
      /\ "recovery_required" \in InstallPhase
      /\ "verification_required" \in InstallResultCode \cup {None}
  BY ReceiptAssumption DEF InstallJobReceipt, InstallPhase, InstallResultCode, RecoveryCodes
<1>2. /\ q \in InstallJobReceipt /\ q.revision = r.revision + 1
      /\ q.failure_stage = r.phase /\ q.phase = "recovery_required"
  BY <1>1 DEF InstallJobReceipt
<1>3. /\ t \in InstallJobReceipt /\ t.revision = r.revision + 1
      /\ t.failure_stage = r.failure_stage /\ t.phase = r.phase
  BY <1>1 DEF InstallJobReceipt
<1>4. Promise!Claimed(r) \in {q, i, t}
  BY DEF Promise!Claimed
<1>5. q.executor_generation = r.executor_generation /\ q.attempt = r.attempt
  BY DEF InstallJobReceipt
<1> HIDE DEF q
<1>6. /\ i \in InstallJobReceipt /\ i.revision = q.revision
      /\ i.failure_stage = q.failure_stage /\ i.phase = q.phase
  BY <1>1, <1>2, <1>5 DEF InstallJobReceipt
<1> HIDE DEF i, t
<1>7. Staged(q) /\ Staged(i) /\ Staged(t)
  BY <1>1, <1>2, <1>3, <1>6 DEF Staged, Failing
<1> QED BY <1>2, <1>3, <1>4, <1>6, <1>7

LEMMA NextPhaseFacts ==
  ASSUME NEW r \in InstallJobReceipt, NEW to \in Promise!NextPhase(r.phase)
  PROVE  /\ to \in InstallPhase
         /\ r.phase \notin Promise!TerminalPhases
         /\ r.phase = "healthy_unclaimed" => to \in {"consumed", "recovery_required"}
<1>1. r.phase \notin Promise!TerminalPhases
  BY DEF Promise!NextPhase
<1>2. r.phase \in Promise!ActivePhases
  BY <1>1 DEF Promise!ActivePhases, InstallJobReceipt, InstallPhase, Promise!InstallPhase
<1>3. /\ Promise!Step[r.phase] \in SUBSET InstallPhase
      /\ r.phase = "healthy_unclaimed" => Promise!Step[r.phase] = {"consumed"}
  BY <1>2 DEF Promise!Step, Promise!ActivePhases, Promise!InstallPhase, InstallPhase,
              Promise!TerminalPhases
<1> QED BY <1>1, <1>3 DEF Promise!NextPhase, InstallPhase, Promise!CancellablePhases

\* A transition to a failure records the phase it left, any other none.
LEMMA TransitionedStaged ==
  ASSUME NEW r \in InstallJobReceipt,
         NEW to \in Promise!NextPhase(r.phase),
         NEW code \in InstallResultCode \cup {None}, NEW entry \in Entries \cup {None}
  PROVE  LET n == Promise!Transitioned(r, to, code, entry)
         IN  /\ n \in InstallJobReceipt /\ Staged(n) /\ n.revision = r.revision + 1
             /\ n.phase = to /\ n.executor_generation = r.executor_generation
<1> DEFINE n == Promise!Transitioned(r, to, code, entry)
           root == r.preflight_root_mode \/ Promise!LearnsRootMode(r, to)
           bytes == r.actual_apk_bytes \/ Promise!LearnsApkBytes(r, to)
           health == IF to = "healthy_unclaimed" THEN TRUE
                     ELSE IF r.phase = "healthy_unclaimed" /\ to = "recovery_required"
                          THEN FALSE ELSE r.health_checked_at
           stage == IF to \in {"failed", "recovery_required"} THEN r.phase ELSE None
<1>1. root \in BOOLEAN /\ bytes \in BOOLEAN
  OBVIOUS
<1>2. health \in BOOLEAN
  BY DEF InstallJobReceipt
<1>3. /\ stage \in InstallPhase \cup {None}
      /\ stage # None <=> to \in Failing
  BY ReceiptAssumption DEF InstallJobReceipt, Failing
<1>4. r.revision + 1 \in Nat /\ to \in InstallPhase
  BY NextPhaseFacts DEF InstallJobReceipt
<1> DEFINE phased == [r EXCEPT !.revision = r.revision + 1, !.phase = to]
           learned == [phased EXCEPT !.preflight_root_mode = root,
                                     !.actual_apk_bytes = bytes]
           checked == [learned EXCEPT !.health_checked_at = health, !.result_code = code]
<1>5. n = [checked EXCEPT !.failure_stage = stage, !.consumed_entry_id = entry]
  BY DEF Promise!Transitioned
<1> HIDE DEF root, bytes, health, stage, n
<1>6. /\ phased \in InstallJobReceipt /\ phased.revision = r.revision + 1
      /\ phased.phase = to /\ phased.executor_generation = r.executor_generation
  BY <1>4 DEF InstallJobReceipt
<1> HIDE DEF phased
<1>7. /\ learned \in InstallJobReceipt /\ learned.revision = phased.revision
      /\ learned.phase = to /\ learned.executor_generation = r.executor_generation
  BY <1>1, <1>6 DEF InstallJobReceipt
<1> HIDE DEF learned
<1>8. /\ checked \in InstallJobReceipt /\ checked.revision = phased.revision
      /\ checked.phase = to /\ checked.executor_generation = r.executor_generation
  BY <1>2, <1>7 DEF InstallJobReceipt
<1> HIDE DEF checked
<1>9. /\ n \in InstallJobReceipt /\ n.revision = phased.revision
      /\ n.phase = to /\ n.executor_generation = r.executor_generation
      /\ n.failure_stage = stage
  BY <1>3, <1>5, <1>8 DEF InstallJobReceipt
<1>10. Staged(n)
  BY <1>3, <1>9 DEF Staged
<1> QED BY <1>6, <1>9, <1>10 DEF n
-----------------------------------------------------------------------------
(***************************************************************************)
(* What an operation offers to write: from document d, claims c and drawn  *)
(* ids i it makes doc, claims and ids.                                     *)
(***************************************************************************)

OffersCreate(d, c, i, doc, claims, ids) ==
  \E plan \in Plans, j \in Jobs \ i :
    \E D \in Promise!Prunes(d, j) :
      /\ Promise!PanelFree(d, plan) /\ Promise!HasRoom(d)
      /\ doc = [Promise!Without(d, D) EXCEPT ![j] = Promise!ApprovedReceipt(plan)]
      /\ claims = Promise!Reconciled(c, d) /\ ids = i \cup {j}

OffersCancel(d, c, i, doc, claims, ids) ==
  \E j \in Jobs :
    /\ d[j] # NoReceipt /\ d[j].phase \in Promise!CancellablePhases
    /\ ~d[j].cancel_requested
    /\ doc = [d EXCEPT ![j] = Promise!CancelRequested(d[j])]
    /\ claims = Promise!Reconciled(c, d) /\ ids = i

OffersClaim(d, c, i, doc, claims, ids) ==
  \E j \in Jobs, cleaned \in BOOLEAN :
    LET new == [d EXCEPT ![j] = Promise!Claimed(d[j])]
    IN  /\ Promise!Claimable(d[j])
        /\ c[j] # d[j].executor_generation
        /\ Promise!ClaimTerminalizes(d[j]) => cleaned
        /\ \E D \in Promise!Prunes(new, j) : doc = Promise!Without(new, D)
        /\ claims = Promise!Reconciled(
                      [c EXCEPT ![j] = new[j].executor_generation], new)
        /\ ids = i

OffersTransition(d, c, i, doc, claims, ids) ==
  \E j \in {k \in Jobs : d[k] # NoReceipt} :
    \E to \in Promise!NextPhase(d[j].phase),
       code \in Promise!InstallResultCode \cup {None}, entry \in Entries \cup {None} :
      LET new == [d EXCEPT ![j] = Promise!Transitioned(d[j], to, code, entry)]
      IN  /\ Promise!MayTransition(d[j], to, code, entry)
          /\ \/ c[j] = d[j].executor_generation
             \/ /\ d[j].phase = "healthy_unclaimed"
                /\ to \in {"consumed", "recovery_required"}
          /\ \E D \in Promise!Prunes(new, j) : doc = Promise!Without(new, D)
          /\ claims = Promise!Reconciled(c, new) /\ ids = i

Offers(d, c, i, doc, claims, ids) ==
  \/ OffersCreate(d, c, i, doc, claims, ids)
  \/ OffersCancel(d, c, i, doc, claims, ids)
  \/ OffersClaim(d, c, i, doc, claims, ids)
  \/ OffersTransition(d, c, i, doc, claims, ids)

LEMMA CodesAgree == Promise!InstallResultCode = InstallResultCode
BY DEF InstallResultCode, Promise!InstallResultCode, FailureCodes, Promise!FailureCodes,
       RecoveryCodes, Promise!RecoveryCodes, CancelCodes, Promise!CancelCodes

\* An operation reads the document and begins to save what it offers.
LEMMA OperateOffers ==
  ASSUME Operate
  PROVE  /\ save = Idle /\ Promise!ReadAgrees
         /\ \E doc, claims, ids :
              Offers(Disk, claimed, issued, doc, claims, ids) /\ Begin(doc, claims, ids)
<1>1. save = Idle
  BY DEF Operate
<1>2. CASE \E plan \in Plans : Promise!Creating(plan, Begin)
  <2>1. PICK plan \in Plans : Promise!Creating(plan, Begin)
    BY <1>2
  <2>2. Promise!ReadAgrees /\ Promise!PanelFree(Disk, plan) /\ Promise!HasRoom(Disk)
    BY <2>1 DEF Promise!Creating
  <2>3. PICK j \in Jobs \ issued : \E D \in Promise!Prunes(Disk, j) :
          Begin([Promise!Without(Disk, D) EXCEPT ![j] = Promise!ApprovedReceipt(plan)],
                Promise!Reconciled(claimed, Disk), issued \cup {j})
    BY <1>1, <2>1 DEF Promise!Creating, Written
  <2> QED BY <1>1, <2>2, <2>3 DEF Offers, OffersCreate
<1>3. CASE \E j \in Jobs : Promise!Cancelling(j, Begin)
  <2>1. PICK j \in Jobs : Promise!Cancelling(j, Begin)
    BY <1>3
  <2>2. /\ Promise!ReadAgrees
        /\ Disk[j] # NoReceipt /\ Disk[j].phase \in Promise!CancellablePhases
        /\ ~Disk[j].cancel_requested
        /\ Begin([Disk EXCEPT ![j] = Promise!CancelRequested(Disk[j])],
                 Promise!Reconciled(claimed, Disk), issued)
    BY <1>1, <2>1 DEF Promise!Cancelling, Written
  <2> QED BY <1>1, <2>2 DEF Offers, OffersCancel
<1>4. CASE \E j \in Jobs, cleaned \in BOOLEAN : Promise!Claiming(j, cleaned, Begin)
  <2>1. PICK j \in Jobs, cleaned \in BOOLEAN : Promise!Claiming(j, cleaned, Begin)
    BY <1>4
  <2> DEFINE new == [Disk EXCEPT ![j] = Promise!Claimed(Disk[j])]
  <2>2. /\ Promise!ReadAgrees
        /\ Promise!Claimable(Disk[j]) /\ claimed[j] # Disk[j].executor_generation
        /\ Promise!ClaimTerminalizes(Disk[j]) => cleaned
    BY <1>1, <2>1 DEF Promise!Claiming, Promise!Holds, Written
  <2>3. PICK D \in Promise!Prunes(new, j) :
          Begin(Promise!Without(new, D),
                Promise!Reconciled([claimed EXCEPT ![j] = new[j].executor_generation], new),
                issued)
    BY <1>1, <2>1 DEF Promise!Claiming, Written
  <2> QED BY <1>1, <2>2, <2>3 DEF Offers, OffersClaim
<1>5. CASE \E j \in {k \in Jobs : Disk[k] # NoReceipt} :
             \E to \in NextPhase(Disk[j].phase),
                code \in InstallResultCode \cup {None}, entry \in Entries \cup {None} :
               Promise!Transitioning(j, to, code, entry, Begin)
  <2>1. PICK j \in Jobs : /\ Disk[j] # NoReceipt
                          /\ \E to \in NextPhase(Disk[j].phase),
                                code \in InstallResultCode \cup {None},
                                entry \in Entries \cup {None} :
                               Promise!Transitioning(j, to, code, entry, Begin)
    BY <1>5
  <2>2. PICK to \in NextPhase(Disk[j].phase), code \in InstallResultCode \cup {None},
             entry \in Entries \cup {None} :
          Promise!Transitioning(j, to, code, entry, Begin)
    BY <2>1
  <2> DEFINE new == [Disk EXCEPT ![j] = Promise!Transitioned(Disk[j], to, code, entry)]
  <2>3. /\ Promise!ReadAgrees
        /\ Promise!MayTransition(Disk[j], to, code, entry)
        /\ \/ claimed[j] = Disk[j].executor_generation
           \/ /\ Disk[j].phase = "healthy_unclaimed"
              /\ to \in {"consumed", "recovery_required"}
    BY <1>1, <2>2 DEF Promise!Transitioning, Promise!MayAct, Promise!Holds, Written
  <2>4. PICK D \in Promise!Prunes(new, j) :
          Begin(Promise!Without(new, D), Promise!Reconciled(claimed, new), issued)
    BY <1>1, <2>2 DEF Promise!Transitioning, Written
  <2>5. to \in Promise!NextPhase(Disk[j].phase)
    BY <2>3 DEF Promise!MayTransition
  <2>6. code \in Promise!InstallResultCode \cup {None}
    BY CodesAgree
  <2> QED BY <1>1, <2>1, <2>3, <2>4, <2>5, <2>6 DEF Offers, OffersTransition
<1> QED BY <1>2, <1>3, <1>4, <1>5 DEF Operate
\* What an operation offers is what the same operation of the promise commits.
LEMMA OfferIsStep ==
  ASSUME save # Idle, ~Written, Promise!ReadAgrees, NEW doc, NEW claims, NEW ids,
         Offers(Disk, claimed, save.before, doc, claims, ids),
         Promise!Commit(doc, claims, ids)
  PROVE  Promise!Next
<1>1. CASE OffersCreate(Disk, claimed, save.before, doc, claims, ids)
  <2>1. PICK plan \in Plans, j \in Jobs \ save.before :
          \E D \in Promise!Prunes(Disk, j) :
            /\ Promise!PanelFree(Disk, plan) /\ Promise!HasRoom(Disk)
            /\ doc = [Promise!Without(Disk, D) EXCEPT ![j] = Promise!ApprovedReceipt(plan)]
            /\ claims = Promise!Reconciled(claimed, Disk) /\ ids = save.before \cup {j}
    BY <1>1 DEF OffersCreate
  <2>2. Promise!Create(plan)
    BY <2>1 DEF Promise!Create, Promise!Creating, Written
  <2> QED BY <2>2 DEF Promise!Next
<1>2. CASE OffersCancel(Disk, claimed, save.before, doc, claims, ids)
  <2>1. PICK j \in Jobs :
          /\ Disk[j] # NoReceipt /\ Disk[j].phase \in Promise!CancellablePhases
          /\ ~Disk[j].cancel_requested
          /\ doc = [Disk EXCEPT ![j] = Promise!CancelRequested(Disk[j])]
          /\ claims = Promise!Reconciled(claimed, Disk) /\ ids = save.before
    BY <1>2 DEF OffersCancel
  <2>2. Promise!RequestCancel(j)
    BY <2>1 DEF Promise!RequestCancel, Promise!Cancelling, Written
  <2> QED BY <2>2 DEF Promise!Next
<1>3. CASE OffersClaim(Disk, claimed, save.before, doc, claims, ids)
  <2>1. PICK j \in Jobs, cleaned \in BOOLEAN :
          LET new == [Disk EXCEPT ![j] = Promise!Claimed(Disk[j])]
          IN  /\ Promise!Claimable(Disk[j])
              /\ claimed[j] # Disk[j].executor_generation
              /\ Promise!ClaimTerminalizes(Disk[j]) => cleaned
              /\ \E D \in Promise!Prunes(new, j) : doc = Promise!Without(new, D)
              /\ claims = Promise!Reconciled(
                            [claimed EXCEPT ![j] = new[j].executor_generation], new)
              /\ ids = save.before
    BY <1>3 DEF OffersClaim
  <2>2. Promise!Claim(j, cleaned)
    BY <2>1 DEF Promise!Claim, Promise!Claiming, Promise!Holds, Written
  <2> QED BY <2>2 DEF Promise!Next
<1>4. CASE OffersTransition(Disk, claimed, save.before, doc, claims, ids)
  <2>1. PICK j \in {k \in Jobs : Disk[k] # NoReceipt} :
          \E to \in Promise!NextPhase(Disk[j].phase),
          code \in Promise!InstallResultCode \cup {None}, entry \in Entries \cup {None} :
          LET new == [Disk EXCEPT ![j] = Promise!Transitioned(Disk[j], to, code, entry)]
          IN  /\ Promise!MayTransition(Disk[j], to, code, entry)
              /\ \/ claimed[j] = Disk[j].executor_generation
                 \/ /\ Disk[j].phase = "healthy_unclaimed"
                    /\ to \in {"consumed", "recovery_required"}
              /\ \E D \in Promise!Prunes(new, j) : doc = Promise!Without(new, D)
              /\ claims = Promise!Reconciled(claimed, new) /\ ids = save.before
    BY <1>4 DEF OffersTransition
  <2>2. PICK to \in Promise!NextPhase(Disk[j].phase),
             code \in Promise!InstallResultCode \cup {None}, entry \in Entries \cup {None} :
          LET new == [Disk EXCEPT ![j] = Promise!Transitioned(Disk[j], to, code, entry)]
          IN  /\ Promise!MayTransition(Disk[j], to, code, entry)
              /\ \/ claimed[j] = Disk[j].executor_generation
                 \/ /\ Disk[j].phase = "healthy_unclaimed"
                    /\ to \in {"consumed", "recovery_required"}
              /\ \E D \in Promise!Prunes(new, j) : doc = Promise!Without(new, D)
              /\ claims = Promise!Reconciled(claimed, new) /\ ids = save.before
    BY <2>1
  <2>3. Promise!Transition(j, to, code, entry)
    BY <2>2 DEF Promise!Transition, Promise!Transitioning, Promise!MayAct, Promise!Holds,
                Written
  <2> QED BY <2>2, <2>3 DEF Promise!Next
<1> QED BY <1>1, <1>2, <1>3, <1>4 DEF Offers

Claims == [Jobs -> Nat \cup {NoClaim}]

\* Reconciled once more with the same document, claims stay as they are; and
\* with one that differs in a receipt that had no claim, or keeps it.
LEMMA ReconciledFacts ==
  ASSUME NEW c \in Claims, NEW doc
  PROVE  LET r == Promise!Reconciled(c, doc)
         IN  /\ r \in Claims
             /\ \A j \in Jobs :
                  /\ r[j] \in {c[j], NoClaim}
                  /\ Promise!Claimable(doc[j]) /\ doc[j].executor_generation = c[j]
                       => r[j] = c[j]
                  /\ ~Promise!Claimable(doc[j]) => r[j] = NoClaim
<1> DEFINE r == Promise!Reconciled(c, doc)
<1>1. \A j \in Jobs :
        r[j] = IF Promise!Claimable(doc[j]) /\ doc[j].executor_generation = c[j]
               THEN c[j] ELSE NoClaim
  BY DEF Promise!Reconciled, Promise!Claimable
<1>2. r = [j \in Jobs |-> r[j]]
  BY DEF Promise!Reconciled
<1> HIDE DEF r
<1>3. r \in Claims
  BY <1>1, <1>2 DEF Claims
<1> QED BY <1>1, <1>3 DEF r

LEMMA ReconciledSame ==
  ASSUME NEW c \in Claims, NEW b \in Claims, NEW doc,
         \A j \in Jobs : Promise!Claimable(doc[j]) =>
           (c[j] = doc[j].executor_generation <=> b[j] = doc[j].executor_generation)
  PROVE  Promise!Reconciled(c, doc) = Promise!Reconciled(b, doc)
<1>1. \A j \in Jobs : Promise!Reconciled(c, doc)[j] = Promise!Reconciled(b, doc)[j]
  BY DEF Promise!Reconciled, Promise!Claimable
<1> QED BY <1>1 DEF Promise!Reconciled
\* Who may move a receipt stays the same when the claims are reconciled.
LEMMA ClaimStays ==
  ASSUME NEW d \in Docs, NEW c \in Claims, NEW j \in Jobs, Promise!Claimable(d[j])
  PROVE  /\ d[j] \in InstallJobReceipt
         /\ Promise!Reconciled(c, d)[j] = d[j].executor_generation
              <=> c[j] = d[j].executor_generation
<1>1. d[j] \in InstallJobReceipt
  BY DEF Docs, Promise!Claimable, Promise!IsActive
<1>2. d[j].executor_generation \in Nat
  BY <1>1 DEF InstallJobReceipt
<1>3. d[j].executor_generation # NoClaim
  BY <1>2, StoreAssumption
<1> QED BY <1>1, <1>3, ReconciledFacts

\* A transition that leaves work on a receipt started from work on it.
LEMMA TransitionClaimable ==
  ASSUME NEW r \in InstallJobReceipt, NEW to \in Promise!NextPhase(r.phase)
  PROVE  /\ Promise!Claimable(r) \/ r.phase = "healthy_unclaimed"
         /\ \A n : n.phase = to /\ Promise!Claimable(n) => Promise!Claimable(r)
<1>1. r # NoReceipt /\ r.phase \notin Promise!TerminalPhases
  BY StoreAssumption, NextPhaseFacts
<1>2. Promise!Claimable(r) \/ r.phase = "healthy_unclaimed"
  BY <1>1 DEF Promise!Claimable, Promise!IsActive, Promise!IsTerminal
<1>3. r.phase = "healthy_unclaimed" => to \in Promise!TerminalPhases
  BY NextPhaseFacts DEF Promise!TerminalPhases
<1>4. \A n : Promise!Claimable(n) => n.phase \notin Promise!TerminalPhases
  BY DEF Promise!Claimable, Promise!IsActive, Promise!IsTerminal
<1> QED BY <1>2, <1>3, <1>4

\* What is offered is offered still once the claims are reconciled with the read.
LEMMA OffersAgain ==
  ASSUME NEW d \in Docs, AllStaged(d), NEW c \in Claims, NEW i,
         NEW doc, NEW claims, NEW ids, Offers(d, c, i, doc, claims, ids)
  PROVE  Offers(d, Promise!Reconciled(c, d), i, doc, claims, ids)
<1> DEFINE b == Promise!Reconciled(c, d)
<1>1. b \in Claims
  BY ReconciledFacts
<1>2. \A j \in Jobs : Promise!Claimable(d[j]) =>
        (c[j] = d[j].executor_generation <=> b[j] = d[j].executor_generation)
  BY ClaimStays
<1> HIDE DEF b
<1>3. Promise!Reconciled(b, d) = Promise!Reconciled(c, d)
  BY <1>1, <1>2, ReconciledSame
<1>4. CASE OffersCreate(d, c, i, doc, claims, ids)
  <2>1. OffersCreate(d, b, i, doc, claims, ids)
    BY <1>3, <1>4 DEF OffersCreate
  <2> QED BY <2>1 DEF Offers, b
<1>5. CASE OffersCancel(d, c, i, doc, claims, ids)
  <2>1. OffersCancel(d, b, i, doc, claims, ids)
    BY <1>3, <1>5 DEF OffersCancel
  <2> QED BY <2>1 DEF Offers, b
<1>6. CASE OffersClaim(d, c, i, doc, claims, ids)
  <2>1. PICK j \in Jobs, cleaned \in BOOLEAN :
          LET new == [d EXCEPT ![j] = Promise!Claimed(d[j])]
          IN  /\ Promise!Claimable(d[j])
              /\ c[j] # d[j].executor_generation
              /\ Promise!ClaimTerminalizes(d[j]) => cleaned
              /\ \E D \in Promise!Prunes(new, j) : doc = Promise!Without(new, D)
              /\ claims = Promise!Reconciled(
                            [c EXCEPT ![j] = new[j].executor_generation], new)
              /\ ids = i
    BY <1>6 DEF OffersClaim
  <2> DEFINE new == [d EXCEPT ![j] = Promise!Claimed(d[j])]
             g == new[j].executor_generation
  <2>2. d[j] \in InstallJobReceipt /\ d[j] # NoReceipt /\ b[j] # d[j].executor_generation
    BY <1>2, <2>1, ClaimStays, StoreAssumption
  <2>3. new[j] = Promise!Claimed(d[j]) /\ \A k \in Jobs \ {j} : new[k] = d[k]
    BY DEF Docs
  <2>4. g \in Nat
    BY <2>1, <2>2, <2>3, ClaimedStaged DEF AllStaged, InstallJobReceipt
  <2> HIDE DEF new, g
  <2> DEFINE cg == [c EXCEPT ![j] = g]
             bg == [b EXCEPT ![j] = g]
  <2>5. /\ cg \in Claims /\ bg \in Claims /\ cg[j] = g /\ bg[j] = g
        /\ \A k \in Jobs \ {j} : cg[k] = c[k] /\ bg[k] = b[k]
    BY <1>1, <2>4 DEF Claims
  <2>6. new[j].executor_generation = g
    BY DEF g
  <2> HIDE DEF cg, bg
  <2>7. Promise!Reconciled(bg, new) = Promise!Reconciled(cg, new)
    <3>1. \A k \in Jobs : Promise!Claimable(new[k]) =>
            (bg[k] = new[k].executor_generation <=> cg[k] = new[k].executor_generation)
      BY <1>2, <2>3, <2>5, <2>6
    <3> QED BY <2>5, <3>1, ReconciledSame
  <2>8. OffersClaim(d, b, i, doc, claims, ids)
    BY <2>1, <2>2, <2>7 DEF OffersClaim, new, g, cg, bg
  <2> QED BY <2>8 DEF Offers, b
<1>7. CASE OffersTransition(d, c, i, doc, claims, ids)
  <2>1. PICK j \in {k \in Jobs : d[k] # NoReceipt} :
          \E to \in Promise!NextPhase(d[j].phase),
          code \in Promise!InstallResultCode \cup {None}, entry \in Entries \cup {None} :
          LET new == [d EXCEPT ![j] = Promise!Transitioned(d[j], to, code, entry)]
          IN  /\ Promise!MayTransition(d[j], to, code, entry)
              /\ \/ c[j] = d[j].executor_generation
                 \/ /\ d[j].phase = "healthy_unclaimed"
                    /\ to \in {"consumed", "recovery_required"}
              /\ \E D \in Promise!Prunes(new, j) : doc = Promise!Without(new, D)
              /\ claims = Promise!Reconciled(c, new) /\ ids = i
    BY <1>7 DEF OffersTransition
  <2>2. PICK to \in Promise!NextPhase(d[j].phase),
             code \in Promise!InstallResultCode \cup {None}, entry \in Entries \cup {None} :
          LET new == [d EXCEPT ![j] = Promise!Transitioned(d[j], to, code, entry)]
          IN  /\ Promise!MayTransition(d[j], to, code, entry)
              /\ \/ c[j] = d[j].executor_generation
                 \/ /\ d[j].phase = "healthy_unclaimed"
                    /\ to \in {"consumed", "recovery_required"}
              /\ \E D \in Promise!Prunes(new, j) : doc = Promise!Without(new, D)
              /\ claims = Promise!Reconciled(c, new) /\ ids = i
    BY <2>1
  <2> DEFINE r == Promise!Transitioned(d[j], to, code, entry)
             new == [d EXCEPT ![j] = r]
  <2>3. d[j] \in InstallJobReceipt
    BY <2>2 DEF Docs
  <2>4. r.phase = to /\ r.executor_generation = d[j].executor_generation
    BY <2>3, TransitionedStaged, CodesAgree DEF AllStaged
  <2>5. new[j] = r /\ \A k \in Jobs \ {j} : new[k] = d[k]
    BY DEF Docs
  <2>6. Promise!Claimable(r) => Promise!Claimable(d[j])
    BY <2>3, <2>4, TransitionClaimable
  <2>7. Promise!Claimable(d[j]) \/ d[j].phase = "healthy_unclaimed"
    BY <2>3, TransitionClaimable
  <2>8. d[j].phase = "healthy_unclaimed" => to \in {"consumed", "recovery_required"}
    BY <2>3, NextPhaseFacts
  <2> HIDE DEF r, new
  <2>9. Promise!Reconciled(b, new) = Promise!Reconciled(c, new)
    BY <1>1, <1>2, <2>4, <2>5, <2>6, ReconciledSame
  <2>10. \/ b[j] = d[j].executor_generation
         \/ /\ d[j].phase = "healthy_unclaimed"
            /\ to \in {"consumed", "recovery_required"}
    BY <1>2, <2>2, <2>7, <2>8
  <2>11. OffersTransition(d, b, i, doc, claims, ids)
    BY <2>2, <2>9, <2>10 DEF OffersTransition, new, r
  <2> QED BY <2>11 DEF Offers, b
<1> QED BY <1>4, <1>5, <1>6, <1>7 DEF Offers
\* A document that may replace d, with the ids drawn for it.
Fits(d, doc, ids) ==
  /\ doc \in Docs /\ AllStaged(doc) /\ Apart(d, doc)
  /\ ids \in SUBSET Jobs
  /\ \A j \in Jobs : doc[j] # NoReceipt => j \in ids

LEMMA RewriteFits ==
  ASSUME NEW d, NEW ids, Fits(d, d, ids), NEW j \in Jobs, d[j] # NoReceipt,
         NEW r \in InstallJobReceipt, Staged(r), r.revision = d[j].revision + 1
  PROVE  Fits(d, [d EXCEPT ![j] = r], ids)
<1> DEFINE new == [d EXCEPT ![j] = r]
<1>1. d[j] \in InstallJobReceipt
  BY DEF Fits, Docs
<1>2. r.revision # d[j].revision
  BY <1>1 DEF InstallJobReceipt
<1>3. new \in Docs /\ new[j] = r /\ \A k \in Jobs \ {j} : new[k] = d[k]
  BY DEF Fits, Docs
<1> HIDE DEF new
<1>4. AllStaged(new) /\ Apart(d, new)
  BY <1>2, <1>3 DEF Fits, AllStaged, Apart
<1> QED BY <1>3, <1>4 DEF Fits, new

LEMMA WithoutFits ==
  ASSUME NEW d, NEW doc, NEW ids, Fits(d, doc, ids), NEW D
  PROVE  /\ Fits(d, Promise!Without(doc, D), ids)
         /\ \A j \in Jobs : Promise!Without(doc, D)[j] \in {doc[j], NoReceipt}
<1> DEFINE left == Promise!Without(doc, D)
<1>1. left \in Docs /\ \A j \in Jobs : left[j] \in {doc[j], NoReceipt}
  BY DEF Fits, Docs, Promise!Without
<1> HIDE DEF left
<1>2. AllStaged(left) /\ Apart(d, left)
  BY <1>1 DEF Fits, AllStaged, Apart
<1> QED BY <1>1, <1>2 DEF Fits, left

\* What is offered may replace the document, with claims and ids that fit it.
LEMMA OffersFit ==
  ASSUME NEW d, NEW i, Fits(d, d, i), NEW c \in Claims,
         NEW doc, NEW claims, NEW ids, Offers(d, c, i, doc, claims, ids)
  PROVE  Fits(d, doc, ids) /\ claims \in Claims
<1>0. d \in Docs /\ AllStaged(d)
  BY DEF Fits
<1>1. CASE OffersCreate(d, c, i, doc, claims, ids)
  <2>1. PICK plan \in Plans, j \in Jobs \ i : \E D \in Promise!Prunes(d, j) :
          /\ doc = [Promise!Without(d, D) EXCEPT ![j] = Promise!ApprovedReceipt(plan)]
          /\ claims = Promise!Reconciled(c, d) /\ ids = i \cup {j}
    BY <1>1 DEF OffersCreate
  <2>2. PICK D : doc = [Promise!Without(d, D) EXCEPT ![j] = Promise!ApprovedReceipt(plan)]
    BY <2>1
  <2> DEFINE left == Promise!Without(d, D)
             r == Promise!ApprovedReceipt(plan)
  <2>3. /\ left \in Docs /\ AllStaged(left) /\ Apart(d, left)
        /\ \A k \in Jobs : left[k] # NoReceipt => k \in i
    BY WithoutFits DEF Fits
  <2>4. r \in InstallJobReceipt /\ Staged(r)
    BY ApprovedStaged
  <2>5. d[j] = NoReceipt
    BY <2>1 DEF Fits
  <2> HIDE DEF left, r
  <2>6. doc \in Docs /\ doc[j] = r /\ \A k \in Jobs \ {j} : doc[k] = left[k]
    BY <2>2, <2>3, <2>4 DEF Docs, left, r
  <2>7. AllStaged(doc) /\ Apart(d, doc)
    BY <2>3, <2>4, <2>5, <2>6 DEF AllStaged, Apart
  <2>8. ids \in SUBSET Jobs /\ \A k \in Jobs : doc[k] # NoReceipt => k \in ids
    BY <2>1, <2>3, <2>6 DEF Fits
  <2>9. claims \in Claims
    BY <2>1, ReconciledFacts
  <2> QED BY <2>6, <2>7, <2>8, <2>9 DEF Fits
<1>2. CASE OffersCancel(d, c, i, doc, claims, ids)
  <2>1. PICK j \in Jobs :
          /\ d[j] # NoReceipt
          /\ doc = [d EXCEPT ![j] = Promise!CancelRequested(d[j])]
          /\ claims = Promise!Reconciled(c, d) /\ ids = i
    BY <1>2 DEF OffersCancel
  <2>2. d[j] \in InstallJobReceipt /\ Staged(d[j])
    BY <1>0, <2>1 DEF Docs, AllStaged
  <2>3. Fits(d, doc, ids)
    BY <2>1, <2>2, CancelRequestedStaged, RewriteFits
  <2> QED BY <2>1, <2>3, ReconciledFacts
<1>3. CASE OffersClaim(d, c, i, doc, claims, ids)
  <2>1. PICK j \in Jobs, cleaned \in BOOLEAN :
          LET new == [d EXCEPT ![j] = Promise!Claimed(d[j])]
          IN  /\ Promise!Claimable(d[j])
              /\ \E D \in Promise!Prunes(new, j) : doc = Promise!Without(new, D)
              /\ claims = Promise!Reconciled(
                            [c EXCEPT ![j] = new[j].executor_generation], new)
              /\ ids = i
    BY <1>3 DEF OffersClaim
  <2> DEFINE r == Promise!Claimed(d[j])
             new == [d EXCEPT ![j] = r]
             g == new[j].executor_generation
             cg == [c EXCEPT ![j] = g]
  <2>2. d[j] \in InstallJobReceipt /\ Staged(d[j]) /\ d[j] # NoReceipt
    BY <1>0, <2>1, ClaimStays, StoreAssumption DEF AllStaged
  <2>3. r \in InstallJobReceipt /\ Staged(r) /\ r.revision = d[j].revision + 1
    BY <2>1, <2>2, ClaimedStaged
  <2>4. new[j] = r
    BY <1>0 DEF Docs
  <2> HIDE DEF r
  <2>5. Fits(d, new, i)
    BY <2>2, <2>3, RewriteFits
  <2>6. g \in Nat
    BY <2>3, <2>4 DEF InstallJobReceipt
  <2> HIDE DEF g
  <2>7. cg \in Claims
    BY <2>6 DEF Claims
  <2> HIDE DEF cg, new
  <2>8. claims \in Claims
    BY <2>1, <2>7, ReconciledFacts DEF cg, g, new, r
  <2>9. PICK D : doc = Promise!Without(new, D)
    BY <2>1 DEF new, r
  <2> QED BY <2>1, <2>5, <2>8, <2>9, WithoutFits
<1>4. CASE OffersTransition(d, c, i, doc, claims, ids)
  <2>1. PICK j \in {k \in Jobs : d[k] # NoReceipt} :
          \E to \in Promise!NextPhase(d[j].phase),
          code \in Promise!InstallResultCode \cup {None}, entry \in Entries \cup {None} :
          LET new == [d EXCEPT ![j] = Promise!Transitioned(d[j], to, code, entry)]
          IN  /\ \E D \in Promise!Prunes(new, j) : doc = Promise!Without(new, D)
              /\ claims = Promise!Reconciled(c, new) /\ ids = i
    BY <1>4 DEF OffersTransition
  <2>2. PICK to \in Promise!NextPhase(d[j].phase),
             code \in Promise!InstallResultCode \cup {None}, entry \in Entries \cup {None} :
          LET new == [d EXCEPT ![j] = Promise!Transitioned(d[j], to, code, entry)]
          IN  /\ \E D \in Promise!Prunes(new, j) : doc = Promise!Without(new, D)
              /\ claims = Promise!Reconciled(c, new) /\ ids = i
    BY <2>1
  <2> DEFINE r == Promise!Transitioned(d[j], to, code, entry)
             new == [d EXCEPT ![j] = r]
  <2>3. d[j] \in InstallJobReceipt /\ d[j] # NoReceipt
    BY <1>0, <2>2 DEF Docs
  <2>4. r \in InstallJobReceipt /\ Staged(r) /\ r.revision = d[j].revision + 1
    BY <2>3, TransitionedStaged, CodesAgree
  <2> HIDE DEF r
  <2>5. Fits(d, new, i)
    BY <2>3, <2>4, RewriteFits
  <2> HIDE DEF new
  <2>6. claims \in Claims
    BY <2>2, ReconciledFacts DEF new, r
  <2>7. PICK D : doc = Promise!Without(new, D)
    BY <2>2 DEF new, r
  <2> QED BY <2>2, <2>5, <2>6, <2>7, WithoutFits
<1> QED BY <1>1, <1>2, <1>3, <1>4 DEF Offers
LEMMA OffersIds ==
  ASSUME NEW d, NEW c, NEW i, NEW doc, NEW claims, NEW ids,
         Offers(d, c, i, doc, claims, ids)
  PROVE  i \subseteq ids
BY DEF Offers, OffersCreate, OffersCancel, OffersClaim, OffersTransition

-----------------------------------------------------------------------------
(***************************************************************************)
(* The invariant of the save in steps.                                     *)
(***************************************************************************)

Unwritten == {"details", "primary"}

FilesFit ==
  /\ primary \in Docs /\ Records(primary) = primary
  /\ \A x \in details : x.record.phase \in Failing /\ x.failure_stage \in InstallPhase

\* A save that has not written the primary file yet holds what an operation
\* offered, and the details on disk are those of both documents, or there are
\* none to keep; once it has written it, what is read is its document.
SaveFits ==
  save # Idle =>
    /\ save \in Saves
    /\ save.at \in Unwritten =>
         /\ cache = Disk
         /\ Fits(Disk, save.doc, issued)
         /\ Offers(Disk, claimed, save.before, save.doc, save.claims, issued)
    /\ save.at = "primary" => details = Kept(save.doc) \/ Kept(save.doc) = {}
    /\ save.at \notin Unwritten => primary = Records(save.doc) /\ Disk = save.doc
    /\ save.at = "compact" => cache = save.doc

StoreInv ==
  /\ FilesFit /\ Fits(Disk, Disk, issued)
  /\ claimed \in Claims
  /\ SaveFits

LEMMA DiskFacts ==
  ASSUME FilesFit
  PROVE  Disk \in Docs /\ Records(Disk) = primary
<1> DEFINE own(j) == {x \in details : x.job = j /\ primary[j] # NoReceipt
                                        /\ Bound(x, primary[j])}
<1>1. ASSUME NEW j \in Jobs
      PROVE  Disk[j] \in InstallJobReceipt \cup {NoReceipt} /\ Record(Disk[j]) = primary[j]
  <2>0. primary[j] \in InstallJobReceipt \cup {NoReceipt} /\ Record(primary[j]) = primary[j]
    BY DEF FilesFit, Docs, Records
  <2>1. Disk[j] = IF own(j) = {} THEN primary[j]
                  ELSE [primary[j] EXCEPT
                          !.failure_stage = (CHOOSE x \in own(j) : TRUE).failure_stage]
    BY DEF Disk, Joined
  <2>2. CASE own(j) = {}
    BY <2>0, <2>1, <2>2
  <2>3. CASE own(j) # {}
    <3>1. primary[j] \in InstallJobReceipt
      BY <2>0, <2>3
    <3>2. PICK s \in InstallPhase : Disk[j] = [primary[j] EXCEPT !.failure_stage = s]
      <4>1. (CHOOSE x \in own(j) : TRUE) \in details
        BY <2>3
      <4> QED BY <2>1, <2>3, <4>1 DEF FilesFit
    <3>3. Disk[j] \in InstallJobReceipt
      BY <3>1, <3>2 DEF InstallJobReceipt
    <3>4. Disk[j] # NoReceipt
      BY <3>3, StoreAssumption
    <3>5. Record(primary[j]) = [primary[j] EXCEPT !.failure_stage = None]
      BY <3>1, StoreAssumption DEF Record
    <3>6. Record(Disk[j]) = [Disk[j] EXCEPT !.failure_stage = None]
      BY <3>4 DEF Record
    <3>7. [Disk[j] EXCEPT !.failure_stage = None]
            = [primary[j] EXCEPT !.failure_stage = None]
      BY <3>1, <3>2 DEF InstallJobReceipt
    <3> QED BY <2>0, <3>3, <3>5, <3>6, <3>7
  <2> QED BY <2>2, <2>3
<1>2. Disk = [j \in Jobs |-> Disk[j]]
  BY DEF Disk, Joined
<1>3. primary = [j \in Jobs |-> primary[j]]
  BY DEF FilesFit, Docs
<1>4. Disk \in Docs
  BY <1>1, <1>2 DEF Docs
<1>5. Records(Disk) = primary
  BY <1>1, <1>3 DEF Records
<1> QED BY <1>4, <1>5

\* Beside the details that are kept, the old file reads as the old document and
\* the new one as the new document.
LEMMA KeptReads ==
  ASSUME FilesFit, NEW doc, NEW ids, Fits(Disk, doc, ids)
  PROVE  /\ Joined(primary, Kept(doc)) = Disk
         /\ Joined(Records(doc), Kept(doc)) = doc
BY DiskFacts, BothDetails DEF Fits, Kept

\* What is written in the detail file has the shape of details.
LEMMA DetailsFit ==
  ASSUME NEW doc \in Docs, AllStaged(doc)
  PROVE  /\ \A x \in DetailsOf(doc) :
              x.record.phase \in Failing /\ x.failure_stage \in InstallPhase
         /\ Records(doc) \in Docs /\ Records(Records(doc)) = Records(doc)
<1>1. ASSUME NEW x \in DetailsOf(doc)
      PROVE  x.record.phase \in Failing /\ x.failure_stage \in InstallPhase
  <2>1. /\ x.job \in Jobs /\ doc[x.job] # NoReceipt
        /\ x.record = Record(doc[x.job])
        /\ x.failure_stage = doc[x.job].failure_stage
        /\ x.failure_stage # None
    BY DetailsFacts
  <2>2. doc[x.job] \in InstallJobReceipt
    BY <2>1 DEF Docs
  <2> QED BY <2>1, <2>2, RecordFacts DEF AllStaged, Staged, InstallJobReceipt
<1>2. ASSUME NEW j \in Jobs
      PROVE  /\ Record(doc[j]) \in InstallJobReceipt \cup {NoReceipt}
             /\ Record(Record(doc[j])) = Record(doc[j])
  <2>1. CASE doc[j] = NoReceipt
    BY <2>1 DEF Record
  <2>2. CASE doc[j] \in InstallJobReceipt
    <3>1. /\ Record(doc[j]) \in InstallJobReceipt
          /\ Record(doc[j]) # NoReceipt /\ Record(doc[j]).failure_stage = None
      BY <2>2, RecordFacts
    <3>2. Record(Record(doc[j])) = [Record(doc[j]) EXCEPT !.failure_stage = None]
      BY <3>1 DEF Record
    <3> QED BY <3>1, <3>2 DEF InstallJobReceipt
  <2> QED BY <2>1, <2>2 DEF Docs
<1>3. Records(doc) \in Docs /\ Records(Records(doc)) = Records(doc)
  BY <1>2 DEF Records, Docs
<1> QED BY <1>1, <1>3

\* The primary file of the new document reads as that document.
LEMMA PrimaryReads ==
  ASSUME StoreInv, save # Idle, save.at = "primary"
  PROVE  Joined(Records(save.doc), details) = save.doc
<1>1. Fits(Disk, save.doc, issued) /\ (details = Kept(save.doc) \/ Kept(save.doc) = {})
  BY DEF StoreInv, SaveFits, Unwritten
<1>2. CASE details = Kept(save.doc)
  BY <1>1, <1>2, KeptReads DEF StoreInv
<1>3. CASE Kept(save.doc) = {}
  <2>1. DetailsOf(save.doc) = {}
    BY <1>3 DEF Kept
  <2> QED BY <1>1, <2>1, StrangeDetails DEF StoreInv, FilesFit, Fits
<1> QED BY <1>1, <1>2, <1>3
-----------------------------------------------------------------------------
(***************************************************************************)
(* Each step keeps the invariant, and is a step of the promise or none.    *)
(***************************************************************************)

LEMMA StoreInitFits == Init => StoreInv /\ Promise!Init
<1> SUFFICES ASSUME Init PROVE StoreInv /\ Promise!Init
  OBVIOUS
<1> DEFINE none == [j \in Jobs |-> NoReceipt]
<1>1. /\ none \in Docs /\ AllStaged(none) /\ Records(none) = none
      /\ \A j \in Jobs : none[j] = NoReceipt
  BY DEF Docs, AllStaged, Records, Record
<1>2. Disk = none
  BY <1>1 DEF Init, Disk, Joined
<1>3. Fits(Disk, Disk, issued)
  BY <1>1, <1>2 DEF Init, Fits, Apart
<1>4. FilesFit /\ claimed \in Claims
  BY <1>1 DEF Init, FilesFit, Claims
<1>5. SaveFits
  BY DEF Init, SaveFits
<1>6. Promise!Init
  BY <1>2 DEF Init, Promise!Init, Promise!NoClaims, Written
<1> QED BY <1>3, <1>4, <1>5, <1>6 DEF StoreInv

\* With both files as they were, so is what is read.
LEMMA SameFiles ==
  ASSUME UNCHANGED <<primary, details>>
  PROVE  Disk' = Disk
BY DEF Disk

\* No save is left over: the invariant is about what is read.
LEMMA IdleKeeps ==
  ASSUME FilesFit', Fits(Disk', Disk', issued'), claimed' \in Claims, save' = Idle
  PROVE  StoreInv'
BY DEF StoreInv, SaveFits

LEMMA NoClaimsFit == Promise!NoClaims \in Claims
BY DEF Promise!NoClaims, Claims

LEMMA FitsItself ==
  ASSUME NEW d, NEW doc, NEW ids, Fits(d, doc, ids)
  PROVE  Fits(doc, doc, ids)
BY DEF Fits, Apart

LEMMA RefreshKeeps ==
  ASSUME StoreInv, Refresh
  PROVE  StoreInv' /\ Promise!Refresh
<1>1. Disk' = Disk
  BY SameFiles DEF Refresh
<1>2. claimed' \in Claims
  BY ReconciledFacts DEF Refresh, StoreInv
<1>3. FilesFit'
  BY DEF Refresh, StoreInv, FilesFit
<1>4. StoreInv'
  BY <1>1, <1>2, <1>3, IdleKeeps DEF Refresh, StoreInv
<1>5. Promise!Refresh
  BY <1>1 DEF Refresh, Promise!Refresh, Written
<1> QED BY <1>4, <1>5

LEMMA OperateKeeps ==
  ASSUME StoreInv, Operate
  PROVE  StoreInv' /\ Promise!Refresh
<1>1. /\ save = Idle /\ Promise!ReadAgrees
      /\ \E doc, claims, ids :
           Offers(Disk, claimed, issued, doc, claims, ids) /\ Begin(doc, claims, ids)
  BY OperateOffers
<1>2. PICK doc, claims, ids :
        Offers(Disk, claimed, issued, doc, claims, ids) /\ Begin(doc, claims, ids)
  BY <1>1
<1>3. Disk' = Disk
  BY <1>2, SameFiles DEF Begin
<1>4. Fits(Disk, Disk, issued) /\ claimed \in Claims
  BY DEF StoreInv
<1>5. Fits(Disk, doc, ids) /\ claims \in Claims /\ issued \subseteq ids
  BY <1>2, <1>4, OffersFit, OffersIds
<1>6. /\ issued' = ids
      /\ Fits(Disk', Disk', issued')
  BY <1>2, <1>3, <1>4, <1>5 DEF Begin, Fits
<1>7. claimed' = Promise!Reconciled(claimed, Disk) /\ claimed' \in Claims
  BY <1>2, <1>4, ReconciledFacts DEF Begin
<1>8. Offers(Disk, claimed', issued, doc, claims, ids)
  BY <1>2, <1>4, <1>7, OffersAgain DEF Fits
<1>9. /\ save'.at = IF Kept(doc) = {} THEN "primary" ELSE "details"
      /\ save'.doc = doc /\ save'.claims = claims /\ save'.before = issued
      /\ save' \in Saves
  <2> DEFINE at == IF Kept(doc) = {} THEN "primary" ELSE "details"
             compact == IF Kept(doc) = {} THEN details # {} ELSE Kept(doc) # DetailsOf(doc)
  <2>1. save' = [at |-> at, doc |-> doc, claims |-> claims, before |-> issued,
                 compact |-> compact]
    BY <1>2 DEF Begin
  <2>2. at \in {"details", "primary"} /\ compact \in BOOLEAN
    OBVIOUS
  <2>3. doc \in Docs /\ issued \in SUBSET Jobs
    BY <1>4, <1>5 DEF Fits
  <2> HIDE DEF compact
  <2> QED BY <1>5, <2>1, <2>2, <2>3 DEF Saves, Claims
<1>10. Kept(doc)' = Kept(doc)
  BY <1>3 DEF Kept
<1>11. cache' = Disk
  BY <1>2 DEF Begin
<1>12. SaveFits'
  BY <1>3, <1>5, <1>6, <1>8, <1>9, <1>10, <1>11 DEF SaveFits, Unwritten, Kept
<1>13. FilesFit'
  BY <1>2 DEF Begin, StoreInv, FilesFit
<1>14. StoreInv'
  BY <1>6, <1>7, <1>12, <1>13 DEF StoreInv
<1>15. ~Written /\ ~Written' /\ save' # Idle
  BY <1>1, <1>9, StoreAssumption DEF Written
<1>16. Promise!Refresh
  BY <1>1, <1>3, <1>7, <1>9, <1>11, <1>15 DEF Promise!Refresh
<1> QED BY <1>14, <1>16
\* The details of both documents are on disk, or may be, before the new one is.
LEMMA KeptFits ==
  ASSUME StoreInv, save # Idle, save.at \in Unwritten
  PROVE  /\ Joined(primary, Kept(save.doc)) = Disk
         /\ \A x \in Kept(save.doc) :
              x.record.phase \in Failing /\ x.failure_stage \in InstallPhase
BY KeptReads, DetailsFit DEF StoreInv, SaveFits, Fits, Kept

LEMMA WriteDetailsKeeps ==
  ASSUME StoreInv, WriteDetails
  PROVE  StoreInv' /\ UNCHANGED Promise!jobVars
<1>1. save # Idle /\ save.at = "details" /\ save \in Saves
  BY DEF WriteDetails, StoreInv, SaveFits
<1>2. Disk' = Disk
  BY <1>1, KeptFits DEF WriteDetails, Disk, Unwritten
<1>3. FilesFit'
  BY <1>1, KeptFits DEF WriteDetails, StoreInv, FilesFit, Unwritten
<1>4. /\ save' \in Saves /\ save'.at = "primary" /\ save'.doc = save.doc
      /\ save'.claims = save.claims /\ save'.before = save.before
  BY <1>1 DEF WriteDetails, Saves
<1>5. save' # Idle
  BY <1>4, StoreAssumption
<1>6. Kept(save.doc)' = Kept(save.doc) /\ details' = Kept(save.doc)
  BY <1>2, <1>4 DEF WriteDetails, Kept
<1>7. SaveFits'
  BY <1>1, <1>2, <1>4, <1>5, <1>6 DEF WriteDetails, StoreInv, SaveFits, Unwritten
<1>8. StoreInv'
  BY <1>2, <1>3, <1>7 DEF WriteDetails, StoreInv
<1>9. UNCHANGED Promise!jobVars
  BY <1>1, <1>2, <1>4, <1>5 DEF WriteDetails, Promise!jobVars, Written
<1> QED BY <1>8, <1>9

LEMMA WritePrimaryKeeps ==
  ASSUME StoreInv, WritePrimary
  PROVE  StoreInv' /\ Promise!Next
<1>1. save # Idle /\ save.at = "primary" /\ save \in Saves
  BY DEF WritePrimary, StoreInv, SaveFits
<1>2. Disk' = save.doc
  BY <1>1, PrimaryReads DEF WritePrimary, Disk
<1>3. /\ save' \in Saves /\ save'.at = "verify" /\ save'.doc = save.doc
      /\ save'.claims = save.claims
  BY <1>1 DEF WritePrimary, Saves
<1>4. save' # Idle
  BY <1>3, StoreAssumption
<1>5. /\ cache = Disk /\ Fits(Disk, save.doc, issued)
      /\ Offers(Disk, claimed, save.before, save.doc, save.claims, issued)
  BY <1>1 DEF StoreInv, SaveFits, Unwritten
<1>6. Fits(Disk', Disk', issued')
  BY <1>2, <1>5, FitsItself DEF WritePrimary
<1>7. FilesFit'
  BY <1>5, DetailsFit DEF WritePrimary, StoreInv, FilesFit, Fits
<1>8. SaveFits'
  BY <1>2, <1>3 DEF WritePrimary, SaveFits, Unwritten
<1>9. StoreInv'
  BY <1>6, <1>7, <1>8 DEF WritePrimary, StoreInv
<1>10. Promise!ReadAgrees /\ ~Written
  BY <1>1, <1>5 DEF Promise!ReadAgrees, Written
<1>11. Promise!Commit(save.doc, save.claims, issued)
  BY <1>1, <1>2, <1>3, <1>4 DEF WritePrimary, Promise!Commit, Promise!Save, Written
<1> QED BY <1>1, <1>5, <1>9, <1>10, <1>11, OfferIsStep

LEMMA AdoptKeeps ==
  ASSUME StoreInv, Adopt
  PROVE  StoreInv' /\ UNCHANGED Promise!jobVars
<1>1. /\ save # Idle /\ save.at = "verify" /\ save \in Saves
      /\ primary = Records(save.doc) /\ Disk = save.doc
  BY DEF Adopt, StoreInv, SaveFits, Unwritten
<1>2. Disk' = Disk
  BY SameFiles DEF Adopt
<1>3. FilesFit'
  BY DEF Adopt, StoreInv, FilesFit
<1>4. Fits(Disk', Disk', issued') /\ cache' = save.doc
  BY <1>1, <1>2 DEF Adopt, StoreInv
<1>5. CASE save.compact
  <2>1. /\ save' \in Saves /\ save'.at = "compact" /\ save'.doc = save.doc
        /\ save'.claims = save.claims
    BY <1>1, <1>5 DEF Adopt, Saves
  <2>2. save' # Idle
    BY <2>1, StoreAssumption
  <2>3. claimed' \in Claims
    BY <1>5, ReconciledFacts DEF Adopt, StoreInv
  <2>4. SaveFits'
    BY <1>1, <1>2, <1>4, <2>1 DEF Adopt, SaveFits, Unwritten
  <2>5. UNCHANGED Promise!jobVars
    BY <1>1, <1>2, <2>1, <2>2 DEF Adopt, Promise!jobVars, Written
  <2> QED BY <1>3, <1>4, <2>3, <2>4, <2>5 DEF StoreInv
<1>6. CASE ~save.compact
  <2>1. save' = Idle /\ claimed' = save.claims
    BY <1>6 DEF Adopt
  <2>2. claimed' \in Claims
    BY <1>1, <2>1 DEF Saves, Claims
  <2>3. UNCHANGED Promise!jobVars
    BY <1>1, <1>2, <1>4, <2>1 DEF Adopt, Promise!jobVars, Written
  <2> QED BY <1>3, <1>4, <2>1, <2>2, <2>3, IdleKeeps
<1> QED BY <1>5, <1>6

\* Without the details that no receipt needs, the document reads the same.
LEMMA CompactReads ==
  ASSUME StoreInv, save # Idle, save.at = "compact", NEW ds \in {details, DetailsOf(save.doc)}
  PROVE  /\ Joined(primary, ds) = Disk
         /\ \A x \in ds : x.record.phase \in Failing /\ x.failure_stage \in InstallPhase
<1>1. primary = Records(save.doc) /\ Disk = save.doc /\ Fits(Disk, Disk, issued)
  BY DEF StoreInv, SaveFits, Unwritten
<1>2. CASE ds = details
  BY <1>2 DEF StoreInv, FilesFit, Disk
<1>3. CASE ds = DetailsOf(save.doc)
  BY <1>1, <1>3, OwnDetails, DetailsFit DEF Fits
<1> QED BY <1>2, <1>3

LEMMA CompactKeeps ==
  ASSUME StoreInv, Compact
  PROVE  StoreInv' /\ UNCHANGED Promise!jobVars
<1>1. /\ save # Idle /\ save.at = "compact" /\ save \in Saves /\ cache = save.doc
      /\ save' = Idle /\ claimed' = save.claims
  BY DEF Compact, StoreInv, SaveFits
<1>2. Disk' = Disk
  BY <1>1, CompactReads DEF Compact, Disk
<1>3. FilesFit'
  BY <1>1, CompactReads DEF Compact, StoreInv, FilesFit
<1>4. claimed' \in Claims
  BY <1>1 DEF Saves, Claims
<1>5. Fits(Disk', Disk', issued')
  BY <1>2 DEF Compact, StoreInv
<1>6. UNCHANGED Promise!jobVars
  BY <1>1, <1>2 DEF Compact, Promise!jobVars, Written
<1> QED BY <1>1, <1>3, <1>4, <1>5, <1>6, IdleKeeps

\* A save that is stopped before its document is on disk, or in the write that
\* puts it there, is a save of the promise that fails; any other stop only
\* loses the cache.
LEMMA AbortKeeps ==
  ASSUME StoreInv, Abort
  PROVE  StoreInv' /\ Promise!Next
<1>1. /\ cache' = NoCache /\ claimed' = Promise!NoClaims
      /\ save' = Idle /\ issued' = issued
  BY DEF Abort, Forget
<1>2. claimed' \in Claims
  BY <1>1, NoClaimsFit
<1>3. CASE save # Idle /\ save.at \in Unwritten
  <2>1. /\ Fits(Disk, save.doc, issued) /\ cache = Disk
        /\ Offers(Disk, claimed, save.before, save.doc, save.claims, issued)
    BY <1>3 DEF StoreInv, SaveFits
  <2>2. /\ Disk' \in {Disk, save.doc}
        /\ FilesFit'
    <3>1. CASE save.at = "details"
      <4>1. details' \in {details, Kept(save.doc)} /\ primary' = primary
        BY <1>3, <3>1 DEF Abort
      <4>2. Joined(primary, details') = Disk
        BY <1>3, <4>1, KeptFits DEF Disk
      <4> QED BY <1>3, <4>1, <4>2, KeptFits DEF StoreInv, FilesFit, Disk
    <3>2. CASE save.at = "primary"
      <4>1. primary' \in {primary, Records(save.doc)} /\ details' = details
        BY <1>3, <3>2 DEF Abort
      <4>2. Joined(primary', details) \in {Disk, save.doc}
        BY <1>3, <3>2, <4>1, PrimaryReads DEF Disk
      <4>3. Records(save.doc) \in Docs /\ Records(Records(save.doc)) = Records(save.doc)
        BY <2>1, DetailsFit DEF Fits
      <4> QED BY <4>1, <4>2, <4>3 DEF StoreInv, FilesFit, Disk
    <3> QED BY <1>3, <3>1, <3>2 DEF Unwritten
  <2>3. Fits(Disk', Disk', issued')
    BY <1>1, <2>1, <2>2, FitsItself DEF StoreInv
  <2>4. Promise!ReadAgrees /\ ~Written /\ ~Written'
    BY <1>1, <1>3, <2>1 DEF Promise!ReadAgrees, Written, Unwritten
  <2>5. Promise!Commit(save.doc, save.claims, issued)
    BY <1>1, <2>2, <2>4 DEF Promise!Commit, Promise!Save, Promise!Forget
  <2> QED BY <1>1, <1>2, <1>3, <2>1, <2>2, <2>3, <2>4, <2>5, IdleKeeps, OfferIsStep
<1>4. CASE save = Idle \/ save.at \notin Unwritten
  <2>1. Disk' = Disk /\ FilesFit'
    <3>1. CASE save # Idle /\ save.at = "compact"
      <4>1. details' \in {details, DetailsOf(save.doc)} /\ primary' = primary
        BY <3>1 DEF Abort
      <4> QED BY <3>1, <4>1, CompactReads DEF StoreInv, FilesFit, Disk
    <3>2. CASE save = Idle \/ save.at # "compact"
      <4>1. details' = details /\ primary' = primary
        BY <1>4, <3>2 DEF Abort, Unwritten
      <4> QED BY <4>1 DEF StoreInv, FilesFit, Disk
    <3> QED BY <3>1, <3>2
  <2>2. Fits(Disk', Disk', issued')
    BY <1>1, <2>1 DEF StoreInv
  <2>3. save = Idle \/ Written
    BY <1>4 DEF StoreInv, SaveFits, Saves, Unwritten, Written
  <2>4. Promise!LoseCache
    BY <1>1, <2>1, <2>3 DEF Promise!LoseCache, Promise!Forget, Written
  <2> QED BY <1>1, <1>2, <2>1, <2>2, <2>4, IdleKeeps DEF Promise!Next
<1> QED BY <1>3, <1>4

LEMMA StoreStepKeeps ==
  StoreInv /\ [Next]_storeVars => StoreInv' /\ [Promise!Next]_(Promise!jobVars)
<1> SUFFICES ASSUME StoreInv, [Next]_storeVars
             PROVE  StoreInv' /\ [Promise!Next]_(Promise!jobVars)
  OBVIOUS
<1>1. CASE UNCHANGED storeVars
  <2>1. Disk' = Disk
    BY <1>1 DEF storeVars, Disk
  <2>2. StoreInv'
    BY <1>1, <2>1 DEF storeVars, StoreInv, SaveFits, FilesFit, Kept
  <2>3. UNCHANGED Promise!jobVars
    BY <1>1, <2>1 DEF storeVars, Promise!jobVars, Written
  <2> QED BY <2>2, <2>3
<1>2. CASE Refresh \/ Operate
  BY <1>2, RefreshKeeps, OperateKeeps DEF Promise!Next
<1>3. CASE WriteDetails \/ Adopt \/ Compact
  BY <1>3, WriteDetailsKeeps, AdoptKeeps, CompactKeeps
<1>4. CASE WritePrimary \/ Abort
  BY <1>4, WritePrimaryKeeps, AbortKeeps
<1> QED BY <1>1, <1>2, <1>3, <1>4 DEF Next

\* The two files, wherever a save stops, read as one document that changes only
\* as the atomic save of the manager changes it (_async_save_locked and
\* _async_load_locked in install_jobs.py).
THEOREM SavesAreAtomic == Spec => Refines
<1>1. Init => StoreInv /\ Promise!Init
  BY StoreInitFits
<1>2. StoreInv /\ [Next]_storeVars => StoreInv' /\ [Promise!Next]_(Promise!jobVars)
  BY StoreStepKeeps
<1> QED BY <1>1, <1>2, PTL DEF Spec, Refines, Promise!Spec
=============================================================================
